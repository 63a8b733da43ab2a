----------------------------- MODULE MCContainer -----------------------------
(* Instances of Container over the hosts and bundles of MCRuntime. *)
EXTENDS Container, MCRuntime

HookConfigs(modes, accepts, roots) ==
  [mode : modes, allowEnv : BOOLEAN, alwaysMount : {TRUE}, acceptUnprivileged : accepts,
   mountAccelerators : BOOLEAN, mountUverbs : {TRUE}, root : roots]

\* The hook in OCI or legacy mode, and every hook there may be.
OciHooks == HookConfigs({"oci"}, {TRUE}, {FALSE})
AnyHook  == HookConfigs({"oci", "cdi"}, BOOLEAN, BOOLEAN)

\* The engine's own hook (packaging/oci-habana-hook.json) on bundles of all kinds.
HookBundles ==
  {[s EXCEPT !.env = e, !.privileged = p, !.prestart = hooks] :
     s \in {Plain, Plugin({a0})}, p \in BOOLEAN, hooks \in {<<>>, <<OciHook>>},
     e \in {[NoEnv EXCEPT !["DEVICES"] = vs] :
              vs \in {<<>>, <<Form("all")>>, <<Form("none")>>, <<Form("void")>>,
                      <<List({a0})>>, <<List({a0, junk})>>, <<Form("bare")>>,
                      <<List({a0}), List({a1})>>}}}
  \cup {NoSpec}

HookRuntimes == [mode : {"legacy", "oci", "cdi"}, allowEnv : BOOLEAN, alwaysMount : {FALSE},
                 mountAccelerators : {TRUE}, mountUverbs : {TRUE}]
LifeConfigs == RetryConfigs \cup HookRuntimes
LifeHooks   == OciHooks \cup AnyHook
LifeBundles == RetryBundles \cup HookBundles

\* A few bundles through two requests and a change of the host, or every
\* bundle and hook once.
LifeBounded ==
  \/ cfg \in RetryConfigs /\ hcfg \in OciHooks /\ origin \in RetryBundles /\ host \in SomeHosts
  \/ creates <= 1 /\ changes = 0 /\ cfg \in HookRuntimes /\ origin \in HookBundles
=============================================================================
