----------------------------- MODULE BundleConfig -----------------------------
(***************************************************************************)
(* What the runtime promises about config.json of a bundle, whatever is    *)
(* killed or fails: a create request leaves the file alone or replaces it, *)
(* in one step, by a spec that adds one selection of accelerators to it;   *)
(* it is replaced only on the way to runc, and never by a refused request. *)
(***************************************************************************)
EXTENDS Discover

VARIABLES config,  \* the contents of config.json
          state    \* "idle", "working", "handed" (to runc) or "refused"

\* In a hook list, habana hooks are replaced or one is appended.
HasHook(hooks, ids) ==
  \E i \in DOMAIN hooks : hooks[i] = [habana |-> TRUE, devs |-> ids]

OthersKept(old, new) ==
  /\ Len(new) >= Len(old)
  /\ \A i \in DOMAIN old : new[i] = old[i] \/ (old[i].habana /\ new[i].habana)

\* Rules are only added, behind the old ones, and only allow single devices.
RulesExtended(old, new) ==
  /\ Len(new) >= Len(old)
  /\ \A i \in DOMAIN new :
        IF i \in DOMAIN old THEN new[i] = old[i] ELSE new[i].allow /\ new[i].exact

\* Besides its hooks and generated variables, new is old with nodes of ids added.
NodesExtended(old, new, ids) ==
  /\ new.process = old.process /\ new.root = old.root /\ new.privileged = old.privileged
  /\ \A k \in EnvKeys \ {"MODULES", "ERROR"} : new.env[k] = old.env[k]
  /\ old.devices \subseteq new.devices
  /\ \A d \in new.devices \ old.devices : d.type = "c" /\ d.path[2] \in ids
  /\ RulesExtended(old.rules, new.rules)

\* Legacy mode: a prestart hook for ids, nothing else.
LegacyConfigures(old, new, ids) ==
  /\ new = [old EXCEPT !.prestart = new.prestart]
  /\ HasHook(new.prestart, ids) /\ OthersKept(old.prestart, new.prestart)

\* OCI mode: nodes, a createRuntime hook and the module ids for the same ids.
OciConfigures(old, new, ids) ==
  /\ NodesExtended(old, new, ids) /\ new.prestart = old.prestart
  /\ HasHook(new.createRuntime, ids) /\ OthersKept(old.createRuntime, new.createRuntime)
  /\ Len(new.env["MODULES"]) = 1

\* new is old with the accelerators in ids configured, all of it or nothing.
Configures(old, new, ids) ==
  ids # {} /\ (LegacyConfigures(old, new, ids) \/ OciConfigures(old, new, ids))

Init == state = "idle"

\* The engine issues a create request.
Request == /\ state # "working" /\ state' \in {"working", "handed", "refused"}
           /\ UNCHANGED config

\* The request replaces the file.
Configure == /\ state = "working" /\ state' = "handed"
             /\ \E ids \in SUBSET Accel : Configures(config, config', ids)

\* The request goes on to runc, fails or is killed, without touching the file.
Conclude == /\ state \in {"working", "handed"} /\ state' \in {"handed", "refused"}
            /\ UNCHANGED config

Next == Request \/ Configure \/ Conclude

Spec == Init /\ [][Next]_<<config, state>>
=============================================================================
