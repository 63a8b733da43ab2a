---- MODULE MCCommandLine ----
(* Instances of CommandLine: names that are commands or flags too.           *)
EXTENDS CommandLine

MCText == Commands \cup BundleFlags
            \cup {"root", "log", "pid-file", "systemd-cgroup", "dir", "pid", "id", NoText}

MCGlobals == {<<Flag("root"), Word("dir")>>, <<Flag("log"), Word("create")>>,
              <<FlagIs("root", "b")>>, <<Flag("log"), Word("bundle")>>, <<Flag("systemd-cgroup")>>}
MCLocals  == {<<Flag("pid-file"), Word("pid")>>, <<FlagIs("pid-file", "create")>>}
             \cup {<<Flag(b), Word(d)>> : b \in BundleFlags, d \in {"dir", NoText}}
             \cup {<<FlagIs(b, d)>> : b \in BundleFlags, d \in {"dir", NoText}}
MCWords == {"id", "create", "b"}
====
