---- MODULE MCToolkit ----
(* Instances of Toolkit: files with and without runtimes of others.          *)
EXTENDS Toolkit

MCDirs == {"bin", "local"}
Conf(runtimes, kata, habana, features) ==
  [runtimes |-> runtimes, kata |-> kata, habana |-> habana, features |-> features, admin |-> "kept"]
MCFiles == {Missing, Empty,
            Conf("none", FALSE, Absent, {}), Conf("none", FALSE, Absent, {"buildkit"}),
            Conf("table", TRUE, Absent, {"cdi"}), Conf("table", TRUE, "bin", {}),
            Conf("table", FALSE, "local", {"cdi"}), Conf("other", FALSE, Absent, {})}
MCEngines  == {"docker", "crio", "containerd"}
====
