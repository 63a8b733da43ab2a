---- MODULE MCNetInfoFile ----
(* Instances of NetInfoFile: two calls of Generate and one of GaudinetFile.  *)
EXTENDS NetInfoFile, TLC

CONSTANTS a0, a1

MCWriter   == {"runtime", "cli", "copy"}
MCGaudinet == {"copy"}

Look(devices, type, pci, ports) == [devices |-> devices, type |-> type, pci |-> pci, ports |-> ports]
Macs(d) == IF d = a0 THEN (0 :> "m00" @@ 9 :> "m09") ELSE (2 :> "m12")
Good      == Look({a0, a1}, "gaudi", [d \in {a0, a1} |-> IF d = a0 THEN "p0" ELSE "p1"], [d \in {a0, a1} |-> Macs(d)])
NoDevices == [Good EXCEPT !.devices = {}]
NoType    == [Good EXCEPT !.type = "unreadable"]
BadPort   == [Good EXCEPT !.ports[a1] = (-1 :> "m")]
MCLooks   == {Good, NoDevices, NoType, BadPort}

Dirs(e, h) == "etc" :> e @@ "habanalabs" :> h
Files(m, g) == "macAddrInfo" :> m @@ "gaudinet" :> g
Image(d, f) == [dirs |-> d, file |-> f, data |-> <<"image">>]
PlainImages == {Image(Dirs("none", "none"), Files("none", "none")),
                Image(Dirs("dir", "none"), Files("none", "none")),
                Image(Dirs("dir", "dir"), Files("image", "image"))}
OtherImages == {Image(Dirs("dir", "other"), Files("none", "none")),
                Image(Dirs("dir", "dir"), Files("other", "image"))}
MCImages    == PlainImages \cup OtherImages
MCSources   == {-1, 0, 2}
====
