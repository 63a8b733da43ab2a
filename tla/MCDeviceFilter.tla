---- MODULE MCDeviceFilter ----
(* Instances of DeviceFilter: the rules convertDevInfoToDevRule makes of     *)
(* two accelerators and a uverbs node, and programs an engine attaches.      *)
EXTENDS DeviceFilter

Rule(major, minor) == [allow |-> TRUE, type |-> "c", access |-> {"r", "w", "m"},
                       major |-> major, minor |-> minor]
MCRuleLists == {<<>>, <<Rule(7, 0)>>, <<Rule(7, 0), Rule(7, 1)>>, <<Rule(9, 0)>>}

MCContexts == [type : {DevBlock, DevChar}, access : {AccRead, AccRead + AccWrite, AccAll},
               major : {1, 7, 9}, minor : {0, 1, 3}]

AllowAll == AcceptBlock(TRUE)
DenyAll  == AcceptBlock(FALSE)

\* Like the program runc makes of "c 1:3 rw": it uses R1 for its access test.
NullOnly == <<LoadHalf(2, 0), LoadWord(3, 0), RSh(3, 16), LoadWord(4, 4), LoadWord(5, 8),
              JNE(2, DevChar, Offset(8)), MovReg(1, 3), AndImm(1, AccRead + AccWrite),
              JNEReg(1, 3, Offset(5)), JNE(4, 1, Offset(4)), JNE(5, 3, Offset(3))>>
            \o AcceptBlock(TRUE) \o AcceptBlock(FALSE)

\* Like the program systemd makes of the same policy: it jumps to the end that
\* allows, and from the one that denies over it.
NullAgain == <<LoadHalf(2, 0), LoadWord(3, 0), RSh(3, 16), LoadWord(4, 4), LoadWord(5, 8),
               MovReg(1, 3), AndImm(1, AccRead + AccWrite), JNEReg(1, 3, Offset(5)),
               JNE(2, DevChar, Offset(4)), JNE(4, 1, Offset(3)), JNE(5, 3, Offset(2)),
               Ja(Offset(3)), Mov(0, 0), Ja(Offset(2)), Mov(0, 1), Return>>

MCPrograms == {AllowAll, DenyAll, NullOnly, NullAgain, NoProgram}

\* The execution agrees with what these programs are written for.
ASSUME \A c \in MCContexts :
         /\ Decides(AllowAll, c) /\ ~Decides(DenyAll, c)
         /\ \A null \in {NullOnly, NullAgain} :
              Decides(null, c) <=> c.type = DevChar /\ c.major = 1 /\ c.minor = 3 /\ c.access # AccAll
====
