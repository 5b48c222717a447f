---------------------------- MODULE MCRtspServer ----------------------------
(* Instances of RtspServer for TLC.                                        *)
EXTENDS RtspServer, TLC

Symmetry == Permutations(Conns) \cup Permutations(Objs)

(* Well formed lines for every command and KILL, one unsupported method.   *)
FullLines == {r \in Request : /\ r.version = "1.0"
                              /\ r.method \in Commands \cup {"KILL", "RECORD"}}

(* Every version word, lines without one and lines without a word.         *)
AllLines == {r \in Request : r.method \in Commands \cup {"KILL", "other", "blank"}}
=============================================================================
