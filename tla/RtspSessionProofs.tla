------------------------- MODULE RtspSessionProofs -------------------------
(***************************************************************************)
(* What holds of RtspSession whatever specs the peers offer, in as many    *)
(* headers as they like.                                                   *)
(***************************************************************************)
EXTENDS RtspSession, WellFoundedInduction, SequenceTheorems, TLAPS

USE MaxTransportsAssumption, MaxHeadersAssumption, SpecsAssumption

(* No request is being read once the session is dead; before that, what    *)
(* its state says was granted was granted.                                 *)
GrantInv ==
    /\ state \in States
    /\ line # NoLine => state # "DEAD" /\ line.method \in Commands \cup {"KILL"}
    /\ state \in {"READY", "PLAY"} => "SETUP" \in granted
    /\ state = "PLAY" => "PLAY" \in granted
    /\ granted \cap {"PLAY", "PAUSE", "TEARDOWN"} # {} => "SETUP" \in granted

(* What an answer makes of the session: a refusal leaves its state, and a  *)
(* command of effect has to be allowable in it.                            *)
LEMMA AnswerStep ==
    ASSUME GrantInv, Answer
    PROVE  LET reply == last'.reply
           IN  /\ last'.method = line.method /\ line # NoLine /\ line' = NoLine
               /\ granted' = IF reply = OK /\ line.method \in Effective
                             THEN granted \cup {line.method} ELSE granted
               /\ reply \notin {OK, NoReply} => state' = state
               /\ reply = NoReply => line.method = "KILL"
               /\ line.method = "KILL" => reply = NoReply
               /\ reply \in {OK, NoReply} => state' = NextState(state, line.method)
               /\ reply = OK => line.method \in Allowable(state)
<1> DEFINE r == [method |-> line.method, version |-> line.version, ok |-> HeadersSatisfy]
<1>1. /\ last'.reply = Reply(state, r) /\ last'.method = line.method
      /\ state' = NextState(state, Command(state, r))
      /\ line # NoLine /\ line' = NoLine
      /\ granted' = IF last'.reply = OK /\ line.method \in Effective
                    THEN granted \cup {line.method} ELSE granted
  BY DEF Answer
<1>2. r.method = line.method /\ line.method \in Commands \cup {"KILL"}
  BY <1>1 DEF GrantInv
<1>3. CASE line.method = "KILL"
  <2>1. Reply(state, r) = NoReply
    BY <1>2, <1>3 DEF Reply, Commands
  <2>2. QED
    BY <1>1, <1>2, <1>3, <2>1 DEF Command, NoReply, OK
<1>4. CASE line.method # "KILL"
  <2>1. Reply(state, r) = IF LineCode(state, r) # OK THEN LineCode(state, r)
                                                    ELSE HandlerCode(r)
    BY <1>2, <1>4 DEF Reply
  <2>2. LineCode(state, r) # NoReply /\ HandlerCode(r) # NoReply
    BY DEF LineCode, HandlerCode, NoReply, OK, VersionNotSupported, NotValidInState,
           UnsupportedMedia, UnsupportedTransport
  <2>3. LineCode(state, r) = OK => r.method \in Allowable(state)
    BY DEF LineCode, OK, NotValidInState, VersionNotSupported
  <2>4. Reply(state, r) \notin {OK, NoReply} => state' = state
    BY <1>1 DEF Command, NextState, GrantInv
  <2>5. Reply(state, r) = OK => state' = NextState(state, line.method)
    BY <1>1, <1>2 DEF Command
  <2>6. QED
    BY <1>1, <1>2, <1>4, <2>1, <2>2, <2>3, <2>4, <2>5
<1>5. QED
  BY <1>3, <1>4

(* No line, header or end leaves GrantInv.                                 *)
LEMMA GrantInvariance == Spec => []GrantInv
<1>1. Init => GrantInv
  BY DEF Init, GrantInv, States
<1>2. GrantInv /\ [Next]_vars => GrantInv'
  <2> SUFFICES ASSUME GrantInv, [Next]_vars PROVE GrantInv'
    OBVIOUS
  <2>1. ASSUME NEW m \in Methods, NEW v \in Versions, Line(m, v) PROVE GrantInv'
    BY <2>1 DEF Line, GrantInv, NoLine
  <2>2. ASSUME NEW sdp \in BOOLEAN, Accept(sdp) PROVE GrantInv'
    BY <2>2 DEF Accept, GrantInv
  <2>3. CASE NoNumber \/ TransportHeader
    BY <2>3 DEF NoNumber, TransportHeader, GrantInv
  <2>4. ASSUME NEW s \in Specs, TransportSpec(s) PROVE GrantInv'
    BY <2>4 DEF TransportSpec, GrantInv
  <2>5. CASE Answer
    <3>1. state' = state \/ state' = NextState(state, line.method)
      BY <2>5, AnswerStep
    <3>2. state' \in States
      BY <3>1 DEF GrantInv, NextState, States
    <3>3. line.method \in Commands \cup {"KILL"} /\ state # "DEAD" /\ line' = NoLine
      BY <2>5, AnswerStep DEF GrantInv
    <3>4. QED
      BY <2>5, <3>2, <3>3, AnswerStep
         DEF GrantInv, NextState, Allowable, States, Effective, Commands, OK, NoReply
  <2>6. CASE UNCHANGED vars
    BY <2>6 DEF vars, GrantInv
  <2>7. QED
    BY <2>1, <2>2, <2>3, <2>4, <2>5, <2>6 DEF Next
<1>3. QED
  BY <1>1, <1>2, PTL DEF Spec

(* Only a peer whose SETUP was granted is ever granted a PLAY, a PAUSE or  *)
(* a TEARDOWN, and only one whose PLAY was granted plays.                  *)
THEOREM GrantsInOrder == Spec => []SetupComesFirst
<1>1. GrantInv => SetupComesFirst
  BY DEF GrantInv, SetupComesFirst
<1>2. QED
  BY <1>1, GrantInvariance, PTL

(* Whatever is wrong with a request, its refusal leaves the session in the *)
(* state it was in.                                                        *)
THEOREM RefusalsChangeNothing == Spec => RefusalIsHarmless
<1>1. GrantInv /\ [Next]_vars => [last'.reply \notin {OK, NoReply} => state' = state]_vars
  <2> SUFFICES ASSUME GrantInv, Next, last'.reply \notin {OK, NoReply}
               PROVE  state' = state
    OBVIOUS
  <2>1. CASE Answer
    BY <2>1, AnswerStep
  <2>2. QED
    BY <2>1 DEF Next, Line, Accept, NoNumber, TransportHeader, TransportSpec
<1>2. QED
  BY <1>1, GrantInvariance, PTL DEF Spec, RefusalIsHarmless

(* Nothing but a granted TEARDOWN or a KILL ends a session, and one that   *)
(* has ended does nothing more.                                            *)
THEOREM EndsForAReason == Spec => EndsOnRequest
<1> DEFINE Asked == \/ last'.method = "KILL"
                    \/ last'.method = "TEARDOWN" /\ last'.reply = OK
<1>1. GrantInv /\ [Next]_vars => [state' = "DEAD" => Asked]_vars
  <2> SUFFICES ASSUME GrantInv, Next, state' = "DEAD" PROVE Asked
    OBVIOUS
  <2>1. CASE Answer
    BY <2>1, AnswerStep DEF GrantInv, NextState, OK, NoReply
  <2>2. CASE ~Answer
    <3>1. state # "DEAD"
      <4> SUFFICES ASSUME state = "DEAD" PROVE FALSE
        OBVIOUS
      <4>1. line.method = "none"
        BY DEF GrantInv, NoLine
      <4>2. ASSUME NEW m \in Methods, NEW v \in Versions, Line(m, v) PROVE FALSE
        BY <4>2 DEF Line
      <4>3. CASE \E sdp \in BOOLEAN : Accept(sdp)
        BY <4>1, <4>3 DEF Accept, Reads
      <4>4. CASE NoNumber \/ TransportHeader \/ \E s \in Specs : TransportSpec(s)
        BY <4>1, <4>4 DEF NoNumber, TransportHeader, TransportSpec, Reads
      <4>5. QED
        BY <2>2, <4>2, <4>3, <4>4 DEF Next
    <3>2. QED
      BY <2>2, <3>1 DEF Next, Line, Accept, NoNumber, TransportHeader, TransportSpec
  <2>3. QED
    BY <2>1, <2>2
<1>2. QED
  BY <1>1, GrantInvariance, PTL DEF Spec, EndsOnRequest
-----------------------------------------------------------------------------
(* Induction, on a set in the place of a predicate.                        *)
LEMMA SetInduction ==
    ASSUME NEW G, 0 \in G, \A n \in Nat : n \in G => n + 1 \in G
    PROVE  Nat \subseteq G
<1> SUFFICES ASSUME NEW T, T = Nat \ G, T # {} PROVE FALSE
  OBVIOUS
<1>1. T \subseteq Nat
  OBVIOUS
<1>2. PICK x \in T : \A y \in T : <<y, x>> \notin OpToRel(<, Nat)
  BY <1>1, NatLessThanWellFounded, WFMin
<1>3. x \in Nat /\ x # 0
  OBVIOUS
<1>4. <<x - 1, x>> \in OpToRel(<, Nat)
  BY <1>3 DEF OpToRel
<1>5. x - 1 \notin T
  BY <1>2, <1>4
<1>6. x - 1 \in Nat /\ (x - 1) + 1 = x
  BY <1>3
<1>7. x \in G
  BY <1>5, <1>6
<1>8. QED
  BY <1>7

(* Min and Max are what their names say of a set of positions.             *)
LEMMA LeastOf ==
    ASSUME NEW I \in SUBSET Nat, I # {}
    PROVE  Min(I) \in I /\ \A i \in I : Min(I) <= i
<1>1. PICK x \in I : \A y \in I : <<y, x>> \notin OpToRel(<, Nat)
  BY NatLessThanWellFounded, WFMin
<1>2. ASSUME NEW y \in I PROVE x <= y
  <2>1. x \in Nat /\ y \in Nat
    OBVIOUS
  <2>2. y < x => <<y, x>> \in OpToRel(<, Nat)
    BY <2>1 DEF OpToRel
  <2>3. ~(y < x)
    BY <1>1, <2>2
  <2>4. QED
    BY <2>1, <2>3
<1>3. QED
  BY <1>1, <1>2 DEF Min

(* The greatest of a set of positions.                                     *)
LEMMA GreatestOf ==
    ASSUME NEW n \in Nat, NEW I \in SUBSET (1 .. n), I # {}
    PROVE  Max(I) \in I /\ \A i \in I : i <= Max(I)
<1>1. PICK D : D = {n - i : i \in I}
  OBVIOUS
<1>2. D \in SUBSET Nat /\ D # {}
  <2>1. \A i \in I : i \in 1 .. n /\ n - i \in Nat /\ n - i \in D
    BY <1>1
  <2>2. QED
    BY <1>1, <2>1
<1>3. Min(D) \in D /\ \A d \in D : Min(D) <= d
  BY <1>2, LeastOf
<1>4. PICK x \in I : Min(D) = n - x
  BY <1>1, <1>3
<1>5. ASSUME NEW i \in I PROVE i <= x
  <2>1. n - i \in D
    BY <1>1
  <2>2. n - x <= n - i
    BY <1>3, <1>4, <2>1
  <2>3. i \in 1 .. n /\ x \in 1 .. n
    OBVIOUS
  <2>4. QED
    BY <2>2, <2>3
<1>6. QED
  BY <1>4, <1>5 DEF Max

(* The function Readings defines exists.                                   *)
LEMMA ReadingsRecur ==
    ASSUME NEW t, NEW udp, NEW heard, Len(heard) \in Nat
    PROVE  /\ Readings(t, udp, heard)[0] = Defaults(t, udp)
           /\ \A k \in 1 .. Len(heard) :
                Readings(t, udp, heard)[k] = Apply(Readings(t, udp, heard)[k - 1], heard[k])
<1> DEFINE Body(f, n) == [k \in 0 .. n |-> IF k = 0 THEN Defaults(t, udp)
                                                 ELSE Apply(f[k - 1], heard[k])]
           G == {n \in Nat : \E f : f = Body(f, n)}
<1>1. 0 \in G
  <2> DEFINE f == [k \in 0 .. 0 |-> Defaults(t, udp)]
  <2>1. f = Body(f, 0)
    OBVIOUS
  <2>2. QED
    BY <2>1
<1>2. ASSUME NEW n \in Nat, n \in G PROVE n + 1 \in G
  <2>1. PICK f : f = Body(f, n)
    BY <1>2
  <2> DEFINE g == [k \in 0 .. n + 1 |-> IF k <= n THEN f[k] ELSE Apply(f[n], heard[n + 1])]
  <2>2. ASSUME NEW k \in 0 .. n + 1
        PROVE  g[k] = IF k = 0 THEN Defaults(t, udp) ELSE Apply(g[k - 1], heard[k])
    BY <2>1, <1>2
  <2>3. g = Body(g, n + 1)
    BY <2>2
  <2> HIDE DEF g
  <2>4. \E h : h = Body(h, n + 1)
    BY <2>3
  <2>5. QED
    BY <2>4
<1>3. Nat \subseteq G
  <2> HIDE DEF G
  <2> QED
    BY <1>1, <1>2, SetInduction
<1>4. PICK f : f = Body(f, Len(heard))
  BY <1>3
<1>5. Readings(t, udp, heard) = Body(Readings(t, udp, heard), Len(heard))
  BY <1>4 DEF Readings
<1>6. QED
  BY <1>5
(* What one option does to a spec.                                         *)
LEMMA ApplyStep ==
    ASSUME NEW r \in Transport, NEW o \in Options
    PROVE  LET a == Apply(r, o)
           IN  /\ a \in Transport /\ a.udp = r.udp
               /\ a.unicast <=> (o = "unicast" \/ (r.unicast /\ o # "multicast"))
               /\ ~a.play <=> (o = "mode=other" \/ (~r.play /\ o # "mode=PLAY"))
               /\ o = "client_port" => a.port[0] /\ a.port[1]
               /\ o \notin {"client_port", "one_port"} => a.port = r.port
  BY DEF Apply, Options, Transport

(* The word yes was among the first k options, and no did not take it back.*)
LastSaid(opts, k, yes, no) ==
    \E i \in 1 .. k : opts[i] = yes /\ \A j \in i + 1 .. k : opts[j] # no

(* One option more either says it or says nothing of it.                   *)
LEMMA LastSaidStep ==
    ASSUME NEW opts, NEW k \in Nat, NEW yes, NEW no, yes # no
    PROVE  /\ ~LastSaid(opts, 0, yes, no)
           /\ LastSaid(opts, k + 1, yes, no) <=>
                opts[k + 1] = yes \/ (LastSaid(opts, k, yes, no) /\ opts[k + 1] # no)
<1>1. ~LastSaid(opts, 0, yes, no)
  BY DEF LastSaid
<1>2. ASSUME LastSaid(opts, k + 1, yes, no)
      PROVE  opts[k + 1] = yes \/ (LastSaid(opts, k, yes, no) /\ opts[k + 1] # no)
  <2>1. PICK i \in 1 .. k + 1 : opts[i] = yes /\ \A j \in i + 1 .. k + 1 : opts[j] # no
    BY <1>2 DEF LastSaid
  <2>2. CASE i = k + 1
    BY <2>1, <2>2
  <2>3. CASE i # k + 1
    <3>1. i \in 1 .. k /\ k + 1 \in i + 1 .. k + 1
      BY <2>3
    <3>2. \A j \in i + 1 .. k : j \in i + 1 .. k + 1
      BY <3>1
    <3>3. QED
      BY <2>1, <3>1, <3>2 DEF LastSaid
  <2>4. QED
    BY <2>2, <2>3
<1>3. ASSUME opts[k + 1] = yes PROVE LastSaid(opts, k + 1, yes, no)
  <2>1. k + 1 \in 1 .. k + 1 /\ \A j \in (k + 1) + 1 .. k + 1 : opts[j] # no
    OBVIOUS
  <2>2. QED
    BY <1>3, <2>1 DEF LastSaid
<1>4. ASSUME LastSaid(opts, k, yes, no), opts[k + 1] # no PROVE LastSaid(opts, k + 1, yes, no)
  <2>1. PICK i \in 1 .. k : opts[i] = yes /\ \A j \in i + 1 .. k : opts[j] # no
    BY <1>4 DEF LastSaid
  <2>2. ASSUME NEW j \in i + 1 .. k + 1 PROVE opts[j] # no
    <3>1. j \in i + 1 .. k \/ j = k + 1
      OBVIOUS
    <3>2. QED
      BY <1>4, <2>1, <3>1
  <2>3. i \in 1 .. k + 1
    OBVIOUS
  <2>4. QED
    BY <2>1, <2>2, <2>3 DEF LastSaid
<1>5. QED
  BY <1>1, <1>2, <1>3, <1>4
(* Every reading of a transport is a transport.                            *)
LEMMA ReadingsType ==
    ASSUME NEW t \in Transport, NEW udp \in BOOLEAN, NEW heard \in Seq(Options)
    PROVE  \A k \in 0 .. Len(heard) : Readings(t, udp, heard)[k] \in Transport
<1> DEFINE read == Readings(t, udp, heard)
           G == {n \in Nat : n <= Len(heard) => read[n] \in Transport}
<1>1. 0 \in G
  <2>1. read[0] = Defaults(t, udp)
    BY ReadingsRecur
  <2>2. Defaults(t, udp) \in Transport
    BY DEF Defaults, Transport
  <2>3. QED
    BY <2>1, <2>2
<1>2. ASSUME NEW n \in Nat, n \in G PROVE n + 1 \in G
  <2> SUFFICES ASSUME n + 1 <= Len(heard) PROVE read[n + 1] \in Transport
    OBVIOUS
  <2>1. read[n + 1] = Apply(read[n], heard[n + 1]) /\ heard[n + 1] \in Options
    BY ReadingsRecur
  <2>2. read[n] \in Transport
    BY <1>2
  <2>3. QED
    BY <2>1, <2>2, ApplyStep
<1>3. Nat \subseteq G
  <2> HIDE DEF G
  <2> QED
    BY <1>1, <1>2, SetInduction
<1>4. QED
  BY <1>3

(* What a spec says after k of its options.                                *)
Says(r, udp, opts, k) ==
    /\ r.udp = udp
    /\ r.unicast <=> LastSaid(opts, k, "unicast", "multicast")
    /\ ~r.play <=> LastSaid(opts, k, "mode=other", "mode=PLAY")
    /\ (r.port[0] /\ r.port[1]) <=> \E i \in 1 .. k : opts[i] = "client_port"

(* Reading the options one by one leaves what they said last.              *)
LEMMA ReadingsSay ==
    ASSUME NEW t \in Transport, ~t.port[0], ~t.port[1], NEW udp \in BOOLEAN,
           NEW heard \in Seq(Options), \A i \in 1 .. Len(heard) : heard[i] # "one_port"
    PROVE  \A k \in 0 .. Len(heard) : Says(Readings(t, udp, heard)[k], udp, heard, k)
<1> DEFINE read == Readings(t, udp, heard)
           G == {n \in Nat : n <= Len(heard) => Says(read[n], udp, heard, n)}
<1>1. 0 \in G
  <2>1. read[0] = Defaults(t, udp)
    BY ReadingsRecur
  <2>2. read[0].udp = udp /\ ~read[0].unicast /\ read[0].play /\ read[0].port = t.port
    BY <2>1 DEF Defaults, Transport
  <2>3. ~LastSaid(heard, 0, "unicast", "multicast") /\ ~LastSaid(heard, 0, "mode=other", "mode=PLAY")
    BY LastSaidStep
  <2>4. ~\E i \in 1 .. 0 : heard[i] = "client_port"
    OBVIOUS
  <2>5. QED
    BY <2>2, <2>3, <2>4 DEF Says
<1>2. ASSUME NEW n \in Nat, n \in G PROVE n + 1 \in G
  <2> SUFFICES ASSUME n + 1 <= Len(heard) PROVE Says(read[n + 1], udp, heard, n + 1)
    OBVIOUS
  <2>1. PICK r \in Transport, o \in Options : r = read[n] /\ o = heard[n + 1]
    BY ReadingsType
  <2>2. Says(r, udp, heard, n) /\ o # "one_port"
    BY <1>2, <2>1
  <2>3. PICK a \in Transport : a = Apply(r, o)
    BY ApplyStep
  <2>4. read[n + 1] = a
    BY <2>1, <2>3, ReadingsRecur
  <2>5. /\ a.udp = r.udp
        /\ a.unicast <=> (o = "unicast" \/ (r.unicast /\ o # "multicast"))
        /\ ~a.play <=> (o = "mode=other" \/ (~r.play /\ o # "mode=PLAY"))
        /\ o = "client_port" => a.port[0] /\ a.port[1]
        /\ o # "client_port" => a.port = r.port
    <3>1. o \in Options /\ r \in Transport
      OBVIOUS
    <3>2. /\ Apply(r, o).udp = r.udp
          /\ Apply(r, o).unicast <=> (o = "unicast" \/ (r.unicast /\ o # "multicast"))
          /\ ~Apply(r, o).play <=> (o = "mode=other" \/ (~r.play /\ o # "mode=PLAY"))
          /\ o = "client_port" => Apply(r, o).port[0] /\ Apply(r, o).port[1]
          /\ o \notin {"client_port", "one_port"} => Apply(r, o).port = r.port
      BY <3>1, ApplyStep
    <3>3. QED
      BY <2>2, <2>3, <3>2
  <2>6. a.unicast <=> LastSaid(heard, n + 1, "unicast", "multicast")
    <3>1. LastSaid(heard, n + 1, "unicast", "multicast") <=>
            o = "unicast" \/ (LastSaid(heard, n, "unicast", "multicast") /\ o # "multicast")
      BY <2>1, LastSaidStep
    <3>2. QED
      BY <2>2, <2>5, <3>1 DEF Says
  <2>7. ~a.play <=> LastSaid(heard, n + 1, "mode=other", "mode=PLAY")
    <3>1. LastSaid(heard, n + 1, "mode=other", "mode=PLAY") <=>
            o = "mode=other" \/ (LastSaid(heard, n, "mode=other", "mode=PLAY") /\ o # "mode=PLAY")
      BY <2>1, LastSaidStep
    <3>2. QED
      BY <2>2, <2>5, <3>1 DEF Says
  <2>8. (a.port[0] /\ a.port[1]) <=> \E i \in 1 .. n + 1 : heard[i] = "client_port"
    <3>1. (\E i \in 1 .. n + 1 : heard[i] = "client_port") <=>
            o = "client_port" \/ \E i \in 1 .. n : heard[i] = "client_port"
      <4>1. \A i : i \in 1 .. n + 1 <=> i \in 1 .. n \/ i = n + 1
        OBVIOUS
      <4>2. QED
        BY <2>1, <4>1
    <3>2. QED
      BY <2>2, <2>5, <3>1 DEF Says
  <2>9. QED
    BY <2>2, <2>4, <2>5, <2>6, <2>7, <2>8 DEF Says
<1>3. Nat \subseteq G
  <2> HIDE DEF G
  <2> QED
    BY <1>1, <1>2, SetInduction
<1>4. QED
  BY <1>3
(* What is heard of a spec's options; all of them, if none stops reading.  *)
LEMMA HeardIs ==
    ASSUME NEW opts \in Seq(Options)
    PROVE  /\ Heard(opts) \in Seq(Options)
           /\ (\A i \in 1 .. Len(opts) : ~StopsReading(opts[i])) => Heard(opts) = opts
<1> DEFINE I == {i \in 1 .. Len(opts) : StopsReading(opts[i])}
<1>1. Heard(opts) = LET stop == IF I # {} THEN Min(I) ELSE 0
                    IN  IF stop = 0 THEN opts ELSE SubSeq(opts, 1, stop)
  BY DEF Heard, SelectInSeq
<1>2. CASE I = {}
  BY <1>1, <1>2
<1>3. CASE I # {}
  <2>1. I \subseteq Nat /\ I \subseteq 1 .. Len(opts)
    OBVIOUS
  <2>2. PICK stop \in 1 .. Len(opts) : stop = Min(I) /\ StopsReading(opts[stop])
    <3>1. Min(I) \in I
      BY <1>3, <2>1, LeastOf
    <3>2. QED
      BY <3>1
  <2>3. (IF I # {} THEN Min(I) ELSE 0) = stop /\ stop # 0
    BY <1>3, <2>2
  <2> HIDE DEF I
  <2>4. Heard(opts) = SubSeq(opts, 1, stop)
    BY <1>1, <2>3
  <2>5. Heard(opts) \in Seq(Options)
    BY <2>2, <2>4, SubSeqProperties
  <2>6. QED
    BY <2>2, <2>5
<1>4. QED
  BY <1>2, <1>3

(* The last of two options that was given is the one said last.            *)
LEMMA LastOfIs ==
    ASSUME NEW opts \in Seq(Options), NEW yes, NEW no, yes # no, yes # "none"
    PROVE  LastOf(opts, {yes, no}) = yes <=> LastSaid(opts, Len(opts), yes, no)
<1> DEFINE I == {i \in 1 .. Len(opts) : opts[i] \in {yes, no}}
<1>1. LastOf(opts, {yes, no}) = LET last_ == IF I # {} THEN Max(I) ELSE 0
                                IN  IF last_ = 0 THEN "none" ELSE opts[last_]
  BY DEF LastOf, SelectLastInSeq
<1>2. Len(opts) \in Nat
  OBVIOUS
<1>3. CASE I = {}
  <2>1. LastOf(opts, {yes, no}) = "none"
    BY <1>1, <1>3
  <2>2. ~LastSaid(opts, Len(opts), yes, no)
    BY <1>3 DEF LastSaid
  <2>3. QED
    BY <2>1, <2>2
<1>4. CASE I # {}
  <2>1. I \in SUBSET (1 .. Len(opts))
    OBVIOUS
  <2>2. Max(I) \in I /\ \A i \in I : i <= Max(I)
    BY <1>2, <1>4, <2>1, GreatestOf
  <2>3. PICK m \in 1 .. Len(opts) : m = Max(I) /\ opts[m] \in {yes, no}
    BY <2>2
  <2>4. LastOf(opts, {yes, no}) = opts[m]
    BY <1>1, <1>4, <2>3
  <2>5. \A j \in m + 1 .. Len(opts) : opts[j] \notin {yes, no}
    BY <2>2, <2>3
  <2>6. CASE opts[m] = yes
    BY <2>4, <2>5, <2>6 DEF LastSaid
  <2>7. CASE opts[m] = no
    <3>1. ASSUME NEW i \in 1 .. Len(opts), opts[i] = yes,
                 \A j \in i + 1 .. Len(opts) : opts[j] # no
          PROVE  FALSE
      <4>1. i \in I
        BY <3>1
      <4>2. i <= m /\ i # m
        BY <2>2, <2>3, <2>7, <3>1, <4>1
      <4>3. m \in i + 1 .. Len(opts)
        BY <2>3, <4>2
      <4>4. QED
        BY <2>7, <3>1, <4>3
    <3>2. ~LastSaid(opts, Len(opts), yes, no)
      BY <3>1 DEF LastSaid
    <3>3. QED
      BY <2>4, <2>7, <3>2
  <2>8. QED
    BY <2>3, <2>6, <2>7
<1>5. QED
  BY <1>3, <1>4

(* A spec that is read to its end into a clean transport is usable if and  *)
(* only if it offers what setup searches for.                              *)
LEMMA ReadSpecIs ==
    ASSUME NEW t \in Transport, NEW udp \in BOOLEAN, NEW opts \in Seq(Options)
    PROVE  /\ ReadSpec(t, udp, opts) \in Transport
           /\ ~t.port[0] /\ ~t.port[1] /\ (\A o \in Range(opts) : ~StopsReading(o)) =>
                (Usable(ReadSpec(t, udp, opts)) <=> OffersUdp(udp, opts))
<1>1. ReadSpec(t, udp, opts) \in Transport
  BY HeardIs, ReadingsType DEF ReadSpec
<1>2. ASSUME ~t.port[0], ~t.port[1], \A o \in Range(opts) : ~StopsReading(o)
      PROVE  Usable(ReadSpec(t, udp, opts)) <=> OffersUdp(udp, opts)
  <2>1. \A i \in 1 .. Len(opts) : opts[i] \in Range(opts)
    BY DEF Range
  <2>2. \A i \in 1 .. Len(opts) : ~StopsReading(opts[i]) /\ opts[i] # "one_port"
    BY <1>2, <2>1 DEF StopsReading
  <2>3. ReadSpec(t, udp, opts) = Readings(t, udp, opts)[Len(opts)]
    BY <2>2, HeardIs DEF ReadSpec
  <2>4. Says(ReadSpec(t, udp, opts), udp, opts, Len(opts))
    BY <1>2, <2>2, <2>3, ReadingsSay
  <2>5. LastOf(opts, {"unicast", "multicast"}) = "unicast" <=>
          LastSaid(opts, Len(opts), "unicast", "multicast")
    BY LastOfIs
  <2>6. LastOf(opts, {"mode=other", "mode=PLAY"}) = "mode=other" <=>
          LastSaid(opts, Len(opts), "mode=other", "mode=PLAY")
    BY LastOfIs
  <2>7. {"mode=other", "mode=PLAY"} = {"mode=PLAY", "mode=other"}
    OBVIOUS
  <2>8. "client_port" \in Range(opts) <=> \E i \in 1 .. Len(opts) : opts[i] = "client_port"
    BY DEF Range
  <2>9. QED
    BY <2>4, <2>5, <2>6, <2>7, <2>8 DEF Says, Usable, OffersUdp
<1>3. QED
  BY <1>1, <1>2
-----------------------------------------------------------------------------
(* Between requests the headers are clean; while the first Transport       *)
(* header is read whole, the transports it has not reached are, and one of *)
(* the others is usable exactly if a usable one was offered.               *)
HeadersInv ==
    /\ line = NoLine => hdr = NoHeader /\ offer = NoOffer
    /\ offer.whole = hdr.reading
    /\ offer.headers = 0 => hdr.idx = 0 /\ hdr.transport = NoHeader.transport
    /\ offer.headers = 1 /\ offer.whole =>
         \A i \in Slots : i > hdr.idx => hdr.transport[i] = NoTransport
    /\ offer.headers <= 1 /\ offer.whole =>
         (offer.usable <=> \E i \in Slots : Usable(hdr.transport[i]))

FairInv == TypeOK /\ HeadersInv /\ SetupIsFair

(* What holds of the headers before any is read, and what a reply is.      *)
LEMMA CleanHeaders ==
    /\ NoHeader \in Header /\ NoOffer \in Offer /\ NoTransport \in Transport
    /\ \A i \in Slots : NoHeader.transport[i] = NoTransport
    /\ ~NoTransport.port[0] /\ ~NoTransport.port[1] /\ ~Usable(NoTransport)
<1>1. NoTransport \in Transport /\ ~NoTransport.port[0] /\ ~NoTransport.port[1]
      /\ ~Usable(NoTransport)
  BY DEF NoTransport, Transport, Usable
<1>2. NoHeader \in Header /\ \A i \in Slots : NoHeader.transport[i] = NoTransport
  BY <1>1 DEF NoHeader, Header
<1>3. NoOffer \in Offer
  BY DEF NoOffer, Offer
<1>4. QED
  BY <1>1, <1>2, <1>3

(* Every reply is one of the codes the session sends.                      *)
LEMMA RepliesAreCodes ==
    ASSUME NEW s, NEW r PROVE Reply(s, r) \in Codes
  BY DEF Reply, Codes, LineCode, HandlerCode, NoReply, OK, BadRequest,
         UnsupportedMedia, NotValidInState, UnsupportedTransport, NotImplemented,
         VersionNotSupported

(* A SETUP that got as far as its Transport is granted if it is ok.        *)
LEMMA SetupReplies ==
    ASSUME NEW s, NEW r, r.method = "SETUP", Reply(s, r) \in {OK, UnsupportedTransport}
    PROVE  Reply(s, r) = OK <=> r.ok
  BY DEF Reply, Commands, LineCode, HandlerCode, OK, UnsupportedMedia, NotValidInState,
         UnsupportedTransport, VersionNotSupported

(* No line, header or end leaves FairInv.                                  *)
LEMMA FairInvariance == Spec => []FairInv
<1>1. Init => FairInv
  <2> SUFFICES ASSUME Init PROVE FairInv
    OBVIOUS
  <2>1. NoLine \in [method : Methods, version : Versions] /\ NoAnswer \in [method : Methods, reply : Codes, offer : Offer]
    BY CleanHeaders DEF NoLine, NoAnswer, Methods, Versions, Codes
  <2>2. TypeOK
    BY <2>1, CleanHeaders DEF Init, TypeOK, States
  <2>3. HeadersInv
    BY CleanHeaders DEF Init, HeadersInv, NoOffer, NoHeader
  <2>4. SetupIsFair
    BY DEF Init, SetupIsFair, NoAnswer
  <2>5. QED
    BY <2>2, <2>3, <2>4 DEF FairInv
<1>2. FairInv /\ [Next]_vars => FairInv'
  <2> SUFFICES ASSUME FairInv, [Next]_vars PROVE FairInv'
    OBVIOUS
  <2>0. TypeOK /\ HeadersInv /\ SetupIsFair
    BY DEF FairInv
  <2>1. ASSUME NEW m \in Methods, NEW v \in Versions, Line(m, v) PROVE FairInv'
    <3>1. /\ line = NoLine /\ UNCHANGED <<state, hdr, offer, granted>>
          /\ fault' \in BOOLEAN
          /\ line' \in {line, [method |-> m, version |-> v]}
      BY <2>0, <2>1 DEF Line, TypeOK
    <3>2. \/ last' = last
          \/ last' = NoAnswer
          \/ /\ m # "SETUP"
             /\ \E code \in Codes : last' = [method |-> m, reply |-> code, offer |-> NoOffer]
      <4>1. \A r : Reply(state, r) \in Codes
        BY RepliesAreCodes
      <4>2. QED
        BY <2>1, <4>1 DEF Line, Commands
    <3>3. last' \in [method : Methods, reply : Codes, offer : Offer]
      BY <2>0, <3>2, CleanHeaders DEF TypeOK, NoAnswer, Methods, Codes
    <3>4. TypeOK'
      BY <2>0, <3>1, <3>3 DEF TypeOK
    <3>5. HeadersInv'
      BY <2>0, <3>1 DEF HeadersInv
    <3>6. SetupIsFair'
      BY <2>0, <3>2 DEF SetupIsFair, NoAnswer
    <3>7. QED
      BY <3>4, <3>5, <3>6 DEF FairInv
  <2>2. ASSUME NEW sdp \in BOOLEAN, Accept(sdp) PROVE FairInv'
    <3>1. /\ line # NoLine /\ hdr' = [hdr EXCEPT !.accept_sdp = sdp]
          /\ UNCHANGED <<state, line, offer, last, granted, fault>>
      BY <2>2 DEF Accept, Reads, NoLine
    <3>2. /\ hdr' \in Header /\ hdr'.reading = hdr.reading /\ hdr'.idx = hdr.idx
          /\ hdr'.transport = hdr.transport
      BY <2>0, <3>1 DEF TypeOK, Header
    <3>3. QED
      BY <2>0, <3>1, <3>2 DEF FairInv, TypeOK, HeadersInv, SetupIsFair
  <2>3. CASE NoNumber
    <3>1. /\ line # NoLine /\ hdr' = [hdr EXCEPT !.reading = FALSE]
          /\ offer' = [offer EXCEPT !.whole = FALSE]
          /\ UNCHANGED <<state, line, last, granted, fault>>
      BY <2>3 DEF NoNumber, Reads, NoLine
    <3>2. /\ hdr' \in Header /\ hdr'.reading = FALSE /\ hdr'.idx = hdr.idx
          /\ hdr'.transport = hdr.transport
          /\ offer' \in Offer /\ offer'.whole = FALSE /\ offer'.headers = offer.headers
      BY <2>0, <3>1 DEF TypeOK, Header, Offer
    <3>3. QED
      BY <2>0, <3>1, <3>2 DEF FairInv, TypeOK, HeadersInv, SetupIsFair
  <2>4. CASE TransportHeader
    <3>1. /\ line # NoLine /\ offer.headers < MaxHeaders
          /\ hdr' = [hdr EXCEPT !.idx = 0]
          /\ offer' = [offer EXCEPT !.headers = @ + 1]
          /\ UNCHANGED <<state, line, last, granted, fault>>
      BY <2>4 DEF TransportHeader, Reads, NoLine
    <3>2. /\ hdr' \in Header /\ hdr'.reading = hdr.reading /\ hdr'.idx = 0
          /\ hdr'.transport = hdr.transport /\ offer.headers \in Nat
          /\ offer' \in Offer /\ offer'.whole = offer.whole
          /\ offer'.headers = offer.headers + 1 /\ offer'.usable = offer.usable
      BY <2>0, <3>1 DEF TypeOK, Header, Offer
    <3>3. TypeOK' /\ SetupIsFair'
      BY <2>0, <3>1, <3>2 DEF TypeOK, SetupIsFair
    <3>4. HeadersInv'
      BY <2>0, <3>1, <3>2, CleanHeaders DEF HeadersInv
    <3>5. QED
      BY <3>3, <3>4 DEF FairInv
  <2>5. ASSUME NEW s \in Specs, TransportSpec(s) PROVE FairInv'
    <3> DEFINE i == hdr.idx + 1
               stops == \E o \in Range(s.opts) : StopsReading(o)
    <3>1. /\ hdr.reading /\ line # NoLine /\ offer.headers > 0 /\ hdr.idx < MaxTransports
          /\ hdr' = [hdr EXCEPT !.idx = i,
                                !.transport[i] = ReadSpec(@, s.udp, s.opts),
                                !.reading = ~stops]
          /\ offer' = [offer EXCEPT !.usable = @ \/ OffersUdp(s.udp, s.opts),
                                    !.whole = ~stops]
          /\ UNCHANGED <<state, line, last, granted, fault>>
      BY <2>5 DEF TransportSpec, Reads, NoLine
    <3>2. s.udp \in BOOLEAN /\ s.opts \in Seq(Options)
      OBVIOUS
    <3>3. /\ i \in Slots /\ i \in Nat /\ i > hdr.idx /\ hdr.idx \in Nat
          /\ hdr.transport[i] \in Transport /\ hdr \in Header /\ offer \in Offer
      BY <2>0, <3>1 DEF TypeOK, Header, Slots
    <3>a. /\ stops \in BOOLEAN
          /\ ~stops => \A o \in Range(s.opts) : ~StopsReading(o)
      OBVIOUS
    <3> HIDE DEF i, stops
    <3>4. PICK new \in Transport :
            /\ new = ReadSpec(hdr.transport[i], s.udp, s.opts)
            /\ hdr.transport[i] = NoTransport /\ ~stops =>
                 (Usable(new) <=> OffersUdp(s.udp, s.opts))
      BY <3>2, <3>3, <3>a, ReadSpecIs, CleanHeaders
    <3>5. /\ hdr'.transport = [hdr.transport EXCEPT ![i] = new]
          /\ hdr' \in Header /\ hdr'.idx = i /\ hdr'.reading = ~stops
      <4>1. PICK tr \in [Slots -> Transport] : tr = [hdr.transport EXCEPT ![i] = new]
        BY <3>3 DEF Header
      <4>2. hdr' = [hdr EXCEPT !.idx = i, !.transport = tr, !.reading = ~stops]
        BY <3>1, <3>3, <3>4, <4>1 DEF Header
      <4>3. i \in 0 .. MaxTransports
        BY <3>3 DEF Slots
      <4>4. QED
        BY <3>3, <3>a, <4>1, <4>2, <4>3 DEF Header
    <3>6. OffersUdp(s.udp, s.opts) \in BOOLEAN
      BY <3>2 DEF OffersUdp
    <3>7. /\ offer' \in Offer /\ offer'.headers = offer.headers /\ offer'.whole = ~stops
          /\ offer'.usable = (offer.usable \/ OffersUdp(s.udp, s.opts))
      BY <3>1, <3>3, <3>6 DEF Offer
    <3>8. offer.headers \in Nat /\ offer.headers # 0 /\ offer.whole
      BY <2>0, <3>1, <3>3 DEF HeadersInv, Offer
    <3>9. TypeOK' /\ SetupIsFair'
      BY <2>0, <3>1, <3>5, <3>7 DEF TypeOK, SetupIsFair
    <3>10. ASSUME offer.headers = 1
           PROVE  /\ hdr.transport[i] = NoTransport
                  /\ \A j \in Slots : j > i => hdr'.transport[j] = NoTransport
      <4>1. \A j \in Slots : j > hdr.idx => hdr.transport[j] = NoTransport
        BY <2>0, <3>8, <3>10 DEF HeadersInv
      <4>2. ASSUME NEW j \in Slots, j > i PROVE hdr'.transport[j] = NoTransport
        <5>1. j # i /\ j > hdr.idx
          BY <3>3, <4>2 DEF Slots
        <5>2. hdr'.transport[j] = hdr.transport[j]
          BY <3>3, <3>5, <5>1 DEF Header
        <5>3. QED
          BY <4>1, <5>1, <5>2
      <4>3. QED
        BY <3>3, <4>1, <4>2
    <3>11. ASSUME offer.headers = 1, ~stops
           PROVE  offer'.usable <=> \E j \in Slots : Usable(hdr'.transport[j])
      <4>1. offer.usable <=> \E j \in Slots : Usable(hdr.transport[j])
        BY <2>0, <3>8, <3>11 DEF HeadersInv
      <4>2. \A j \in Slots : hdr'.transport[j] = IF j = i THEN new ELSE hdr.transport[j]
        BY <3>3, <3>5 DEF Header
      <4>3. ~Usable(hdr.transport[i])
        BY <3>10, <3>11, CleanHeaders
      <4>4. Usable(new) <=> OffersUdp(s.udp, s.opts)
        BY <3>4, <3>10, <3>11
      <4>5. QED
        BY <3>3, <3>7, <4>1, <4>2, <4>3, <4>4
    <3>12. HeadersInv'
      <4>1. line' # NoLine /\ offer'.headers # 0 /\ offer'.whole = hdr'.reading
        BY <3>1, <3>5, <3>7, <3>8
      <4>2. offer'.headers <= 1 => offer.headers = 1
        BY <3>7, <3>8
      <4>3. offer'.whole => ~stops
        BY <3>7
      <4>4. QED
        BY <3>5, <3>7, <3>10, <3>11, <4>1, <4>2, <4>3 DEF HeadersInv
    <3>13. QED
      BY <3>9, <3>12 DEF FairInv
  <2>6. CASE Answer
    <3> DEFINE r == [method |-> line.method, version |-> line.version, ok |-> HeadersSatisfy]
    <3>1. /\ last' = [method |-> line.method, reply |-> Reply(state, r), offer |-> offer]
          /\ state' = NextState(state, Command(state, r))
          /\ granted' \in {granted, granted \cup {line.method}}
          /\ line.method \notin Effective => granted' = granted
          /\ line' = NoLine /\ hdr' = NoHeader /\ offer' = NoOffer /\ fault' = fault
      BY <2>6 DEF Answer
    <3>2. state' \in States
      BY <2>0, <3>1 DEF TypeOK, NextState, States
    <3>3. NoLine \in [method : Methods, version : Versions]
      BY DEF NoLine, Methods, Versions
    <3>4. last' \in [method : Methods, reply : Codes, offer : Offer]
      BY <2>0, <3>1, RepliesAreCodes DEF TypeOK
    <3>5. granted' \subseteq Effective
      BY <2>0, <3>1 DEF TypeOK
    <3>6. TypeOK'
      BY <2>0, <3>1, <3>2, <3>3, <3>4, <3>5, CleanHeaders DEF TypeOK
    <3>7. HeadersInv'
      BY <3>1, CleanHeaders DEF HeadersInv, NoOffer, NoHeader
    <3>8. SetupIsFair'
      <4> SUFFICES ASSUME line.method = "SETUP", Reply(state, r) \in {OK, UnsupportedTransport},
                          offer.headers <= 1, offer.whole
                   PROVE  (Reply(state, r) = OK) = offer.usable
        BY <3>1 DEF SetupIsFair
      <4>1. Reply(state, r) = OK <=> HeadersSatisfy
        BY SetupReplies
      <4>2. HeadersSatisfy <=> \E i \in Slots : Usable(hdr.transport[i])
        BY DEF HeadersSatisfy
      <4>3. offer.usable \in BOOLEAN
        BY <2>0 DEF TypeOK, Offer
      <4>4. QED
        BY <2>0, <4>1, <4>2, <4>3 DEF HeadersInv
    <3>9. QED
      BY <3>6, <3>7, <3>8 DEF FairInv
  <2>7. CASE UNCHANGED vars
    BY <2>0, <2>7 DEF vars, FairInv, TypeOK, HeadersInv, SetupIsFair
  <2>8. QED
    BY <2>1, <2>2, <2>3, <2>4, <2>5, <2>6, <2>7 DEF Next
<1>3. QED
  BY <1>1, <1>2, PTL DEF Spec

(* Every variable keeps its type, whatever lines and headers are sent.     *)
THEOREM TypeCorrect == Spec => []TypeOK
  BY FairInvariance, PTL DEF FairInv

(* A SETUP that is read to its end and has one Transport header, of at most*)
(* MaxTransports specs of any number of options in any order, is granted if*)
(* and only if one of the specs is unicast UDP with two ports and names no *)
(* mode or the bare word PLAY: no defaults, no leftovers of earlier        *)
(* requests and no spec before or after that one decide.                   *)
THEOREM SetupsAreFair == Spec => []SetupIsFair
<1>1. FairInv => SetupIsFair
  BY DEF FairInv
<1>2. QED
  BY <1>1, FairInvariance, PTL
=============================================================================
