-------------------------- MODULE RtspClientProofs --------------------------
(***************************************************************************)
(* What holds of rtsp_client for every size of its buffers and every       *)
(* behaviour of the camera: each session is torn down once, refused        *)
(* credentials are not offered again, a response is acted upon only if it answers the  *)
(* request that waits for it, a play is short, and the stream that follows *)
(* it reaches the demultiplexer whole.                                     *)
(***************************************************************************)
EXTENDS RtspClient, TLAPS, FiniteSetTheorems, SequenceTheorems

Pcs == {"opened", "send", "read", "body", "failed", "ready", "streaming", "closed"}

\* A SETUP succeeds once, at the third request, and it is what opens the
\* session; the last step of the viewer, and no other, tries to end it.
SessionInv ==
  /\ pc \in Pcs /\ step \in 1..4
  /\ told = IF step = 4 THEN 1 ELSE 0
  /\ ended \in 0..1 /\ unsent \in 0..1
  /\ ended + unsent = IF pc = "closed" THEN told ELSE 0
  /\ have_session \in BOOLEAN
  /\ (have_session <=> (step = 4 /\ pc # "closed"))

\* After a refusal the play is over.
RefusedInv ==
  /\ refused \in BOOLEAN /\ have_challenge \in BOOLEAN
  /\ refused => pc \in {"failed", "closed"}

IInv == SessionInv /\ RefusedInv

\* rtsp_client_open.
LEMMA InitIInv == Init => IInv
PROOF
  <1> SUFFICES ASSUME Init PROVE IInv
    OBVIOUS
  <1>1. step # 4
    BY DEF Init
  <1>2. have_session \in BOOLEAN /\ ~have_session
    BY DEF Init
  <1>3. (have_session <=> (step = 4 /\ pc # "closed"))
    BY <1>1, <1>2
  <1>4. /\ pc \in Pcs /\ step \in 1..4
        /\ told = (IF step = 4 THEN 1 ELSE 0)
        /\ ended \in 0..1 /\ unsent \in 0..1
        /\ ended + unsent = (IF pc = "closed" THEN told ELSE 0)
    BY DEF Init, Pcs
  <1>5. RefusedInv
    BY DEF Init, RefusedInv
  <1> QED
    BY <1>2, <1>3, <1>4, <1>5 DEF IInv, SessionInv

\* The client only reads, or fails.
LEMMA ReadingIInv ==
  ASSUME IInv, Connect \/ PlayFails \/ conn_fill_more \/ ReadHeader \/ ReadBody
                 \/ SendRequest \/ Rejected \/ RxBuffered \/ RxReceives
                 \/ rtsp_client_send_keepalive
  PROVE  IInv'
PROOF
  <1>1. UNCHANGED <<step, told, ended, unsent, have_session, have_challenge, refused>>
    BY DEF Connect, PlayFails, conn_fill_more, ReadHeader, ReadBody, SendRequest, Rejected,
       RxBuffered, RxReceives, rtsp_client_send_keepalive, session, auth
  <1>2. pc \notin {"closed", "failed"} /\ pc' \in Pcs \ {"closed"}
    BY DEF Connect, PlayFails, conn_fill_more, ReadHeader, ReadBody, SendRequest, Rejected,
       RxBuffered, RxReceives, rtsp_client_send_keepalive, Answered, Pcs, IInv, SessionInv
  <1> QED
    BY <1>1, <1>2 DEF IInv, SessionInv, RefusedInv

\* A 401: the refusal ends the play in the same step.
LEMMA ChallengedIInv ==
  ASSUME IInv, Challenged
  PROVE  IInv'
PROOF
  <1>1. UNCHANGED <<step, told, ended, unsent, have_session>> /\ pc = "body"
    BY DEF Challenged, session, Answered
  <1>2. pc' \in {"failed", "send"} /\ have_challenge' \in BOOLEAN
    BY DEF Challenged, IInv, RefusedInv
  <1>3. ~refused
    BY <1>1 DEF IInv, RefusedInv
  <1>4. refused' \in BOOLEAN /\ (refused' => pc' = "failed")
    BY <1>3 DEF Challenged, RefusedFor, IInv, RefusedInv
  <1> QED
    BY <1>1, <1>2, <1>4 DEF IInv, SessionInv, RefusedInv, Pcs

\* The next request, or the end of the play.
LEMMA AcceptedIInv ==
  ASSUME IInv, Accepted
  PROVE  IInv'
PROOF
  <1>1. pc = "body" /\ UNCHANGED <<have_challenge, refused, ended, unsent>>
    BY DEF Accepted, Answered
  <1>2. ~refused
    BY <1>1 DEF IInv, RefusedInv
  <1>3. RefusedInv'
    BY <1>1, <1>2 DEF IInv, RefusedInv
  <1>4. /\ pc' \in {"send", "ready"} /\ step \in 1..4 /\ step' \in 1..4
        /\ step' = 4 <=> step \in {3, 4}
        /\ told' = (IF step' = 4 THEN 1 ELSE 0)
        /\ ended' \in 0..1 /\ unsent' \in 0..1 /\ ended' + unsent' = 0
    BY <1>1 DEF Accepted, IInv, SessionInv
  <1>5. have_session \in BOOLEAN /\ (have_session <=> step = 4)
    BY <1>1 DEF IInv, SessionInv
  <1>6. have_session' = (have_session \/ step = 3)
    BY DEF Accepted
  <1>7. have_session' \in BOOLEAN /\ (have_session' <=> step' = 4)
    BY <1>4, <1>5, <1>6
  <1>8. SessionInv'
    BY <1>4, <1>7 DEF SessionInv, Pcs
  <1> QED
    BY <1>3, <1>8 DEF IInv

\* The end of a viewer, and the next one.
LEMMA CloseIInv ==
  ASSUME IInv, Close \/ Reopen
  PROVE  IInv'
PROOF
  <1>1. CASE Close
    <2>3. /\ pc \in {"ready", "streaming", "failed"} /\ pc' = "closed"
          /\ UNCHANGED <<step, told>>
      BY <1>1 DEF Close
    <2>4. have_session' \in BOOLEAN /\ ~have_session'
      BY <1>1 DEF Close, Teardown, IInv, SessionInv
    <2>5. ended' \in 0..1 /\ unsent' \in 0..1 /\ ended' + unsent' = told
      BY <1>1, <2>3 DEF Close, Teardown, IInv, SessionInv
    <2>1. SessionInv'
      BY <2>3, <2>4, <2>5 DEF IInv, SessionInv, Pcs
    <2>2. RefusedInv'
      BY <1>1 DEF Close, auth, IInv, RefusedInv
    <2> QED
      BY <2>1, <2>2 DEF IInv
  <1>2. CASE Reopen
    <2>1. have_session' \in BOOLEAN /\ ~have_session' /\ step' = 1
      BY <1>2 DEF Reopen
    <2>2. SessionInv'
      BY <1>2, <2>1 DEF Reopen, SessionInv, Pcs
    <2>3. RefusedInv'
      BY <1>2 DEF Reopen, RefusedInv
    <2> QED
      BY <2>2, <2>3 DEF IInv
  <1> QED
    BY <1>1, <1>2

\* The camera touches neither.
LEMMA CameraIInv ==
  ASSUME IInv, Answers \/ Streams \/ Babbles \/ UNCHANGED vars
  PROVE  IInv'
PROOF
  <1>1. UNCHANGED <<pc, step, auth, session>>
    BY DEF Answers, Streams, Babbles, vars
  <1> QED
    BY <1>1 DEF auth, session, IInv, SessionInv, RefusedInv

\* Every step preserves both parts.
LEMMA NextIInv == IInv /\ [Next]_vars => IInv'
  BY ReadingIInv, ChallengedIInv, AcceptedIInv, CloseIInv, CameraIInv DEF Next, Client, Play

\* Sessions and refusals, always.
LEMMA AlwaysIInv == Spec => []IInv
  BY InitIInv, NextIInv, PTL DEF Spec

\* However far the play came, one TEARDOWN is tried for the session it set
\* up, if it did, and the session is left to the camera only if that one
\* could not be sent.
THEOREM OneTeardownPerSession == Spec => []SessionsEnd
PROOF
  <1>1. IInv => SessionsEnd
    BY DEF IInv, SessionInv, SessionsEnd
  <1> QED
    BY <1>1, AlwaysIInv, PTL

-----------------------------------------------------------------------------
(* Numbers and sequences *)

\* A set of numbers has a least one: without it, adding one would map the
\* numbers below all of the set into themselves without 0, and they are finite.
LEMMA LeastNumber ==
  ASSUME NEW T, T \subseteq Nat, T # {}
  PROVE  \E x \in T : \A y \in T : x <= y
PROOF
  <1> SUFFICES ASSUME \A x \in T : \E y \in T : y < x PROVE FALSE
    OBVIOUS
  <1>1. PICK t \in T : TRUE
    OBVIOUS
  <1> DEFINE A == {n \in 0..t : \A y \in T : n < y}
             B == A \ {0}
             f == [n \in A |-> n + 1]
  <1>2. t \in Nat
    BY <1>1
  <1>3. ASSUME NEW n \in A PROVE n + 1 \in B
    <2>1. n \in Nat /\ n < t /\ \A y \in T : n + 1 <= y /\ y \in Nat
      BY <1>1
    <2>2. \A y \in T : n + 1 < y
      BY <2>1
    <2> QED
      BY <2>1, <2>2
  <1>4. 0 \in A
    BY <1>2
  <1>5. IsFiniteSet(0..t)
    BY <1>2, FS_Interval
  <1>6. IsFiniteSet(A)
    BY <1>5, FS_Subset
  <1>7. IsFiniteSet(B) /\ Cardinality(B) = Cardinality(A) - 1
    BY <1>4, <1>6, FS_RemoveElement
  <1>8. Cardinality(A) \in Nat
    BY <1>6, FS_CardinalityType
  <1>9. f \in [A -> B]
    BY <1>3
  <1> HIDE DEF A, B, f
  <1>10. PICK x \in A, y \in A : x # y /\ f[x] = f[y]
    BY <1>6, <1>7, <1>8, <1>9, FS_PigeonHole
  <1> QED
    BY <1>10 DEF A, f

\* What holds of zero, and of a successor with its number, holds of all.
LEMMA Induction ==
  ASSUME NEW S, S \subseteq Nat, 0 \in S, \A n \in S : n + 1 \in S
  PROVE  S = Nat
PROOF
  <1> SUFFICES ASSUME Nat \ S # {} PROVE FALSE
    OBVIOUS
  <1>1. PICK x \in Nat \ S : \A y \in Nat \ S : x <= y
    BY LeastNumber
  <1>2. x # 0 /\ x - 1 \in Nat
    BY <1>1
  <1>3. x - 1 \in S
    BY <1>1, <1>2
  <1>4. (x - 1) + 1 = x
    BY <1>2
  <1> QED
    BY <1>3, <1>4

\* The function that Frames chooses, up to n.
Recurs(f, s, n) ==
  \A i \in 0..n :
    f[i] = IF i = 0 THEN <<>>
           ELSE IF IsRtp(s[i]) THEN Append(f[i - 1], s[i]) ELSE f[i - 1]

\* There is such a function, by induction on n.
LEMMA RecursExists ==
  ASSUME NEW s \in Seq(Units)
  PROVE  \E f \in [0..Len(s) -> Seq(Units)] : Recurs(f, s, Len(s))
PROOF
  <1> DEFINE S == {n \in Nat : n <= Len(s) => \E f \in [0..n -> Seq(Units)] : Recurs(f, s, n)}
  <1>1. 0 \in S
    <2>1. [i \in 0..0 |-> <<>>] \in [0..0 -> Seq(Units)]
      OBVIOUS
    <2>2. Recurs([i \in 0..0 |-> <<>>], s, 0)
      BY DEF Recurs
    <2> QED
      BY <2>1, <2>2
  <1>2. ASSUME NEW n \in S PROVE n + 1 \in S
    <2> SUFFICES ASSUME n + 1 <= Len(s)
                 PROVE  \E f \in [0..n+1 -> Seq(Units)] : Recurs(f, s, n + 1)
      OBVIOUS
    <2>1. PICK g \in [0..n -> Seq(Units)] : Recurs(g, s, n)
      OBVIOUS
    <2>2. s[n + 1] \in Units /\ g[n] \in Seq(Units)
      OBVIOUS
    <2> DEFINE x == IF IsRtp(s[n + 1]) THEN Append(g[n], s[n + 1]) ELSE g[n]
               f == [i \in 0..n+1 |-> IF i = n + 1 THEN x ELSE g[i]]
    <2>3. x \in Seq(Units)
      BY <2>2, AppendProperties
    <2> HIDE DEF x
    <2>4. f \in [0..n+1 -> Seq(Units)]
      BY <2>3
    <2>5. \A i \in 0..n : f[i] = g[i]
      OBVIOUS
    <2>6. f[n + 1] = x
      OBVIOUS
    <2>7. ASSUME NEW i \in 0..n+1
          PROVE  f[i] = IF i = 0 THEN <<>>
                        ELSE IF IsRtp(s[i]) THEN Append(f[i - 1], s[i]) ELSE f[i - 1]
      <3> HIDE DEF f
      <3>1. CASE i = n + 1
        <4>1. n \in 0..n /\ i - 1 = n
          BY <3>1
        <4> QED
          BY <2>5, <2>6, <3>1, <4>1 DEF x
      <3>2. CASE i = 0
        BY <2>1, <2>5, <3>2 DEF Recurs
      <3>3. CASE i \in 1..n
        <4>1. i \in 0..n /\ i - 1 \in 0..n
          BY <3>3
        <4> QED
          BY <2>1, <2>5, <3>3, <4>1 DEF Recurs
      <3> QED
        BY <3>1, <3>2, <3>3
    <2> QED
      BY <2>4, <2>7 DEF Recurs
  <1>3. S = Nat
    <2> HIDE DEF S
    <2>1. S \subseteq Nat
      BY DEF S
    <2> QED
      BY <1>1, <1>2, <2>1, Induction
  <1> QED
    BY <1>3, LenProperties

\* It is determined by what the sequence has up to n.
LEMMA RecursUnique ==
  ASSUME NEW f, NEW g, NEW s, NEW t, NEW n \in Nat, Recurs(f, s, n), Recurs(g, t, n),
         \A i \in 1..n : s[i] = t[i]
  PROVE  \A i \in 0..n : f[i] = g[i]
PROOF
  <1> DEFINE S == {i \in Nat : i <= n => f[i] = g[i]}
  <1>1. 0 \in S
    BY DEF Recurs
  <1>2. ASSUME NEW i \in S PROVE i + 1 \in S
    <2> SUFFICES ASSUME i + 1 <= n PROVE f[i + 1] = g[i + 1]
      OBVIOUS
    <2>1. i + 1 \in 0..n /\ i + 1 \in 1..n /\ (i + 1) - 1 = i /\ f[i] = g[i] /\ i + 1 # 0
      OBVIOUS
    <2> QED
      BY <2>1 DEF Recurs
  <1>3. S = Nat
    <2> HIDE DEF S
    <2>1. S \subseteq Nat
      BY DEF S
    <2> QED
      BY <1>1, <1>2, <2>1, Induction
  <1> QED
    BY <1>3

\* Frames is its last value.
LEMMA FramesFunction ==
  ASSUME NEW s \in Seq(Units)
  PROVE  \E f \in [0..Len(s) -> Seq(Units)] : Recurs(f, s, Len(s)) /\ Frames(s) = f[Len(s)]
PROOF
  <1> DEFINE Def(f) ==
        f = [i \in 0..Len(s) |->
               IF i = 0 THEN <<>>
               ELSE IF IsRtp(s[i]) THEN Append(f[i - 1], s[i]) ELSE f[i - 1]]
             upto == CHOOSE f : Def(f)
  <1>1. PICK f \in [0..Len(s) -> Seq(Units)] : Recurs(f, s, Len(s))
    BY RecursExists
  <1>2. Def(f)
    BY <1>1 DEF Recurs
  <1>3. Def(upto)
    BY <1>2
  <1>4. Frames(s) = upto[Len(s)]
    BY DEF Frames
  <1> HIDE DEF upto
  <1>5. Recurs(upto, s, Len(s))
    BY <1>3 DEF Recurs
  <1>6. Len(s) \in Nat
    OBVIOUS
  <1>7. \A i \in 0..Len(s) : upto[i] = f[i]
    BY <1>1, <1>5, <1>6, RecursUnique
  <1> QED
    BY <1>1, <1>4, <1>6, <1>7

\* Concatenation and Append, to reason about as a whole: the provers take the
\* built-in operators apart.
Cat(s, t) == s \o t
AddUnit(s, u) == Append(s, u)

\* What is joined is a sequence, and it does not matter where it is joined.
LEMMA CatFacts ==
  ASSUME NEW S, NEW p \in Seq(S), NEW q \in Seq(S), NEW r \in Seq(S), NEW u \in S
  PROVE  /\ Cat(p, q) \in Seq(S) /\ AddUnit(p, u) \in Seq(S)
         /\ Cat(Cat(p, q), r) = Cat(p, Cat(q, r))
         /\ AddUnit(Cat(p, q), u) = Cat(p, AddUnit(q, u))
PROOF
  <1>1. (p \o q) \o r = p \o (q \o r)
    BY ConcatAssociative
  <1>2. Append(p \o q, u) = p \o Append(q, u)
    <2> DEFINE a == Append(p \o q, u)
               b == p \o Append(q, u)
    <2>1. a \in Seq(S) /\ b \in Seq(S) /\ Len(a) = Len(b)
      OBVIOUS
    <2>2. ASSUME NEW i \in 1..Len(a) PROVE a[i] = b[i]
      OBVIOUS
    <2> HIDE DEF a, b
    <2>3. a = b
      BY <2>1, <2>2, SeqEqual
    <2> QED
      BY <2>3 DEF a, b
  <1>3. p \o q \in Seq(S) /\ Append(p, u) \in Seq(S)
    OBVIOUS
  <1> QED
    BY <1>1, <1>2, <1>3, Zenon DEF Cat, AddUnit

\* The empty sequence adds nothing.
LEMMA CatEmpty ==
  ASSUME NEW S, NEW p \in Seq(S)
  PROVE  Cat(p, <<>>) = p /\ Cat(<<>>, p) = p
  BY ConcatEmptySeq DEF Cat

\* A sequence cut in two.
LEMMA CutFacts ==
  ASSUME NEW X, NEW s \in Seq(X), NEW k \in 0..Len(s)
  PROVE  LET a == SubSeq(s, 1, k)
             b == SubSeq(s, k + 1, Len(s))
         IN /\ a \in Seq(X) /\ Len(a) = k /\ \A i \in 1..k : a[i] = s[i]
            /\ b \in Seq(X) /\ Len(b) = Len(s) - k
            /\ \A i \in 1..Len(s)-k : b[i] = s[k + i]
            /\ Cat(a, b) = s
PROOF
  <1> DEFINE a == SubSeq(s, 1, k)
             b == SubSeq(s, k + 1, Len(s))
  <1>1. Len(s) \in Nat /\ \A i \in 1..Len(s) : s[i] \in X
    OBVIOUS
  <1>2. /\ a \in Seq(X) /\ Len(a) = k /\ \A i \in 1..k : a[i] = s[i]
        /\ b \in Seq(X) /\ Len(b) = Len(s) - k
        /\ \A i \in 1..Len(s)-k : b[i] = s[k + i]
    BY <1>1, SubSeqProperties
  <1>3. a \o b = SubSeq(s, 1, Len(s))
    <2>1. 1 \in 1..Len(s)+1 /\ k \in 1-1..Len(s) /\ Len(s) \in k..Len(s)
      BY <1>1
    <2> QED
      BY <2>1, ConcatAdjacentSubSeq, Zenon
  <1> QED
    BY <1>2, <1>3, SubSeqFull DEF Cat

\* Nothing comes of nothing.
LEMMA FramesEmpty == Frames(<<>>) = <<>>
PROOF
  <1>1. <<>> \in Seq(Units) /\ Len(<<>>) = 0
    OBVIOUS
  <1>2. PICK f \in [0..0 -> Seq(Units)] : Recurs(f, <<>>, 0) /\ Frames(<<>>) = f[0]
    BY <1>1, FramesFunction
  <1> QED
    BY <1>2 DEF Recurs

\* The frames of a stream are units.
LEMMA FramesType ==
  ASSUME NEW s \in Seq(Units)
  PROVE  Frames(s) \in Seq(Units)
PROOF
  <1>1. Len(s) \in 0..Len(s)
    OBVIOUS
  <1> QED
    BY <1>1, FramesFunction

\* One unit more is one frame more, or none.
LEMMA FramesAdd ==
  ASSUME NEW s \in Seq(Units), NEW u \in Units
  PROVE  Frames(AddUnit(s, u)) = IF IsRtp(u) THEN AddUnit(Frames(s), u) ELSE Frames(s)
PROOF
  <1> DEFINE t == Append(s, u)
             n == Len(s)
  <1>1. /\ t \in Seq(Units) /\ Len(t) = n + 1 /\ n \in Nat
        /\ \A i \in 1..n : t[i] = s[i]
        /\ t[n + 1] = u
    BY AppendProperties, LenProperties
  <1> HIDE DEF t
  <1>2. PICK f : Recurs(f, s, n) /\ Frames(s) = f[n]
    BY FramesFunction
  <1>3. PICK g : Recurs(g, t, n + 1) /\ Frames(t) = g[n + 1]
    BY <1>1, FramesFunction
  <1> HIDE DEF n
  <1>4. Recurs(g, t, n)
    BY <1>1, <1>3 DEF Recurs
  <1>5. g[n] = f[n]
    BY <1>1, <1>2, <1>4, RecursUnique
  <1>6. n + 1 \in 0..n+1 /\ (n + 1) - 1 = n /\ n + 1 # 0
    BY <1>1
  <1>7. g[n + 1] = IF IsRtp(u) THEN Append(g[n], u) ELSE g[n]
    BY <1>1, <1>3, <1>6 DEF Recurs
  <1>8. Frames(t) = IF IsRtp(u) THEN Append(Frames(s), u) ELSE Frames(s)
    BY <1>2, <1>3, <1>5, <1>7
  <1> QED
    BY <1>8 DEF t, AddUnit

\* The pieces of one part of the stream come before those of the next.
LEMMA FramesCat ==
  ASSUME NEW s \in Seq(Units), NEW t \in Seq(Units)
  PROVE  Frames(Cat(s, t)) = Cat(Frames(s), Frames(t))
PROOF
  <1> DEFINE P(v) == Frames(Cat(s, v)) = Cat(Frames(s), Frames(v))
             S == {n \in Nat : \A v \in Seq(Units) : Len(v) = n => P(v)}
  <1>1. 0 \in S
    <2> SUFFICES ASSUME NEW v \in Seq(Units), Len(v) = 0 PROVE P(v)
      OBVIOUS
    <2>1. v = <<>>
      OBVIOUS
    <2>2. Cat(s, <<>>) = s /\ Cat(Frames(s), <<>>) = Frames(s)
      BY FramesType, CatEmpty
    <2> QED
      BY <2>1, <2>2, FramesEmpty
  <1>2. ASSUME NEW n \in S PROVE n + 1 \in S
    <2> SUFFICES ASSUME NEW v \in Seq(Units), Len(v) = n + 1 PROVE P(v)
      OBVIOUS
    <2>1. PICK w \in Seq(Units), u \in Units : v = Append(w, u)
      <3>1. v # <<>>
        OBVIOUS
      <3> QED
        BY <3>1, SequenceEmptyOrAppend
    <2>2. Len(w) = n
      BY <2>1, AppendProperties
    <2>3. P(w)
      BY <2>2
    <2>4. v = AddUnit(w, u)
      BY <2>1 DEF AddUnit
    <2> HIDE DEF S
    <2>5. Frames(s) \in Seq(Units) /\ Frames(w) \in Seq(Units)
      BY FramesType
    <2>6. Cat(s, w) \in Seq(Units) /\ Cat(s, v) = AddUnit(Cat(s, w), u)
      BY <2>4, CatFacts
    <2>7. AddUnit(Cat(Frames(s), Frames(w)), u) = Cat(Frames(s), AddUnit(Frames(w), u))
      BY <2>5, CatFacts
    <2>8. Frames(AddUnit(Cat(s, w), u)) =
            IF IsRtp(u) THEN AddUnit(Frames(Cat(s, w)), u) ELSE Frames(Cat(s, w))
      BY <2>6, FramesAdd
    <2>9. Frames(v) = IF IsRtp(u) THEN AddUnit(Frames(w), u) ELSE Frames(w)
      BY <2>4, FramesAdd
    <2> QED
      BY <2>3, <2>6, <2>7, <2>8, <2>9
  <1>3. S = Nat
    <2> HIDE DEF S
    <2>1. S \subseteq Nat
      BY DEF S
    <2> QED
      BY <1>1, <1>2, <2>1, Induction
  <1> QED
    BY <1>3, LenProperties

\* Units that are no piece of a frame.
Mute == {u \in Units : ~IsRtp(u)}

\* Without a piece of a frame the demultiplexer makes nothing of it.
LEMMA FramesNone ==
  ASSUME NEW s \in Seq(Mute)
  PROVE  Frames(s) = <<>>
PROOF
  <1> DEFINE n == Len(s)
  <1>1. PICK f : Recurs(f, s, n) /\ Frames(s) = f[n]
    <2>1. s \in Seq(Units)
      BY DEF Mute
    <2> QED
      BY <2>1, FramesFunction
  <1>2. n \in Nat
    OBVIOUS
  <1> DEFINE S == {i \in Nat : i <= n => f[i] = <<>>}
  <1>3. 0 \in S
    BY <1>1, <1>2 DEF Recurs
  <1>4. ASSUME NEW i \in S PROVE i + 1 \in S
    <2> SUFFICES ASSUME i + 1 <= n PROVE f[i + 1] = <<>>
      OBVIOUS
    <2>1. i + 1 \in 0..n /\ i + 1 \in 1..n /\ (i + 1) - 1 = i /\ f[i] = <<>> /\ i + 1 # 0
      OBVIOUS
    <2> QED
      BY <1>1, <2>1 DEF Recurs, Mute
  <1>5. S = Nat
    <2> HIDE DEF S
    <2>1. S \subseteq Nat
      BY DEF S
    <2> QED
      BY <1>3, <1>4, <2>1, Induction
  <1> QED
    BY <1>1, <1>2, <1>5

-----------------------------------------------------------------------------
(* Types *)

\* FirstHeader is where the first header is.
LEMMA FirstHeaderFound ==
  ASSUME HeaderEnds, buf \in Seq(Units)
  PROVE  /\ FirstHeader \in 1..Len(buf) /\ IsHeader(buf[FirstHeader])
         /\ \A j \in 1..Len(buf) : IsHeader(buf[j]) => FirstHeader <= j
PROOF
  <1> DEFINE I == {i \in 1..Len(buf) : IsHeader(buf[i])}
  <1>1. I # {} /\ I \subseteq Nat
    BY DEF HeaderEnds
  <1>2. FirstHeader = Min(I)
    BY <1>1 DEF FirstHeader, SelectInSeq
  <1>3. \A j : j \in I <=> (j \in 1..Len(buf) /\ IsHeader(buf[j]))
    OBVIOUS
  <1> HIDE DEF I
  <1>4. \E i \in I : \A j \in I : i <= j
    BY <1>1, LeastNumber
  <1>5. Min(I) \in I /\ \A j \in I : Min(I) <= j
    BY <1>4 DEF Min
  <1> QED
    BY <1>2, <1>3, <1>5, Zenon

\* A unit with a header's tag is a header.
LEMMA HeaderType ==
  ASSUME NEW u \in Units, IsHeader(u)
  PROVE  u \in Headers
  BY DEF Units, IsHeader, Body, Junk

\* The header that is read, at i, and the units that go with it, up to k.
Reads(i, k) ==
  /\ i \in 1..Len(buf) /\ k \in i..Len(buf)
  /\ IsHeader(buf[i]) /\ buf[i] \in Headers
  /\ \A j \in 1..Len(buf) : IsHeader(buf[j]) => i <= j
  /\ buf' = SubSeq(buf, k + 1, Len(buf))
  /\ resp' \in Headers /\ resp'.to = buf[i].to /\ resp'.code \in {buf[i].code, "other"}
  /\ need' \in 0..BodyCap /\ pc' \in {"body", "failed"}
  /\ pc' = "body" => /\ buf[i].cseq = cseq
                     /\ buf[i].body = 0 => k = i /\ need' = 0

\* read_response reads one header, with what is there of its body.
LEMMA ReadHeaderReads ==
  ASSUME buf \in Seq(Units), need \in 0..BodyCap, ReadHeader
  PROVE  \E i, k : Reads(i, k)
PROOF
  <1> DEFINE i == FirstHeader
             u == buf[i]
             here == AtMost(u.body, Len(buf) - i)
  <1>1. HeaderEnds
    BY DEF ReadHeader
  <1>2. /\ i \in 1..Len(buf) /\ IsHeader(u)
        /\ \A j \in 1..Len(buf) : IsHeader(buf[j]) => i <= j
    BY <1>1, FirstHeaderFound
  <1>3. u \in Headers
    BY <1>2, HeaderType
  <1>4. /\ resp' = [u EXCEPT !.code = IF i = 1 THEN @ ELSE "other"]
        /\ IF u.cseq = cseq /\ u.body <= BodyCap
             THEN /\ pc' = "body"
                  /\ need' = u.body - here
                  /\ buf' = SubSeq(buf, i + here + 1, Len(buf))
             ELSE /\ pc' = "failed"
                  /\ buf' = SubSeq(buf, i + 1, Len(buf))
                  /\ UNCHANGED need
    BY DEF ReadHeader
  <1>5. /\ here \in 0..Len(buf)-i /\ here <= u.body /\ u.body \in Nat
        /\ u.body = 0 => here = 0
    BY <1>2, <1>3 DEF AtMost, Headers
  <1> HIDE DEF i, u, here
  <1>6. resp' \in Headers /\ resp'.to = u.to /\ resp'.code \in {u.code, "other"}
    BY <1>3, <1>4 DEF Headers
  <1>7. CASE u.cseq = cseq /\ u.body <= BodyCap
    <2>1. need' \in 0..BodyCap /\ (u.body = 0 => need' = 0 /\ i + here = i)
      <3>1. need' = u.body - here /\ u.body <= BodyCap
        BY <1>4, <1>7
      <3>2. here \in Nat /\ i \in Nat /\ BodyCap \in Nat
        BY <1>2, <1>5, RtspAssumption
      <3> QED
        BY <1>5, <3>1, <3>2
    <2>2. i + here \in i..Len(buf)
      BY <1>2, <1>5
    <2>3. Reads(i, i + here)
      BY <1>2, <1>3, <1>4, <1>6, <1>7, <2>1, <2>2 DEF Reads, u
    <2> QED
      BY <2>3
  <1>8. CASE ~(u.cseq = cseq /\ u.body <= BodyCap)
    <2>1. Reads(i, i)
      BY <1>2, <1>3, <1>4, <1>6, <1>8 DEF Reads, u
    <2> QED
      BY <2>1
  <1> QED
    BY <1>7, <1>8

\* The types, by what the steps share.
BufferTypes ==
  /\ buf \in Seq(Units) /\ Len(buf) <= BufCap /\ wire \in Seq(Units)
  /\ need \in 0..BodyCap /\ resp \in Headers
StreamTypes == fed \in Seq(Units) /\ playing \in BOOLEAN /\ rtp \in Nat
RequestTypes ==
  /\ cseq \in Nat /\ serial \in Nat /\ asked \in Requests
  /\ attempt \in 0..2 /\ (Playing => attempt <= 1)

Types == IInv /\ BufferTypes /\ StreamTypes /\ RequestTypes

\* Between responses there is none.
LEMMA NoResponseType == NoResponse \in Headers
  BY DEF NoResponse, Header, Headers

\* The kinds of units.
LEMMA UnitTypes ==
  /\ Body \in Units /\ Junk \in Units /\ Headers \subseteq Units
  /\ \A n \in Nat : Rtp(n) \in Units /\ IsRtp(Rtp(n)) /\ ~IsHeader(Rtp(n))
  /\ ~IsRtp(Body) /\ ~IsHeader(Body) /\ ~IsRtp(Junk) /\ ~IsHeader(Junk)
  /\ \A u \in Headers : ~IsRtp(u) /\ IsHeader(u)
  BY DEF Units, Body, Junk, Rtp, IsRtp, IsHeader, Headers

\* What the camera answers: a header, and what it sends of a body.
LEMMA AnswerUnits ==
  ASSUME RequestTypes, NEW h \in Replies(asked)
  PROVE  LET sent == <<h>> \o [i \in 1..AtMost(h.body, BodyCap) |-> Body]
         IN /\ h \in Headers /\ h.to = asked.serial /\ h.cseq \in {0, asked.cseq}
            /\ h.body \in Bodies(asked.method)
            /\ sent \in Seq(Units) /\ Len(sent) >= 1 /\ sent[1] = h
            /\ \A i \in 2..Len(sent) : sent[i] = Body
PROOF
  <1> DEFINE bodies == [i \in 1..AtMost(h.body, BodyCap) |-> Body]
  <1>1. BodyCap \in Nat /\ asked.serial \in Nat /\ asked.cseq \in Nat
    BY RtspAssumption DEF RequestTypes, Requests
  <1>2. \A b \in Bodies(asked.method) : b \in Nat
    BY <1>1 DEF Bodies
  <1>3. /\ h \in Headers /\ h.to = asked.serial /\ h.cseq \in {0, asked.cseq}
        /\ h.body \in Bodies(asked.method)
    <2>1. 0 \in Bodies(asked.method)
      BY <1>1 DEF Bodies
    <2>2. \A b \in Sessions(asked.method) : b \in BOOLEAN
      BY DEF Sessions
    <2>3. \/ \E s \in Sessions(asked.method), b \in Bodies(asked.method) :
               h = Header(asked.serial, asked.cseq, "ok", "none", s, b)
          \/ \E c \in {"none", "fresh", "stale"} :
               h = Header(asked.serial, asked.cseq, "401", c, FALSE, 0)
          \/ \E n \in {0, asked.cseq} : h = Header(asked.serial, n, "other", "none", FALSE, 0)
      BY SMT DEF Replies, Header
    <2>4. ASSUME NEW s \in Sessions(asked.method), NEW b \in Bodies(asked.method),
                 h = Header(asked.serial, asked.cseq, "ok", "none", s, b)
          PROVE  /\ h \in Headers /\ h.to = asked.serial /\ h.cseq \in {0, asked.cseq}
                 /\ h.body \in Bodies(asked.method)
      BY <1>1, <1>2, <2>2, <2>4 DEF Header, Headers
    <2>5. ASSUME NEW c \in {"none", "fresh", "stale"},
                 h = Header(asked.serial, asked.cseq, "401", c, FALSE, 0)
          PROVE  /\ h \in Headers /\ h.to = asked.serial /\ h.cseq \in {0, asked.cseq}
                 /\ h.body \in Bodies(asked.method)
      BY <1>1, <2>1, <2>5 DEF Header, Headers
    <2>6. ASSUME NEW n \in {0, asked.cseq},
                 h = Header(asked.serial, n, "other", "none", FALSE, 0)
          PROVE  /\ h \in Headers /\ h.to = asked.serial /\ h.cseq \in {0, asked.cseq}
                 /\ h.body \in Bodies(asked.method)
      <3>1. n \in Nat
        BY <1>1
      <3> QED
        BY <1>1, <2>1, <2>6, <3>1 DEF Header, Headers
    <2> QED
      BY <2>3, <2>4, <2>5, <2>6
  <1>4. AtMost(h.body, BodyCap) \in Nat
    BY <1>1, <1>3 DEF AtMost, Headers
  <1>5. h \in Units /\ Body \in Units
    BY <1>3, UnitTypes
  <1> HIDE DEF bodies
  <1>6. bodies \in Seq(Units) /\ \A i \in 1..Len(bodies) : bodies[i] = Body
    BY <1>4, <1>5 DEF bodies
  <1>7. <<h>> \in Seq(Units) /\ Len(<<h>>) = 1 /\ <<h>>[1] = h
    BY <1>5
  <1> DEFINE head == <<h>>
  <1> HIDE DEF head
  <1>8. /\ head \o bodies \in Seq(Units)
        /\ Len(head \o bodies) = 1 + Len(bodies) /\ Len(bodies) \in Nat
        /\ \A i \in 1..1+Len(bodies) : (head \o bodies)[i] = IF i <= 1 THEN head[1] ELSE bodies[i - 1]
    BY <1>6, <1>7, ConcatProperties DEF head
  <1>9. head[1] = h
    BY DEF head
  <1>10. \A i \in 2..Len(head \o bodies) : (head \o bodies)[i] = Body
    <2> SUFFICES ASSUME NEW i \in 2..1+Len(bodies) PROVE (head \o bodies)[i] = Body
      BY <1>8
    <2>1. i \in 1..1+Len(bodies) /\ ~(i <= 1) /\ i - 1 \in 1..Len(bodies)
      BY <1>8
    <2> QED
      BY <1>6, <1>8, <2>1
  <1>11. (head \o bodies)[1] = h /\ Len(head \o bodies) >= 1
    BY <1>8, <1>9
  <1> QED
    BY <1>3, <1>8, <1>10, <1>11 DEF head, bodies

\* The steps that leave the buffers alone.
LEMMA BufferTypesKept ==
  ASSUME BufferTypes, UNCHANGED <<buf, wire, need>>, resp' \in {resp, NoResponse}
  PROVE  BufferTypes'
  BY NoResponseType DEF BufferTypes

\* What is read from the wire, and what is left of it.
LEMMA WireCut ==
  ASSUME BufferTypes, NEW k \in 1..Len(wire)
  PROVE  /\ SubSeq(wire, 1, k) \in Seq(Units) /\ SubSeq(wire, k + 1, Len(wire)) \in Seq(Units)
         /\ Len(SubSeq(wire, 1, k)) = k
PROOF
  <1>1. PICK w \in Seq(Units) : w = wire
    BY DEF BufferTypes
  <1>2. k \in 0..Len(w)
    BY <1>1
  <1> QED
    BY <1>1, <1>2, CutFacts

\* What is left of the buffer.
LEMMA BufCut ==
  ASSUME BufferTypes, NEW k \in 0..Len(buf)
  PROVE  /\ SubSeq(buf, 1, k) \in Seq(Units) /\ SubSeq(buf, k + 1, Len(buf)) \in Seq(Units)
         /\ Len(SubSeq(buf, k + 1, Len(buf))) = Len(buf) - k
         /\ Len(SubSeq(buf, k + 1, Len(buf))) <= BufCap
PROOF
  <1>1. PICK w \in Seq(Units) : w = buf
    BY DEF BufferTypes
  <1>2. k \in 0..Len(w) /\ Len(w) <= BufCap /\ Len(w) \in Nat /\ BufCap \in Nat
    BY <1>1, RtspAssumption DEF BufferTypes
  <1>3. /\ SubSeq(w, 1, k) \in Seq(Units) /\ SubSeq(w, k + 1, Len(w)) \in Seq(Units)
        /\ Len(SubSeq(w, k + 1, Len(w))) = Len(w) - k
    BY <1>2, CutFacts
  <1>4. Len(w) - k <= BufCap
    BY <1>2
  <1> QED
    BY <1>1, <1>3, <1>4

\* conn_fill_more keeps within the buffer.
LEMMA FillBufferTypes ==
  ASSUME BufferTypes, conn_fill_more
  PROVE  BufferTypes'
PROOF
  <1>1. CASE UNCHANGED reading
    BY <1>1 DEF conn_fill_more, reading, BufferTypes
  <1>2. CASE ~UNCHANGED reading
    <2>1. PICK k \in 1..Len(wire) :
            /\ Len(buf) + k <= BufCap
            /\ buf' = buf \o SubSeq(wire, 1, k)
            /\ wire' = SubSeq(wire, k + 1, Len(wire))
      BY <1>2 DEF conn_fill_more
    <2>2. PICK p \in Seq(Units) : p = buf
      BY DEF BufferTypes
    <2>3. PICK q \in Seq(Units) : q = SubSeq(wire, 1, k) /\ Len(q) = k
      BY WireCut
    <2>4. p \o q \in Seq(Units) /\ Len(p \o q) = Len(p) + Len(q)
      BY ConcatProperties
    <2>5. buf' \in Seq(Units) /\ Len(buf') <= BufCap
      BY <2>1, <2>2, <2>3, <2>4
    <2>6. wire' \in Seq(Units) /\ need' = need /\ resp' = resp
      BY <1>2, <2>1, WireCut DEF conn_fill_more
    <2> QED
      BY <2>5, <2>6 DEF BufferTypes
  <1> QED
    BY <1>1, <1>2

\* read_response keeps the types of the buffers.
LEMMA ReadBufferTypes ==
  ASSUME BufferTypes, ReadHeader
  PROVE  BufferTypes'
PROOF
  <1>1. PICK i, k : Reads(i, k)
    BY ReadHeaderReads DEF BufferTypes
  <1>2. k \in 0..Len(buf)
    BY <1>1 DEF Reads
  <1>3. buf' \in Seq(Units) /\ Len(buf') <= BufCap
    BY <1>1, <1>2, BufCut DEF Reads
  <1> QED
    BY <1>1, <1>3 DEF Reads, ReadHeader, BufferTypes

\* The rest of a body is not kept in the buffer.
LEMMA BodyBufferTypes ==
  ASSUME BufferTypes, ReadBody
  PROVE  BufferTypes'
PROOF
  <1>1. PICK k \in 1..AtMost(need, Len(wire)) :
          need' = need - k /\ wire' = SubSeq(wire, k + 1, Len(wire))
    BY DEF ReadBody
  <1>2. need \in 0..BodyCap /\ BodyCap \in Nat /\ Len(wire) \in Nat
    BY RtspAssumption DEF BufferTypes
  <1>3. k \in 1..Len(wire) /\ need' \in 0..BodyCap
    BY <1>1, <1>2 DEF AtMost
  <1>4. wire' \in Seq(Units)
    BY <1>1, <1>3, WireCut
  <1> QED
    BY <1>3, <1>4 DEF ReadBody, BufferTypes

\* Nor is what the receive task hands on.
LEMMA RxBufferTypes ==
  ASSUME BufferTypes, RxBuffered \/ RxReceives
  PROVE  BufferTypes'
PROOF
  <1>1. CASE RxBuffered
    <2>1. AtMost(Len(buf), TakeCap) \in 0..Len(buf)
      BY RtspAssumption DEF AtMost, BufferTypes
    <2>2. buf' = SubSeq(buf, AtMost(Len(buf), TakeCap) + 1, Len(buf))
      BY <1>1 DEF RxBuffered
    <2>3. buf' \in Seq(Units) /\ Len(buf') <= BufCap
      BY <2>1, <2>2, BufCut
    <2> QED
      BY <1>1, <2>3 DEF RxBuffered, BufferTypes
  <1>2. CASE RxReceives
    <2>1. wire' \in Seq(Units)
      BY <1>2, WireCut DEF RxReceives
    <2> QED
      BY <1>2, <2>1 DEF RxReceives, BufferTypes
  <1> QED
    BY <1>1, <1>2

\* The camera adds to the wire.
LEMMA CameraBufferTypes ==
  ASSUME BufferTypes, RequestTypes, rtp \in Nat, Answers \/ Streams \/ Babbles
  PROVE  BufferTypes'
PROOF
  <1>1. PICK w \in Seq(Units) : w = wire
    BY DEF BufferTypes
  <1>2. UNCHANGED <<buf, need, resp>>
    BY DEF Answers, Streams, Babbles
  <1>3. CASE Answers
    <2>1. PICK h \in Replies(asked) :
            wire' = wire \o (<<h>> \o [i \in 1..AtMost(h.body, BodyCap) |-> Body])
      BY <1>3 DEF Answers
    <2>2. PICK q \in Seq(Units) : q = <<h>> \o [i \in 1..AtMost(h.body, BodyCap) |-> Body]
      BY AnswerUnits
    <2>3. w \o q \in Seq(Units)
      OBVIOUS
    <2> QED
      BY <1>1, <1>2, <2>1, <2>2, <2>3 DEF BufferTypes
  <1>4. CASE Streams \/ Babbles
    <2>1. PICK u \in Units : wire' = Append(wire, u)
      BY <1>4, UnitTypes DEF Streams, Babbles
    <2>2. Append(w, u) \in Seq(Units)
      OBVIOUS
    <2> QED
      BY <1>1, <1>2, <2>1, <2>2 DEF BufferTypes
  <1> QED
    BY <1>3, <1>4

\* Every step keeps the types of the buffers.
LEMMA NextBufferTypes ==
  ASSUME Types, [Next]_vars
  PROVE  BufferTypes'
PROOF
  <1> USE DEF Types
  <1>1. CASE conn_fill_more \/ ReadHeader \/ ReadBody \/ RxBuffered \/ RxReceives
    BY <1>1, FillBufferTypes, ReadBufferTypes, BodyBufferTypes, RxBufferTypes
  <1>2. CASE Answers \/ Streams \/ Babbles
    BY <1>2, CameraBufferTypes DEF StreamTypes
  <1>3. CASE Connect \/ SendRequest \/ PlayFails \/ rtsp_client_send_keepalive \/ UNCHANGED vars
               \/ Challenged \/ Accepted \/ Rejected
    <2>1. UNCHANGED <<buf, wire, need>> /\ resp' \in {resp, NoResponse}
      BY <1>3 DEF Connect, SendRequest, PlayFails, rtsp_client_send_keepalive, vars, Challenged,
         Accepted, Rejected, reading
    <2> QED
      BY <2>1, BufferTypesKept
  <1>4. CASE Close
    <2>1. buf' = <<>> /\ wire' = <<>> /\ need' = need /\ resp' = resp
      BY <1>4 DEF Close
    <2> QED
      BY <2>1, RtspAssumption DEF BufferTypes
  <1>5. CASE Reopen
    BY <1>5, NoResponseType, RtspAssumption DEF Reopen, BufferTypes
  <1> QED
    BY <1>1, <1>2, <1>3, <1>4, <1>5 DEF Next, Client, Play

\* Every step keeps the types of the stream.
LEMMA NextStreamTypes ==
  ASSUME Types, [Next]_vars
  PROVE  StreamTypes'
PROOF
  <1> USE DEF Types
  <1>1. CASE RxBuffered
    <2>1. AtMost(Len(buf), TakeCap) \in 0..Len(buf)
      BY RtspAssumption DEF AtMost, BufferTypes
    <2>2. PICK p \in Seq(Units) : p = fed
      BY DEF StreamTypes
    <2>3. PICK q \in Seq(Units) : q = Frames(SubSeq(buf, 1, AtMost(Len(buf), TakeCap)))
      BY <2>1, BufCut, FramesType
    <2>4. p \o q \in Seq(Units)
      OBVIOUS
    <2> QED
      BY <1>1, <2>2, <2>3, <2>4 DEF RxBuffered, StreamTypes
  <1>2. CASE RxReceives
    <2>1. PICK k \in 1..Len(wire) : fed' = fed \o Frames(SubSeq(wire, 1, k))
      BY <1>2 DEF RxReceives
    <2>2. PICK p \in Seq(Units) : p = fed
      BY DEF StreamTypes
    <2>3. PICK q \in Seq(Units) : q = Frames(SubSeq(wire, 1, k))
      BY WireCut, FramesType
    <2>4. p \o q \in Seq(Units)
      OBVIOUS
    <2> QED
      BY <1>2, <2>1, <2>2, <2>3, <2>4 DEF RxReceives, StreamTypes
  <1>3. CASE Answers \/ Streams
    <2>1. fed' = fed /\ rtp' \in {rtp, rtp + 1}
      BY <1>3 DEF Answers, Streams
    <2>2. playing' \in BOOLEAN
      BY <1>3 DEF Answers, Streams, StreamTypes
    <2> QED
      BY <2>1, <2>2 DEF StreamTypes
  <1>4. CASE Reopen
    <2>1. fed' = <<>> /\ rtp' = 0 /\ playing' = FALSE
      BY <1>4 DEF Reopen
    <2>2. playing' \in BOOLEAN
      BY <2>1
    <2> QED
      BY <2>1, <2>2 DEF StreamTypes
  <1>5. CASE conn_fill_more \/ ReadHeader \/ ReadBody \/ Connect \/ SendRequest \/ PlayFails
               \/ rtsp_client_send_keepalive \/ UNCHANGED vars \/ Challenged \/ Accepted
               \/ Rejected \/ Close \/ Babbles
    <2>1. UNCHANGED streaming
      BY <1>5 DEF conn_fill_more, ReadHeader, ReadBody, Connect, SendRequest, PlayFails,
         rtsp_client_send_keepalive, vars, Challenged, Accepted, Rejected, Close, Babbles
    <2> QED
      BY <2>1 DEF streaming, StreamTypes
  <1> QED
    BY <1>1, <1>2, <1>3, <1>4, <1>5 DEF Next, Client, Play

\* Every step keeps the types of the request, and the attempts within two.
LEMMA NextRequestTypes ==
  ASSUME Types, [Next]_vars
  PROVE  RequestTypes'
PROOF
  <1> USE DEF Types
  <1>1. CASE SendRequest \/ rtsp_client_send_keepalive
    <2>1. \A i \in 1..4 : Methods[i] \in {"OPTIONS", "DESCRIBE", "SETUP", "PLAY"}
      BY DEF Methods
    <2>2. Methods[step] \in {"OPTIONS", "DESCRIBE", "SETUP", "PLAY"}
      BY <2>1 DEF IInv, SessionInv
    <2>3. \/ \E m \in {"OPTIONS", "DESCRIBE", "SETUP", "PLAY"} : send_request(m)
          \/ send_fails
      BY <1>1, <2>2 DEF SendRequest, rtsp_client_send_keepalive
    <2>4. attempt' = attempt /\ (Playing' => Playing)
      BY <1>1 DEF SendRequest, rtsp_client_send_keepalive, auth, Playing
    <2> QED
      BY <2>3, <2>4 DEF send_request, send_fails, RequestTypes, Requests
  <1>2. CASE Close
    <2>1. UNCHANGED request \/ send_request("TEARDOWN") \/ send_fails
      BY <1>2 DEF Close, Teardown, request
    <2>2. attempt' = attempt /\ ~Playing'
      BY <1>2 DEF Close, auth, Playing
    <2>3. CASE UNCHANGED request
      BY <2>2, <2>3 DEF RequestTypes, request
    <2>4. CASE send_request("TEARDOWN")
      BY <2>2, <2>4 DEF RequestTypes, Requests, send_request
    <2>5. CASE send_fails
      BY <2>2, <2>5 DEF RequestTypes, send_fails
    <2> QED
      BY <2>1, <2>3, <2>4, <2>5
  <1>3. CASE Challenged \/ Accepted
    <2>1. UNCHANGED request /\ attempt \in 0..1
      BY <1>3 DEF Challenged, Accepted, Answered, RequestTypes, Playing
    <2>2. attempt' \in 0..2 /\ (Playing' => attempt' <= 1)
      BY <1>3, <2>1 DEF Challenged, Accepted, Playing
    <2> QED
      BY <2>1, <2>2 DEF RequestTypes, request
  <1>4. CASE Reopen
    <2>1. attempt' = 0 /\ cseq' = 0 /\ serial' = 0 /\ asked' = NoRequest
      BY <1>4 DEF Reopen
    <2>2. NoRequest \in Requests
      BY DEF NoRequest, Requests
    <2> QED
      BY <2>1, <2>2 DEF RequestTypes
  <1>5. CASE Connect \/ conn_fill_more \/ ReadHeader \/ ReadBody \/ PlayFails \/ UNCHANGED vars
               \/ Rejected \/ Answers \/ Streams \/ Babbles \/ RxBuffered \/ RxReceives
    <2>1. UNCHANGED request /\ attempt' = attempt
      BY <1>5 DEF Connect, conn_fill_more, ReadHeader, ReadBody, PlayFails, vars, Rejected, Answers,
         Streams, Babbles, RxBuffered, RxReceives, auth
    <2>2. Playing' => Playing
      BY <1>5 DEF Connect, conn_fill_more, ReadHeader, ReadBody, PlayFails, vars, Rejected,
         Answers, Streams, Babbles, RxBuffered, RxReceives, Answered, Playing
    <2> QED
      BY <2>1, <2>2 DEF RequestTypes, request
  <1> QED
    BY <1>1, <1>2, <1>3, <1>4, <1>5 DEF Next, Client, Play

\* A new connection.
LEMMA InitTypes == Init => Types
PROOF
  <1> SUFFICES ASSUME Init PROVE Types
    OBVIOUS
  <1>1. IInv
    BY InitIInv
  <1>2. BufferTypes
    BY RtspAssumption, NoResponseType DEF Init, BufferTypes
  <1>3. StreamTypes
    <2>1. playing \in BOOLEAN
      BY DEF Init
    <2> QED
      BY <2>1 DEF Init, StreamTypes
  <1>4. RequestTypes
    BY DEF Init, RequestTypes, Requests, NoRequest
  <1> QED
    BY <1>1, <1>2, <1>3, <1>4 DEF Types

\* The types, always.
LEMMA AlwaysTypes == Spec => []Types
PROOF
  <1>1. Types /\ [Next]_vars => Types'
    BY NextIInv, NextBufferTypes, NextStreamTypes, NextRequestTypes DEF Types
  <1> QED
    BY InitTypes, <1>1, PTL DEF Spec

\* Of the right types always, and within the buffers.
THEOREM TypesHold == Spec => []TypeOK
PROOF
  <1>1. Types => TypeOK
    BY DEF Types, IInv, SessionInv, RefusedInv, BufferTypes, StreamTypes, RequestTypes,
       Requests, TypeOK, Pcs
  <1> QED
    BY <1>1, AlwaysTypes, PTL

\* A request after a refusal.  A new connection counts from 0 again.
LEMMA RefusedStep ==
  ASSUME IInv, serial \in Nat, [Next]_vars, refused, serial' > serial
  PROVE  asked'.method = "TEARDOWN"
PROOF
  <1>1. pc \in {"failed", "closed"}
    BY DEF IInv, RefusedInv
  <1>2. serial' # serial /\ serial' # 0
    OBVIOUS
  <1>3. CASE Close
    BY <1>2, <1>3 DEF Close, Teardown, send_request, send_fails, request
  <1>4. CASE Reopen
    BY <1>2, <1>4 DEF Reopen
  <1>5. CASE ~Close /\ ~Reopen
    <2>1. UNCHANGED request
      BY <1>1, <1>5 DEF Next, Client, Play, Connect, SendRequest, PlayFails, conn_fill_more,
         ReadHeader, ReadBody, Challenged, Accepted, Rejected, RxBuffered, RxReceives,
         rtsp_client_send_keepalive, Answered, Answers, Streams, Babbles, vars
    <2> QED
      BY <2>1, <1>2 DEF request
  <1> QED
    BY <1>3, <1>4, <1>5

\* Whatever the camera asks for, refused credentials are not offered again.
THEOREM RefusalEndsPlay == Spec => RefusedIsFinal
PROOF
  <1>1. Types /\ [Next]_vars =>
          [refused /\ serial' > serial => asked'.method = "TEARDOWN"]_vars
    BY RefusedStep DEF Types, RequestTypes
  <1> QED
    BY <1>1, AlwaysTypes, PTL DEF Spec, RefusedIsFinal

-----------------------------------------------------------------------------
(* Responses *)

\* The receiving steps only cut and join what there is.
LEMMA PartsKept ==
  ASSUME NEW X, buf \in Seq(X), wire \in Seq(X), BufferTypes,
         conn_fill_more \/ ReadHeader \/ ReadBody \/ RxBuffered \/ RxReceives
  PROVE  buf' \in Seq(X) /\ wire' \in Seq(X)
PROOF
  <1>1. PICK p \in Seq(X) : p = buf
    OBVIOUS
  <1>2. PICK q \in Seq(X) : q = wire
    OBVIOUS
  <1>3. \A k \in 0..Len(buf) : SubSeq(buf, k + 1, Len(buf)) \in Seq(X)
    BY <1>1, CutFacts
  <1>4. \A k \in 1..Len(wire) :
          SubSeq(wire, 1, k) \in Seq(X) /\ SubSeq(wire, k + 1, Len(wire)) \in Seq(X)
    <2> SUFFICES ASSUME NEW k \in 1..Len(wire)
                 PROVE  SubSeq(wire, 1, k) \in Seq(X) /\ SubSeq(wire, k + 1, Len(wire)) \in Seq(X)
      OBVIOUS
    <2>1. k \in 0..Len(q)
      BY <1>2
    <2> QED
      BY <1>2, <2>1, CutFacts
  <1>5. CASE conn_fill_more
    <2>1. CASE UNCHANGED reading
      BY <2>1 DEF reading
    <2>2. CASE ~UNCHANGED reading
      <3>1. PICK k \in 1..Len(wire) :
              /\ buf' = buf \o SubSeq(wire, 1, k)
              /\ wire' = SubSeq(wire, k + 1, Len(wire))
        BY <1>5, <2>2 DEF conn_fill_more
      <3>2. PICK r \in Seq(X) : r = SubSeq(wire, 1, k)
        BY <1>4
      <3>3. p \o r \in Seq(X)
        OBVIOUS
      <3> QED
        BY <1>1, <1>4, <3>1, <3>2, <3>3
    <2> QED
      BY <2>1, <2>2
  <1>6. CASE ReadHeader
    <2>1. PICK i, k : Reads(i, k)
      BY <1>6, ReadHeaderReads DEF BufferTypes
    <2>2. k \in 0..Len(buf) /\ buf' = SubSeq(buf, k + 1, Len(buf))
      BY <1>1, <2>1 DEF Reads
    <2>3. wire' = wire
      BY <1>6 DEF ReadHeader
    <2> QED
      BY <1>3, <2>2, <2>3
  <1>7. CASE ReadBody
    <2>1. PICK k \in 1..AtMost(need, Len(wire)) : wire' = SubSeq(wire, k + 1, Len(wire))
      BY <1>7 DEF ReadBody
    <2>2. k \in 1..Len(wire)
      BY <2>1, <1>2, RtspAssumption DEF AtMost, BufferTypes
    <2> QED
      BY <1>4, <1>7, <2>1, <2>2 DEF ReadBody
  <1>8. CASE RxBuffered
    <2>1. AtMost(Len(buf), TakeCap) \in 0..Len(buf)
      BY <1>1, RtspAssumption DEF AtMost
    <2> QED
      BY <1>3, <1>8, <2>1 DEF RxBuffered
  <1>9. CASE RxReceives
    BY <1>4, <1>9 DEF RxReceives
  <1> QED
    BY <1>5, <1>6, <1>7, <1>8, <1>9

\* What may be on its way to the client: a header repeats the CSeq of the
\* request it was made for, and has a body only for a description.
Matched ==
  {u \in Units : IsHeader(u) =>
     /\ u.cseq \in {0, u.to} /\ u.to <= serial
     /\ u.to = serial => u.body \in Bodies(asked.method)}

\* Until the receive task goes on with requests whose answers nobody reads,
\* and that may never be sent, the CSeq counts the requests.
Counted ==
  /\ cseq = serial /\ asked.serial = serial /\ asked.cseq = serial
  /\ buf \in Seq(Matched) /\ wire \in Seq(Matched)

MatchInv ==
  /\ pc \notin {"streaming", "closed"} => Counted
  /\ pc \in {"read", "body"} => serial > 0 /\ asked.method = Methods[step]
  /\ pc = "body" => resp.to = serial
  /\ pc \in {"opened", "closed"} => buf = <<>> /\ wire = <<>>
  /\ pc = "opened" => asked = NoRequest

\* A new request leaves what is under way an answer to an older one.
LEMMA MatchedOlder ==
  ASSUME RequestTypes, NEW m, send_request(m)
  PROVE  Matched \subseteq Matched'
PROOF
  <1>1. serial \in Nat /\ serial' = serial + 1
    BY DEF RequestTypes, send_request
  <1> SUFFICES ASSUME NEW u \in Matched PROVE u \in Matched'
    OBVIOUS
  <1>2. u \in Units
    BY DEF Matched
  <1>3. CASE IsHeader(u)
    <2>1. u.to \in Nat
      BY <1>2, <1>3, HeaderType DEF Headers
    <2>2. u.cseq \in {0, u.to} /\ u.to <= serial
      BY <1>3 DEF Matched
    <2>3. u.to <= serial' /\ u.to # serial'
      BY <1>1, <2>1, <2>2
    <2> QED
      BY <1>2, <2>2, <2>3 DEF Matched
  <1>4. CASE ~IsHeader(u)
    BY <1>2, <1>4 DEF Matched
  <1> QED
    BY <1>3, <1>4

\* What may be under way depends on the request only.
LEMMA MatchedUnchanged == UNCHANGED request => Matched' = Matched
  BY DEF Matched, request

\* While it streams nothing is asked of what is under way.
LEMMA StreamingMatch ==
  ASSUME pc' = "streaming"
  PROVE  MatchInv'
  BY DEF MatchInv

\* A new request.
LEMMA SendMatch ==
  ASSUME Types, MatchInv, SendRequest
  PROVE  MatchInv'
PROOF
  <1>1. PICK m : /\ send_request(m) /\ pc = "send" /\ pc' = "read"
                 /\ m = Methods[step]
                 /\ UNCHANGED <<buf, wire, step, resp>>
    BY DEF SendRequest, reading
  <1>2. Matched \subseteq Matched'
    BY <1>1, MatchedOlder DEF Types
  <1>3. buf' \in Seq(Matched') /\ wire' \in Seq(Matched')
    <2>1. buf \in Seq(Matched') /\ wire \in Seq(Matched')
      BY <1>1, <1>2, SeqMonotonic DEF MatchInv, Counted
    <2> QED
      BY <1>1, <2>1
  <1>4. serial \in Nat
    BY DEF Types, RequestTypes
  <1>5. cseq' = serial' /\ asked'.serial = serial' /\ asked'.cseq = serial' /\ serial' > 0
        /\ asked'.method = m
    BY <1>1, <1>4 DEF send_request, MatchInv, Counted
  <1> QED
    BY <1>1, <1>3, <1>5 DEF MatchInv, Counted

\* The header that is read answers the request that waits.
LEMMA ReadMatch ==
  ASSUME Types, MatchInv, ReadHeader
  PROVE  MatchInv'
PROOF
  <1>1. PICK i, k : Reads(i, k)
    BY ReadHeaderReads DEF Types, BufferTypes
  <1>2. pc = "read" /\ UNCHANGED request /\ step' = step
    BY DEF ReadHeader
  <1>3. Matched' = Matched
    BY <1>2, MatchedUnchanged
  <1>4. buf' \in Seq(Matched) /\ wire' \in Seq(Matched)
    BY <1>2, PartsKept DEF Types, MatchInv, Counted
  <1>5. pc' = "body" => resp'.to = serial
    <2> SUFFICES ASSUME pc' = "body" PROVE resp'.to = serial
      OBVIOUS
    <2>1. i \in 1..Len(buf) /\ IsHeader(buf[i]) /\ buf[i] \in Matched
      BY <1>1, <1>2 DEF Reads, MatchInv, Counted
    <2>2. buf[i].cseq \in {0, buf[i].to}
      BY <2>1 DEF Matched
    <2>3. buf[i].cseq = serial /\ serial > 0
      BY <1>1, <1>2 DEF Reads, MatchInv, Counted
    <2>4. buf[i].to = serial
      BY <2>2, <2>3
    <2> QED
      BY <1>1, <2>4 DEF Reads
  <1>6. pc' \in {"body", "failed"}
    BY <1>1 DEF Reads
  <1> QED
    BY <1>2, <1>3, <1>4, <1>5, <1>6 DEF MatchInv, Counted, request

\* The camera answers the last request.
LEMMA AnswersMatchInv ==
  ASSUME Types, MatchInv, Answers, pc # "streaming"
  PROVE  MatchInv'
PROOF
  <1>0. Counted
    BY DEF MatchInv, Answers, Live
  <1>1. PICK h \in Replies(asked) :
          wire' = wire \o (<<h>> \o [i \in 1..AtMost(h.body, BodyCap) |-> Body])
    BY DEF Answers
  <1>2. PICK q \in Seq(Units) :
          /\ q = <<h>> \o [i \in 1..AtMost(h.body, BodyCap) |-> Body]
          /\ Len(q) >= 1 /\ q[1] = h /\ \A i \in 2..Len(q) : q[i] = Body
    BY AnswerUnits DEF Types
  <1>3. h \in Headers /\ h.to = asked.serial /\ h.cseq \in {0, asked.cseq}
        /\ h.body \in Bodies(asked.method)
    BY AnswerUnits DEF Types
  <1>4. h \in Matched
    <2>1. h \in Units /\ h.cseq \in {0, h.to} /\ h.to = serial /\ serial \in Nat
      BY <1>0, <1>3, UnitTypes DEF Counted, Types, RequestTypes
    <2> QED
      BY <1>3, <2>1 DEF Matched
  <1>5. Body \in Matched
    BY UnitTypes DEF Matched
  <1>6. q \in Seq(Matched)
    <2>1. q[1] \in Matched /\ \A i \in 2..Len(q) : q[i] \in Matched
      BY <1>2, <1>4, <1>5
    <2>2. \A i \in 1..Len(q) : i = 1 \/ i \in 2..Len(q)
      OBVIOUS
    <2>3. \A i \in 1..Len(q) : q[i] \in Matched
      BY <2>1, <2>2
    <2> HIDE DEF Matched
    <2> QED
      BY <2>3
  <1>7. PICK w \in Seq(Matched) : w = wire
    BY <1>0 DEF Counted
  <1>8. w \o q \in Seq(Matched)
    BY <1>6
  <1>9. wire' \in Seq(Matched)
    BY <1>1, <1>2, <1>7, <1>8
  <1>10. UNCHANGED <<pc, step, resp, buf>> /\ UNCHANGED request /\ Live
    BY DEF Answers
  <1>11. Matched' = Matched /\ pc \notin {"opened", "closed"}
    BY <1>10, MatchedUnchanged DEF Live
  <1> QED
    BY <1>0, <1>9, <1>10, <1>11 DEF MatchInv, Counted, request

\* Frames and junk are no answers.
LEMMA OthersMatch ==
  ASSUME Types, MatchInv, Streams \/ Babbles, pc # "streaming"
  PROVE  MatchInv'
PROOF
  <1>0. Counted
    BY DEF MatchInv, Streams, Babbles, Live
  <1>1. PICK u \in Matched : wire' = Append(wire, u)
    <2>1. Junk \in Matched
      BY UnitTypes DEF Matched
    <2>2. Rtp(rtp + 1) \in Matched
      BY UnitTypes DEF Matched, Types, StreamTypes
    <2> QED
      BY <2>1, <2>2 DEF Streams, Babbles
  <1>2. PICK w \in Seq(Matched) : w = wire
    BY <1>0 DEF Counted
  <1>3. Append(w, u) \in Seq(Matched)
    OBVIOUS
  <1>4. UNCHANGED <<pc, step, resp, buf>> /\ UNCHANGED request /\ Live
    BY DEF Streams, Babbles
  <1>5. Matched' = Matched /\ pc \notin {"opened", "closed"}
    BY <1>4, MatchedUnchanged DEF Live
  <1> QED
    BY <1>0, <1>1, <1>2, <1>3, <1>4, <1>5 DEF MatchInv, Counted, request

\* The end of a connection.
LEMMA CloseMatch ==
  ASSUME Types, MatchInv, Close \/ Reopen
  PROVE  MatchInv'
PROOF
  <1>1. CASE Close
    <2>1. pc' = "closed" /\ buf' = <<>> /\ wire' = <<>>
      BY <1>1 DEF Close
    <2> QED
      BY <2>1 DEF MatchInv
  <1>2. CASE Reopen
    <2>1. /\ pc' = "opened" /\ buf' = <<>> /\ wire' = <<>>
          /\ cseq' = 0 /\ serial' = 0 /\ asked' = NoRequest
      BY <1>2 DEF Reopen, MatchInv
    <2>2. buf' \in Seq(Matched') /\ wire' \in Seq(Matched')
      BY <2>1
    <2> QED
      BY <2>1, <2>2 DEF MatchInv, Counted, NoRequest
  <1> QED
    BY <1>1, <1>2

\* What is read stays what it was.
LEMMA ReceiveMatch ==
  ASSUME Types, MatchInv, conn_fill_more \/ ReadBody
  PROVE  MatchInv'
PROOF
  <1>1. UNCHANGED request /\ step' = step /\ resp' = resp
    BY DEF conn_fill_more, ReadBody
  <1>2. Matched' = Matched
    BY <1>1, MatchedUnchanged
  <1>4. pc' \in {pc, "failed"} /\ pc \in {"read", "body"}
    BY DEF conn_fill_more, ReadBody
  <1>3. buf' \in Seq(Matched) /\ wire' \in Seq(Matched)
    BY <1>4, PartsKept DEF Types, MatchInv, Counted
  <1> QED
    BY <1>1, <1>2, <1>3, <1>4 DEF MatchInv, Counted, request

\* The steps of play that read nothing.
LEMMA QuietMatch ==
  ASSUME Types, MatchInv,
         Connect \/ PlayFails \/ Challenged \/ Accepted \/ Rejected \/ UNCHANGED vars,
         pc # "streaming"
  PROVE  MatchInv'
PROOF
  <1>1. UNCHANGED request /\ buf' = buf /\ wire' = wire
    BY DEF Connect, PlayFails, Challenged, Accepted, Rejected, vars, reading
  <1>2. Matched' = Matched
    BY <1>1, MatchedUnchanged
  <1>3. \/ pc' \in {"send", "failed", "ready"} /\ pc # "closed"
        \/ pc' = pc /\ resp' = resp /\ step' = step
    BY DEF Connect, PlayFails, Challenged, Accepted, Rejected, Answered, vars
  <1> QED
    BY <1>1, <1>2, <1>3 DEF MatchInv, Counted, request

\* Requests and responses match, always.
LEMMA AlwaysMatch == Spec => []MatchInv
PROOF
  <1>1. Init => MatchInv
    <2> SUFFICES ASSUME Init PROVE MatchInv
      OBVIOUS
    <2>1. buf = <<>> /\ wire = <<>>
      BY DEF Init
    <2>2. buf \in Seq(Matched) /\ wire \in Seq(Matched)
      BY <2>1
    <2> QED
      BY <2>1, <2>2 DEF Init, MatchInv, Counted, NoRequest
  <1>2. Types /\ MatchInv /\ [Next]_vars => MatchInv'
    <2> SUFFICES ASSUME Types, MatchInv, [Next]_vars PROVE MatchInv'
      OBVIOUS
    <2>1. CASE RxBuffered \/ RxReceives \/ rtsp_client_send_keepalive
      BY <2>1, StreamingMatch DEF RxBuffered, RxReceives, rtsp_client_send_keepalive
    <2>2. CASE pc = "streaming" /\ (Answers \/ Streams \/ Babbles \/ UNCHANGED vars)
      BY <2>2, StreamingMatch DEF Answers, Streams, Babbles, vars
    <2>3. CASE Connect \/ PlayFails \/ Challenged \/ Accepted \/ Rejected
      BY <2>3, QuietMatch DEF Connect, PlayFails, Challenged, Accepted, Rejected, Answered
    <2> QED
      BY <2>1, <2>2, <2>3, SendMatch, ReadMatch, AnswersMatchInv, OthersMatch, CloseMatch,
         ReceiveMatch, QuietMatch
      DEF Next, Client, Play
  <1> QED
    BY <1>1, <1>2, AlwaysTypes, PTL DEF Spec

\* A response that is acted upon answers the request that waits for it.
THEOREM ResponsesMatch == Spec => []AnswersMatch
PROOF
  <1>1. MatchInv => AnswersMatch
    BY DEF MatchInv, AnswersMatch
  <1> QED
    BY <1>1, AlwaysMatch, PTL

-----------------------------------------------------------------------------
(* The stream *)

\* Until the camera streams nothing of it is under way; it streams only once
\* PLAY was asked, and only a description has a body.
PlayInv ==
  /\ pc \notin {"streaming", "closed"} => fed = <<>>
  /\ pc = "opened" => ~playing
  /\ pc \notin {"failed", "closed"} => (playing \/ asked.method = "PLAY" => step = 4)
  /\ pc = "body" /\ step # 2 => need = 0
  /\ ~playing => rtp = 0 /\ fed = <<>> /\ buf \in Seq(Mute) /\ wire \in Seq(Mute)

\* The units that are no piece of a frame.
LEMMA MuteUnits == Body \in Mute /\ Junk \in Mute /\ Headers \subseteq Mute /\ Mute \subseteq Units
  BY UnitTypes DEF Mute

\* Reading and handing on.
LEMMA ReceivePlay ==
  ASSUME Types, MatchInv, PlayInv, conn_fill_more \/ ReadBody \/ RxBuffered \/ RxReceives
  PROVE  PlayInv'
PROOF
  <1>1. UNCHANGED request /\ UNCHANGED <<step, playing, rtp>>
    BY DEF conn_fill_more, ReadBody, RxBuffered, RxReceives, streaming
  <1>2. ~playing => buf' \in Seq(Mute) /\ wire' \in Seq(Mute)
    BY PartsKept DEF Types, PlayInv
  <1>3. CASE conn_fill_more \/ ReadBody
    <2>1. fed' = fed /\ pc \in {"read", "body"} /\ pc' \in {pc, "failed"}
      BY <1>3 DEF conn_fill_more, ReadBody, streaming
    <2>2. pc' = "body" /\ step # 2 => need' = 0
      <3>1. CASE conn_fill_more
        BY <3>1 DEF conn_fill_more
      <3>2. CASE ReadBody
        <4>1. need # 0 /\ pc = "body"
          BY <3>2 DEF ReadBody, AtMost, Types, BufferTypes
        <4> QED
          BY <4>1 DEF PlayInv
      <3> QED
        BY <1>3, <3>1, <3>2
    <2> QED
      BY <1>1, <1>2, <2>1, <2>2 DEF PlayInv, request
  <1>4. CASE RxBuffered \/ RxReceives
    <2>1. pc \in {"ready", "streaming"} /\ pc' = "streaming"
      BY <1>4 DEF RxBuffered, RxReceives
    <2>2. ~playing => fed' = <<>>
      <3> SUFFICES ASSUME ~playing PROVE fed' = <<>>
        OBVIOUS
      <3>1. fed = <<>> /\ buf \in Seq(Mute) /\ wire \in Seq(Mute)
        BY DEF PlayInv
      <3>2. \E s \in Seq(Mute) : fed' = fed \o Frames(s)
        <4>1. CASE RxBuffered
          <5>1. PICK p \in Seq(Mute) : p = buf
            BY <3>1
          <5>2. AtMost(Len(buf), TakeCap) \in 0..Len(p)
            BY <5>1, RtspAssumption DEF AtMost
          <5>3. SubSeq(p, 1, AtMost(Len(buf), TakeCap)) \in Seq(Mute)
            BY <5>2, CutFacts
          <5> QED
            BY <4>1, <5>1, <5>3 DEF RxBuffered
        <4>2. CASE RxReceives
          <5>1. PICK p \in Seq(Mute) : p = wire
            BY <3>1
          <5>2. PICK k \in 1..Len(wire) : fed' = fed \o Frames(SubSeq(wire, 1, k))
            BY <4>2 DEF RxReceives
          <5>3. k \in 0..Len(p)
            BY <5>1
          <5>4. SubSeq(p, 1, k) \in Seq(Mute)
            BY <5>3, CutFacts
          <5> QED
            BY <5>1, <5>2, <5>4
        <4> QED
          BY <1>4, <4>1, <4>2
      <3>3. fed' = <<>> \o <<>>
        BY <3>1, <3>2, FramesNone
      <3> QED
        BY <3>3
    <2> QED
      BY <1>1, <1>2, <2>1, <2>2 DEF PlayInv, request
  <1> QED
    BY <1>3, <1>4

\* The header that is read answers PLAY, which has no body.
LEMMA HeaderOfPlay ==
  ASSUME Types, MatchInv, ReadHeader, step # 2, NEW i, NEW k, Reads(i, k), pc' = "body"
  PROVE  k = i /\ need' = 0
PROOF
  <1>1. pc = "read"
    BY DEF ReadHeader
  <1>2. i \in 1..Len(buf) /\ IsHeader(buf[i]) /\ buf[i] \in Matched
    BY <1>1 DEF Reads, MatchInv, Counted
  <1>3. buf[i].cseq = serial /\ serial > 0
    BY <1>1 DEF Reads, MatchInv, Counted
  <1>4. buf[i].to = serial
    BY <1>2, <1>3 DEF Matched
  <1>5. buf[i].body \in Bodies(asked.method)
    BY <1>2, <1>4 DEF Matched
  <1>6. asked.method # "DESCRIBE"
    <2>1. asked.method = Methods[step] /\ step \in {1, 3, 4}
      BY <1>1 DEF MatchInv, Types, IInv, SessionInv
    <2>2. \A n \in {1, 3, 4} : Methods[n] # "DESCRIBE"
      BY DEF Methods
    <2> QED
      BY <2>1, <2>2
  <1>7. buf[i].body = 0
    BY <1>5, <1>6 DEF Bodies
  <1> QED
    BY <1>7 DEF Reads

\* read_response.
LEMMA ReadPlay ==
  ASSUME Types, MatchInv, PlayInv, ReadHeader
  PROVE  PlayInv'
PROOF
  <1>1. PICK i, k : Reads(i, k)
    BY ReadHeaderReads DEF Types, BufferTypes
  <1>2. UNCHANGED request /\ UNCHANGED <<step, playing, rtp, fed>>
    BY DEF ReadHeader, streaming
  <1>3. ~playing => buf' \in Seq(Mute) /\ wire' \in Seq(Mute)
    BY PartsKept DEF Types, PlayInv
  <1>4. pc = "read" /\ pc' \in {"body", "failed"}
    BY <1>1 DEF Reads, ReadHeader
  <1>5. pc' = "body" /\ step # 2 => need' = 0
    BY <1>1, HeaderOfPlay
  <1> QED
    BY <1>2, <1>3, <1>4, <1>5 DEF PlayInv, request

\* The camera begins to stream when it answers PLAY.
LEMMA CameraPlay ==
  ASSUME Types, MatchInv, PlayInv, Answers \/ Streams \/ Babbles
  PROVE  PlayInv'
PROOF
  <1>1. UNCHANGED request /\ UNCHANGED <<pc, step, buf, need, fed>> /\ Live
    BY DEF Answers, Streams, Babbles, streaming
  <1>2. pc \notin {"opened", "failed", "closed"}
    BY <1>1 DEF Live
  <1>3. playing' => playing \/ asked.method = "PLAY"
    BY DEF Answers, Streams, Babbles, streaming
  <1>4. playing' => step = 4
    BY <1>2, <1>3 DEF PlayInv
  <1>5. ~playing' => rtp' = 0 /\ wire' \in Seq(Mute)
    <2> SUFFICES ASSUME ~playing' PROVE rtp' = 0 /\ wire' \in Seq(Mute)
      OBVIOUS
    <2>1. ~playing /\ ~Streams
      <3>1. ~playing
        BY DEF Answers, Streams, Babbles, streaming
      <3>2. Streams => playing
        BY DEF Streams
      <3> QED
        BY <3>1, <3>2
    <2>2. rtp' = rtp /\ rtp = 0
      BY <2>1 DEF Answers, Babbles, streaming, PlayInv
    <2>3. PICK w \in Seq(Mute) : w = wire
      BY <2>1 DEF PlayInv
    <2>4. CASE Answers
      <3>1. PICK h \in Replies(asked) :
              wire' = wire \o (<<h>> \o [i \in 1..AtMost(h.body, BodyCap) |-> Body])
        BY <2>4 DEF Answers
      <3>2. PICK q \in Seq(Units) :
              /\ q = <<h>> \o [i \in 1..AtMost(h.body, BodyCap) |-> Body]
              /\ Len(q) >= 1 /\ q[1] = h /\ \A i \in 2..Len(q) : q[i] = Body
        BY AnswerUnits DEF Types
      <3>3. h \in Mute /\ Body \in Mute
        BY AnswerUnits, MuteUnits DEF Types
      <3>4. \A i \in 1..Len(q) : q[i] \in Mute
        <4>1. \A i \in 1..Len(q) : i = 1 \/ i \in 2..Len(q)
          OBVIOUS
        <4> QED
          BY <3>2, <3>3, <4>1
      <3>5. q \in Seq(Mute)
        BY <3>4
      <3>6. w \o q \in Seq(Mute)
        BY <3>5
      <3> QED
        BY <2>2, <2>3, <3>1, <3>2, <3>6
    <2>5. CASE Babbles
      <3>1. Append(w, Junk) \in Seq(Mute)
        BY MuteUnits
      <3> QED
        BY <2>2, <2>3, <2>5, <3>1 DEF Babbles
    <2> QED
      BY <2>1, <2>4, <2>5
  <1>6. ~playing' => ~playing
    BY DEF Answers, Streams, Babbles, streaming
  <1> QED
    BY <1>1, <1>2, <1>4, <1>5, <1>6 DEF PlayInv, request

\* PLAY is the fourth request.
LEMMA RequestPlay ==
  ASSUME Types, MatchInv, PlayInv, SendRequest \/ rtsp_client_send_keepalive
  PROVE  PlayInv'
PROOF
  <1>1. UNCHANGED <<step, buf, wire, need, fed, playing, rtp>>
    BY DEF SendRequest, rtsp_client_send_keepalive, reading, streaming
  <1>2. CASE SendRequest
    <2>1. pc = "send" /\ pc' = "read" /\ asked'.method = Methods[step]
      BY <1>2 DEF SendRequest, send_request
    <2>2. \A n \in 1..3 : Methods[n] # "PLAY"
      BY DEF Methods
    <2>3. asked'.method = "PLAY" => step = 4
      <3>1. step \in 1..3 \/ step = 4
        BY DEF Types, IInv, SessionInv
      <3> QED
        BY <2>1, <2>2, <3>1
    <2> QED
      BY <1>1, <2>1, <2>3 DEF PlayInv
  <1>3. CASE rtsp_client_send_keepalive
    BY <1>1, <1>3 DEF rtsp_client_send_keepalive, send_request, send_fails, PlayInv
  <1> QED
    BY <1>2, <1>3

\* The steps of play that read nothing, and the end.
LEMMA QuietPlay ==
  ASSUME Types, MatchInv, PlayInv,
         Connect \/ PlayFails \/ Challenged \/ Accepted \/ Rejected \/ Close \/ UNCHANGED vars
  PROVE  PlayInv'
PROOF
  <1>1. UNCHANGED <<need, fed, playing, rtp>>
    BY DEF Connect, PlayFails, Challenged, Accepted, Rejected, Close, vars, reading, streaming
  <1>2. CASE Close
    <2>1. pc' = "closed" /\ buf' = <<>> /\ wire' = <<>>
      BY <1>2 DEF Close
    <2> QED
      BY <1>1, <2>1 DEF PlayInv
  <1>3. CASE Accepted
    <2>1. /\ pc = "body" /\ pc' \in {"send", "ready"} /\ UNCHANGED <<asked, buf, wire>>
          /\ step = 4 => step' = 4
      BY <1>3 DEF Accepted, Answered, reading, request
    <2> QED
      BY <1>1, <2>1 DEF PlayInv
  <1>4. CASE Connect \/ PlayFails \/ Challenged \/ Rejected \/ UNCHANGED vars
    <2>1. UNCHANGED <<asked, buf, wire, step>>
      BY <1>4 DEF Connect, PlayFails, Challenged, Rejected, vars, reading, request
    <2>2. \/ pc' \in {"send", "failed"} /\ pc \in {"opened", "send", "read", "body"}
          \/ pc' = pc
      BY <1>4 DEF Connect, PlayFails, Challenged, Rejected, vars, Answered
    <2> QED
      BY <1>1, <2>1, <2>2 DEF PlayInv
  <1> QED
    BY <1>2, <1>3, <1>4

\* A new connection.
LEMMA InitPlay == Init => PlayInv
PROOF
  <1> SUFFICES ASSUME Init PROVE PlayInv
    OBVIOUS
  <1>1. buf = <<>> /\ wire = <<>> /\ fed = <<>> /\ rtp = 0 /\ pc = "opened"
    BY DEF Init
  <1>2. ~playing /\ asked.method # "PLAY"
    BY DEF Init, NoRequest
  <1> QED
    BY <1>1, <1>2 DEF PlayInv

\* The next viewer.
LEMMA ReopenPlay ==
  ASSUME MatchInv, Reopen
  PROVE  PlayInv'
PROOF
  <1>1. buf' = <<>> /\ wire' = <<>> /\ fed' = <<>> /\ rtp' = 0 /\ pc' = "opened"
    BY DEF Reopen, MatchInv
  <1>2. ~playing' /\ asked'.method # "PLAY"
    BY DEF Reopen, NoRequest
  <1> QED
    BY <1>1, <1>2 DEF PlayInv

\* Every step.
LEMMA NextPlay == Types /\ MatchInv /\ PlayInv /\ [Next]_vars => PlayInv'
  BY ReceivePlay, ReadPlay, CameraPlay, RequestPlay, QuietPlay, ReopenPlay
  DEF Next, Client, Play

\* The units of what is joined.
LEMMA CatElements ==
  ASSUME NEW X, NEW p \in Seq(X), NEW q \in Seq(X)
  PROVE  /\ Len(Cat(p, q)) = Len(p) + Len(q)
         /\ \A i \in 1..Len(p) : Cat(p, q)[i] = p[i]
         /\ \A i \in 1..Len(q) : Cat(p, q)[Len(p) + i] = q[i]
PROOF
  <1>1. /\ Len(p \o q) = Len(p) + Len(q)
        /\ \A i \in 1..Len(p) + Len(q) : (p \o q)[i] = IF i <= Len(p) THEN p[i] ELSE q[i - Len(p)]
    BY ConcatProperties
  <1>2. Len(p) \in Nat /\ Len(q) \in Nat
    OBVIOUS
  <1>3. ASSUME NEW i \in 1..Len(p) PROVE (p \o q)[i] = p[i]
    BY <1>1, <1>2
  <1>4. ASSUME NEW i \in 1..Len(q) PROVE (p \o q)[Len(p) + i] = q[i]
    BY <1>1, <1>2
  <1> QED
    BY <1>1, <1>3, <1>4 DEF Cat

\* The response to PLAY is in the stream, before the first piece of a frame.
CoveredBy(s, i) ==
  /\ i \in 1..Len(s) /\ IsHeader(s[i]) /\ s[i].code = "ok"
  /\ \A j \in 1..i-1 : ~IsRtp(s[j])
Covered(s) == \E i \in 1..Len(s) : CoveredBy(s, i)

\* What comes behind does not uncover it.
LEMMA CoveredLonger ==
  ASSUME NEW p \in Seq(Units), NEW q \in Seq(Units), Covered(p)
  PROVE  Covered(Cat(p, q))
PROOF
  <1>1. PICK i \in 1..Len(p) : CoveredBy(p, i)
    BY DEF Covered
  <1>2. Len(p) \in Nat /\ Len(q) \in Nat
    OBVIOUS
  <1>3. Cat(p, q)[i] = p[i] /\ \A j \in 1..i-1 : Cat(p, q)[j] = p[j]
    BY <1>2, CatElements
  <1>4. i \in 1..Len(Cat(p, q))
    BY <1>2, CatElements
  <1>5. CoveredBy(Cat(p, q), i)
    BY <1>1, <1>3, <1>4 DEF CoveredBy
  <1> QED
    BY <1>4, <1>5 DEF Covered

\* Nor does one unit more.
LEMMA CoveredNext ==
  ASSUME NEW p \in Seq(Units), NEW u \in Units, Covered(p)
  PROVE  Covered(AddUnit(p, u))
PROOF
  <1>1. AddUnit(p, u) = Cat(p, <<u>>)
    BY AppendIsConcat DEF AddUnit, Cat
  <1>2. <<u>> \in Seq(Units)
    OBVIOUS
  <1> QED
    BY <1>1, <1>2, CoveredLonger

\* A first header, and what is before it, is no piece of a frame.
LEMMA CoveredMute ==
  ASSUME NEW p \in Seq(Units), NEW q \in Seq(Units), Covered(Cat(p, q)), Len(p) > 0,
         IsHeader(p[Len(p)]), \A j \in 1..Len(p) : IsHeader(p[j]) => j = Len(p)
  PROVE  p \in Seq(Mute)
PROOF
  <1>1. PICK i \in 1..Len(Cat(p, q)) : CoveredBy(Cat(p, q), i)
    BY DEF Covered
  <1>2. Len(p) \in Nat /\ Len(q) \in Nat /\ \A j \in 1..Len(p) : p[j] \in Units
    OBVIOUS
  <1>3. \A j \in 1..Len(p) : Cat(p, q)[j] = p[j]
    BY CatElements
  <1>4. i \in Nat /\ i >= Len(p)
    <2>1. i \in Nat /\ i >= 1
      OBVIOUS
    <2>2. CASE i <= Len(p)
      <3>1. i \in 1..Len(p)
        BY <1>2, <2>1, <2>2
      <3>2. IsHeader(p[i])
        BY <1>1, <1>3, <3>1 DEF CoveredBy
      <3> QED
        BY <1>2, <3>1, <3>2
    <2> QED
      BY <1>2, <2>1, <2>2
  <1>5. ASSUME NEW j \in 1..Len(p) PROVE p[j] \in Mute
    <2>1. CASE j = Len(p)
      <3>1. ~IsRtp(p[j])
        BY <2>1 DEF IsHeader, IsRtp
      <3> QED
        BY <1>2, <3>1 DEF Mute
    <2>2. CASE j # Len(p)
      <3>1. j \in 1..i-1
        BY <1>2, <1>4, <2>2
      <3>2. ~IsRtp(p[j])
        BY <1>1, <1>3, <3>1 DEF CoveredBy
      <3> QED
        BY <1>2, <3>2 DEF Mute
    <2> QED
      BY <2>1, <2>2
  <1> QED
    BY <1>5

\* Another header can be taken away before it.
LEMMA CoveredBehind ==
  ASSUME NEW p \in Seq(Units), NEW q \in Seq(Units), Covered(Cat(p, q)),
         \A j \in 1..Len(p) : ~(IsHeader(p[j]) /\ p[j].code = "ok")
  PROVE  Covered(q)
PROOF
  <1>1. PICK i \in 1..Len(Cat(p, q)) : CoveredBy(Cat(p, q), i)
    BY DEF Covered
  <1>2. Len(p) \in Nat /\ Len(q) \in Nat /\ Len(Cat(p, q)) = Len(p) + Len(q)
    BY CatElements
  <1>3. i \in Nat /\ i >= 1 /\ i <= Len(p) + Len(q)
    BY <1>2
  <1>4. i > Len(p)
    <2> SUFFICES ASSUME i <= Len(p) PROVE FALSE
      BY <1>2, <1>3
    <2>1. i \in 1..Len(p)
      BY <1>2, <1>3
    <2>2. Cat(p, q)[i] = p[i]
      BY <2>1, CatElements
    <2> QED
      BY <1>1, <2>1, <2>2 DEF CoveredBy
  <1> DEFINE k == i - Len(p)
  <1>5. k \in 1..Len(q) /\ Len(p) + k = i
    BY <1>2, <1>3, <1>4
  <1>6. Cat(p, q)[i] = q[k]
    BY <1>5, CatElements
  <1>7. ASSUME NEW j \in 1..k-1 PROVE ~IsRtp(q[j])
    <2>1. j \in 1..Len(q) /\ Len(p) + j \in 1..i-1
      BY <1>2, <1>5
    <2>2. Cat(p, q)[Len(p) + j] = q[j]
      BY <2>1, CatElements
    <2> QED
      BY <1>1, <2>1, <2>2 DEF CoveredBy
  <1>8. CoveredBy(q, k)
    BY <1>1, <1>5, <1>6, <1>7 DEF CoveredBy
  <1> QED
    BY <1>5, <1>8 DEF Covered

\* Mute units, and then an answer.
LEMMA CoveredAnswer ==
  ASSUME NEW p \in Seq(Mute), NEW q \in Seq(Mute), Len(q) > 0, IsHeader(q[1]), q[1].code = "ok"
  PROVE  Covered(Cat(p, q))
PROOF
  <1>1. Len(p) \in Nat /\ Len(q) \in Nat
    OBVIOUS
  <1> DEFINE i == Len(p) + 1
  <1>2. 1 \in 1..Len(q) /\ i - 1 = Len(p)
    BY <1>1
  <1>3. Len(Cat(p, q)) = Len(p) + Len(q) /\ Cat(p, q)[i] = q[1]
    BY <1>2, CatElements
  <1>4. ASSUME NEW j \in 1..i-1 PROVE ~IsRtp(Cat(p, q)[j])
    <2>1. j \in 1..Len(p)
      BY <1>2
    <2>2. Cat(p, q)[j] = p[j] /\ p[j] \in Mute
      BY <2>1, CatElements
    <2> QED
      BY <2>2 DEF Mute
  <1>5. i \in 1..Len(Cat(p, q))
    BY <1>1, <1>3
  <1>6. CoveredBy(Cat(p, q), i)
    BY <1>3, <1>4, <1>5 DEF CoveredBy
  <1> QED
    BY <1>5, <1>6 DEF Covered

\* All that the camera sends, up to its n-th piece of a frame.
Upto(n) == [i \in 1..n |-> Rtp(i)]

\* One piece of a frame more.
LEMMA UptoNext ==
  ASSUME NEW n \in Nat
  PROVE  /\ Upto(0) = <<>> /\ Upto(n) \in Seq(Units)
         /\ Upto(n + 1) = AddUnit(Upto(n), Rtp(n + 1))
PROOF
  <1>1. \A m \in Nat : Upto(m) \in Seq(Units) /\ Len(Upto(m)) = m
                       /\ \A i \in 1..m : Upto(m)[i] = Rtp(i)
    BY UnitTypes DEF Upto
  <1>2. Upto(0) = <<>>
    BY <1>1
  <1>3. n + 1 \in Nat /\ Rtp(n + 1) \in Units
    BY UnitTypes
  <1> DEFINE a == Upto(n + 1)
             u == Upto(n)
             b == Append(Upto(n), Rtp(n + 1))
  <1>4. /\ a \in Seq(Units) /\ Len(a) = n + 1 /\ \A i \in 1..n+1 : a[i] = Rtp(i)
    BY <1>1, <1>3
  <1>5. /\ b \in Seq(Units) /\ Len(b) = n + 1 /\ b[n + 1] = Rtp(n + 1)
        /\ \A i \in 1..n : b[i] = Rtp(i)
    <2>1. u \in Seq(Units) /\ Len(u) = n /\ \A i \in 1..n : u[i] = Rtp(i)
      BY <1>1
    <2>2. PICK v \in Seq(Units) : v = u
      BY <2>1
    <2>3. PICK x \in Units : x = Rtp(n + 1)
      BY <1>3
    <2>4. Append(v, x) \in Seq(Units) /\ Len(Append(v, x)) = Len(v) + 1
          /\ (\A i \in 1..Len(v) : Append(v, x)[i] = v[i])
          /\ Append(v, x)[Len(v) + 1] = x
      BY AppendProperties
    <2> QED
      BY <2>1, <2>2, <2>3, <2>4
  <1> HIDE DEF a, b
  <1>6. \A i \in 1..n+1 : i \in 1..n \/ i = n + 1
    OBVIOUS
  <1>7. a = b
    BY <1>4, <1>5, <1>6, SeqEqual
  <1> QED
    BY <1>1, <1>2, <1>7 DEF a, b, AddUnit

\* The demultiplexer takes at once all that a full buffer holds behind one
\* header: RTSP_MSG_BUF_SIZE is 1536, DEMUX_FRAME_BUF_SIZE 1500, so that this
\* is said of cameras whose response to PLAY has 36 bytes or more.
TakeRoom == BufCap <= TakeCap + 1

RoomInv ==
  /\ pc \in {"body", "ready"} => Len(buf) < BufCap
  /\ TakeRoom /\ pc = "streaming" => buf = <<>>

\* Every step leaves the room.
LEMMA NextRoom == Types /\ RoomInv /\ [Next]_vars => RoomInv'
PROOF
  <1> SUFFICES ASSUME Types, RoomInv, [Next]_vars PROVE RoomInv'
    OBVIOUS
  <1>1. CASE ReadHeader
    <2>1. PICK i, k : Reads(i, k)
      BY <1>1, ReadHeaderReads DEF Types, BufferTypes
    <2>2. k \in 0..Len(buf) /\ k >= 1 /\ buf' = SubSeq(buf, k + 1, Len(buf))
      BY <2>1 DEF Reads
    <2>3. Len(buf') = Len(buf) - k
      BY <2>2, BufCut DEF Types
    <2>4. Len(buf) \in Nat /\ Len(buf) <= BufCap /\ BufCap \in Nat
      BY RtspAssumption DEF Types, BufferTypes
    <2>5. Len(buf') < BufCap /\ pc' \in {"body", "failed"}
      BY <2>1, <2>2, <2>3, <2>4 DEF Reads
    <2> QED
      BY <2>5 DEF RoomInv
  <1>2. CASE RxBuffered
    <2>1. pc = "ready" /\ pc' = "streaming"
          /\ buf' = SubSeq(buf, AtMost(Len(buf), TakeCap) + 1, Len(buf))
      BY <1>2 DEF RxBuffered
    <2>2. TakeRoom => buf' = <<>>
      <3> SUFFICES ASSUME TakeRoom PROVE buf' = <<>>
        OBVIOUS
      <3>1. PICK p \in Seq(Units) : p = buf
        BY DEF Types, BufferTypes
      <3>2. Len(p) < BufCap /\ Len(p) \in Nat
        BY <2>1, <3>1 DEF RoomInv
      <3>3. Len(p) <= TakeCap
        BY <3>2, RtspAssumption DEF TakeRoom
      <3>4. AtMost(Len(p), TakeCap) = Len(p)
        BY <3>2, <3>3, RtspAssumption DEF AtMost
      <3>5. buf' = SubSeq(p, Len(p) + 1, Len(p))
        BY <2>1, <3>1, <3>4
      <3>6. PICK r \in Seq(Units) : r = SubSeq(p, Len(p) + 1, Len(p)) /\ Len(r) = 0
        <4>1. Len(p) \in 0..Len(p) /\ Len(p) - Len(p) = 0
          BY <3>2
        <4>2. /\ SubSeq(p, Len(p) + 1, Len(p)) \in Seq(Units)
              /\ Len(SubSeq(p, Len(p) + 1, Len(p))) = Len(p) - Len(p)
          BY <4>1, CutFacts
        <4> QED
          BY <4>1, <4>2, Zenon
      <3>7. r = <<>>
        BY <3>6
      <3> QED
        BY <3>5, <3>6, <3>7
    <2> QED
      BY <2>1, <2>2 DEF RoomInv
  <1>3. CASE conn_fill_more \/ SendRequest \/ PlayFails \/ Connect \/ Challenged \/ Rejected
               \/ Close \/ Reopen
    <2>1. pc' \in {"read", "send", "failed", "closed", "opened"}
      BY <1>3 DEF conn_fill_more, SendRequest, PlayFails, Connect, Challenged, Rejected, Close,
         Reopen
    <2> QED
      BY <2>1 DEF RoomInv
  <1>4. CASE ReadBody \/ Accepted \/ RxReceives \/ rtsp_client_send_keepalive \/ Answers
               \/ Streams \/ Babbles \/ UNCHANGED vars
    <2>1. buf' = buf
      BY <1>4 DEF ReadBody, Accepted, RxReceives, rtsp_client_send_keepalive, Answers,
         Streams, Babbles, vars, reading
    <2>2. pc' = pc \/ (pc = "body" /\ pc' \in {"send", "ready"})
      BY <1>4 DEF ReadBody, Accepted, Answered, RxReceives, rtsp_client_send_keepalive, Answers,
         Streams, Babbles, vars
    <2> QED
      BY <2>1, <2>2 DEF RoomInv
  <1> QED
    BY <1>1, <1>2, <1>3, <1>4 DEF Next, Client, Play

\* Room, always.
LEMMA AlwaysRoom == Spec => []RoomInv
PROOF
  <1>1. Init => RoomInv
    BY DEF Init, RoomInv
  <1> QED
    BY <1>1, NextRoom, AlwaysTypes, PTL DEF Spec

\* All that is under way, and what of it the demultiplexer has or will see.
Stream == Cat(buf, wire)
Flow == Cat(fed, Frames(Stream))

\* Once the camera streams, the response to PLAY is still before its frames
\* or has been read, and every piece of a frame is fed or under way.
FlowInv ==
  playing =>
    /\ pc \in {"send", "read"} \/ (pc = "body" /\ resp.code = "401") => Covered(Stream)
    /\ pc \notin {"failed", "closed"} => Flow = Upto(rtp)

\* The steps that leave the stream alone.
LEMMA QuietFlow ==
  ASSUME Types, PlayInv, FlowInv,
         Connect \/ SendRequest \/ PlayFails \/ Challenged \/ Accepted \/ Rejected \/ ReadBody
           \/ rtsp_client_send_keepalive \/ Close \/ Reopen \/ UNCHANGED vars
  PROVE  FlowInv'
PROOF
  <1>1. CASE Reopen
    BY <1>1 DEF Reopen, FlowInv
  <1>2. CASE Close
    BY <1>2 DEF Close, FlowInv
  <1>3. CASE Connect \/ ReadBody
    <2>1. playing' = playing
      BY <1>3 DEF Connect, ReadBody, streaming
    <2>2. ~playing
      <3>1. CASE Connect
        BY <3>1 DEF Connect, PlayInv
      <3>2. CASE ReadBody
        <4>1. need # 0 /\ pc = "body"
          BY <3>2 DEF ReadBody, AtMost, Types, BufferTypes
        <4>2. step = 2
          BY <4>1 DEF PlayInv
        <4> QED
          BY <4>1, <4>2 DEF PlayInv
      <3> QED
        BY <1>3, <3>1, <3>2
    <2> QED
      BY <2>1, <2>2 DEF FlowInv
  <1>4. CASE SendRequest \/ PlayFails \/ Challenged \/ Accepted \/ Rejected
               \/ rtsp_client_send_keepalive \/ UNCHANGED vars
    <2>1. UNCHANGED <<buf, wire, fed, playing, rtp>>
      BY <1>4 DEF SendRequest, PlayFails, Challenged, Accepted, Rejected,
         rtsp_client_send_keepalive, vars, reading, streaming
    <2>2. Stream' = Stream /\ Flow' = Flow
      BY <2>1 DEF Stream, Flow
    <2>3. pc \in {"failed", "closed"} => pc' \in {"failed", "closed"}
      BY <1>4 DEF SendRequest, PlayFails, Challenged, Accepted, Rejected, Answered,
         rtsp_client_send_keepalive, vars
    <2>4. playing /\ (pc' \in {"send", "read"} \/ (pc' = "body" /\ resp'.code = "401"))
            => pc \in {"send", "read"} \/ (pc = "body" /\ resp.code = "401")
      BY <1>4 DEF SendRequest, PlayFails, Challenged, Accepted, Rejected, Answered,
         rtsp_client_send_keepalive, vars, PlayInv
    <2> QED
      BY <2>1, <2>2, <2>3, <2>4 DEF FlowInv
  <1> QED
    BY <1>1, <1>2, <1>3, <1>4

\* conn_fill_more moves units from the wire to the buffer.
LEMMA FillFlow ==
  ASSUME Types, FlowInv, conn_fill_more
  PROVE  FlowInv'
PROOF
  <1>1. UNCHANGED <<fed, playing, rtp, resp>> /\ pc = "read" /\ pc' \in {"read", "failed"}
    BY DEF conn_fill_more, streaming
  <1>2. CASE pc' = "failed"
    BY <1>2 DEF FlowInv
  <1>3. CASE pc' # "failed"
    <2>1. PICK k \in 1..Len(wire) :
            buf' = Cat(buf, SubSeq(wire, 1, k)) /\ wire' = SubSeq(wire, k + 1, Len(wire))
      BY <1>3 DEF conn_fill_more, Cat
    <2>2. PICK p \in Seq(Units) : p = buf
      BY DEF Types, BufferTypes
    <2>3. PICK w \in Seq(Units) : w = wire
      BY DEF Types, BufferTypes
    <2>4. k \in 0..Len(w)
      BY <2>3
    <2>5. PICK a \in Seq(Units), b \in Seq(Units) :
            a = SubSeq(w, 1, k) /\ b = SubSeq(w, k + 1, Len(w)) /\ Cat(a, b) = w
      <3>1. /\ SubSeq(w, 1, k) \in Seq(Units) /\ SubSeq(w, k + 1, Len(w)) \in Seq(Units)
            /\ Cat(SubSeq(w, 1, k), SubSeq(w, k + 1, Len(w))) = w
        BY <2>4, CutFacts
      <3> QED
        BY <3>1, Zenon
    <2>6. Cat(Cat(p, a), b) = Cat(p, Cat(a, b))
      BY UnitTypes, CatFacts
    <2>7. Stream' = Stream
      BY <2>1, <2>2, <2>3, <2>5, <2>6 DEF Stream
    <2>8. Flow' = Flow
      BY <1>1, <2>7 DEF Flow
    <2> QED
      BY <1>1, <2>7, <2>8 DEF FlowInv
  <1> QED
    BY <1>2, <1>3

\* read_response takes no piece of a frame away.
LEMMA ReadFlow ==
  ASSUME Types, MatchInv, PlayInv, FlowInv, ReadHeader
  PROVE  FlowInv'
PROOF
  <1>1. UNCHANGED <<fed, playing, rtp, wire>> /\ pc = "read"
    BY DEF ReadHeader, streaming
  <1>2. PICK i, k : Reads(i, k)
    BY ReadHeaderReads DEF Types, BufferTypes
  <1>3. CASE ~playing \/ pc' = "failed"
    BY <1>1, <1>3 DEF FlowInv
  <1>4. CASE playing /\ pc' # "failed"
    <2>1. pc' = "body" /\ step = 4
      BY <1>1, <1>2, <1>4 DEF Reads, PlayInv
    <2>2. k = i
      BY <1>2, <2>1, HeaderOfPlay
    <2>3. PICK p \in Seq(Units) : p = buf
      BY DEF Types, BufferTypes
    <2>4. PICK w \in Seq(Units) : w = wire
      BY DEF Types, BufferTypes
    <2>5. /\ i \in 1..Len(p) /\ IsHeader(p[i]) /\ i \in 0..Len(p)
          /\ \A j \in 1..Len(p) : IsHeader(p[j]) => i <= j
          /\ buf' = SubSeq(p, i + 1, Len(p))
          /\ resp'.code \in {p[i].code, "other"}
      BY <1>2, <2>2, <2>3 DEF Reads
    <2>6. PICK a \in Seq(Units), b \in Seq(Units) :
            /\ a = SubSeq(p, 1, i) /\ b = SubSeq(p, i + 1, Len(p)) /\ Cat(a, b) = p
            /\ Len(a) = i /\ \A j \in 1..i : a[j] = p[j]
      BY <2>5, CutFacts
    <2>7. Cat(Cat(a, b), w) = Cat(a, Cat(b, w)) /\ Cat(b, w) \in Seq(Units)
      BY UnitTypes, CatFacts
    <2>8. Stream = Cat(a, Cat(b, w)) /\ Stream' = Cat(b, w)
      <3>1. b = buf'
        BY <2>5, <2>6
      <3> QED
        BY <1>1, <2>3, <2>4, <2>6, <2>7, <3>1, Zenon DEF Stream
    <2>9. Covered(Stream) /\ Flow = Upto(rtp)
      BY <1>1, <1>4 DEF FlowInv
    <2>10. /\ Len(a) > 0 /\ IsHeader(a[Len(a)])
           /\ \A j \in 1..Len(a) : IsHeader(a[j]) => j = Len(a)
      BY <2>5, <2>6
    <2>11. a \in Seq(Mute)
      BY <2>7, <2>8, <2>9, <2>10, CoveredMute
    <2>12. Frames(Stream) = Frames(Stream')
      <3>1. Frames(Cat(a, Cat(b, w))) = Cat(Frames(a), Frames(Cat(b, w)))
        BY <2>7, FramesCat
      <3>2. Cat(<<>>, Frames(Cat(b, w))) = Frames(Cat(b, w))
        BY <2>7, FramesType, CatEmpty
      <3> QED
        BY <2>8, <2>11, <3>1, <3>2, FramesNone
    <2>13. Flow' = Flow
      BY <1>1, <2>12 DEF Flow
    <2>14. resp'.code = "401" => Covered(Stream')
      <3> SUFFICES ASSUME resp'.code = "401" PROVE Covered(Stream')
        OBVIOUS
      <3>1. p[i].code # "ok"
        BY <2>5
      <3>2. \A j \in 1..Len(a) : ~(IsHeader(a[j]) /\ a[j].code = "ok")
        BY <2>5, <2>6, <2>10, <3>1
      <3> QED
        BY <2>7, <2>8, <2>9, <3>2, CoveredBehind
    <2> QED
      BY <1>1, <2>1, <2>9, <2>13, <2>14 DEF FlowInv
  <1> QED
    BY <1>3, <1>4

\* The demultiplexer is given what the stream loses.
LEMMA RxFlow ==
  ASSUME TakeRoom, Types, RoomInv, FlowInv, RxBuffered \/ RxReceives
  PROVE  FlowInv'
PROOF
  <1>1. UNCHANGED <<playing, rtp>> /\ pc \in {"ready", "streaming"} /\ pc' = "streaming"
    BY DEF RxBuffered, RxReceives
  <1>2. CASE ~playing
    BY <1>1, <1>2 DEF FlowInv
  <1>3. CASE playing
    <2>1. PICK f \in Seq(Units) : f = fed
      BY DEF Types, StreamTypes
    <2>2. PICK p \in Seq(Units) : p = buf
      BY DEF Types, BufferTypes
    <2>3. PICK w \in Seq(Units) : w = wire
      BY DEF Types, BufferTypes
    <2>4. \E a \in Seq(Units) : fed' = Cat(f, Frames(a)) /\ Stream = Cat(a, Stream')
                                /\ Stream' \in Seq(Units)
      <3>1. CASE RxBuffered
        <4> DEFINE n == AtMost(Len(buf), TakeCap)
        <4>1. n \in 0..Len(p)
          BY <2>2, RtspAssumption DEF AtMost
        <4>2. fed' = Cat(f, Frames(SubSeq(p, 1, n))) /\ buf' = SubSeq(p, n + 1, Len(p))
              /\ wire' = w
          BY <2>1, <2>2, <2>3, <3>1 DEF RxBuffered, Cat
        <4> HIDE DEF n
        <4>3. PICK a \in Seq(Units), b \in Seq(Units) :
                a = SubSeq(p, 1, n) /\ b = SubSeq(p, n + 1, Len(p)) /\ Cat(a, b) = p
          <5>1. /\ SubSeq(p, 1, n) \in Seq(Units) /\ SubSeq(p, n + 1, Len(p)) \in Seq(Units)
                /\ Cat(SubSeq(p, 1, n), SubSeq(p, n + 1, Len(p))) = p
            BY <4>1, CutFacts
          <5> QED
            BY <5>1, Zenon
        <4>4. Cat(Cat(a, b), w) = Cat(a, Cat(b, w)) /\ Cat(b, w) \in Seq(Units)
          BY UnitTypes, CatFacts
        <4>5. Stream = Cat(a, Cat(b, w)) /\ Stream' = Cat(b, w) /\ fed' = Cat(f, Frames(a))
          BY <2>2, <2>3, <4>2, <4>3, <4>4, Zenon DEF Stream
        <4> QED
          BY <4>4, <4>5, Zenon
      <3>2. CASE RxReceives
        <4>1. PICK k \in 1..Len(wire) :
                fed' = Cat(f, Frames(SubSeq(w, 1, k))) /\ wire' = SubSeq(w, k + 1, Len(w))
          BY <2>1, <2>3, <3>2 DEF RxReceives, Cat
        <4>2. k \in 0..Len(w)
          BY <2>3
        <4>3. PICK a \in Seq(Units), b \in Seq(Units) :
                a = SubSeq(w, 1, k) /\ b = SubSeq(w, k + 1, Len(w)) /\ Cat(a, b) = w
          <5>1. /\ SubSeq(w, 1, k) \in Seq(Units) /\ SubSeq(w, k + 1, Len(w)) \in Seq(Units)
                /\ Cat(SubSeq(w, 1, k), SubSeq(w, k + 1, Len(w))) = w
            BY <4>2, CutFacts
          <5> QED
            BY <5>1, Zenon
        <4>4. buf = <<>> /\ buf' = <<>>
          BY <3>2 DEF RxReceives, RoomInv
        <4>5. Cat(<<>>, w) = w /\ Cat(<<>>, b) = b
          BY CatEmpty
        <4>6. Stream = w /\ Stream' = b /\ fed' = Cat(f, Frames(a))
          BY <2>3, <4>1, <4>3, <4>4, <4>5, Zenon DEF Stream
        <4> QED
          BY <4>3, <4>6, Zenon
      <3> QED
        BY <3>1, <3>2
    <2>5. PICK a \in Seq(Units) : /\ fed' = Cat(f, Frames(a)) /\ Stream = Cat(a, Stream')
                                  /\ Stream' \in Seq(Units)
      BY <2>4
    <2>6. Frames(Stream) = Cat(Frames(a), Frames(Stream'))
      BY <2>5, FramesCat
    <2>7. Cat(Cat(f, Frames(a)), Frames(Stream')) = Cat(f, Cat(Frames(a), Frames(Stream')))
      BY <2>5, FramesType, UnitTypes, CatFacts
    <2>8. Flow' = Flow
      BY <2>1, <2>5, <2>6, <2>7, Zenon DEF Flow
    <2>9. Flow = Upto(rtp)
      BY <1>1, <1>3 DEF FlowInv
    <2> QED
      BY <1>1, <2>8, <2>9 DEF FlowInv
  <1> QED
    BY <1>2, <1>3

\* An answer is no piece of a frame; the one to PLAY begins the stream.
LEMMA AnswersFlow ==
  ASSUME Types, PlayInv, FlowInv, Answers
  PROVE  FlowInv'
PROOF
  <1>1. UNCHANGED <<pc, resp, buf, fed, rtp>>
    BY DEF Answers
  <1>2. PICK h \in Replies(asked) :
          /\ wire' = wire \o (<<h>> \o [i \in 1..AtMost(h.body, BodyCap) |-> Body])
          /\ playing' => playing \/ h.code = "ok"
    BY DEF Answers
  <1>3. PICK q \in Seq(Units) :
          /\ q = <<h>> \o [i \in 1..AtMost(h.body, BodyCap) |-> Body]
          /\ Len(q) >= 1 /\ q[1] = h /\ \A i \in 2..Len(q) : q[i] = Body
    BY AnswerUnits DEF Types
  <1>4. h \in Headers /\ IsHeader(h) /\ h \in Mute /\ Body \in Mute
    BY AnswerUnits, UnitTypes, MuteUnits DEF Types
  <1>5. q \in Seq(Mute)
    <2>1. \A i \in 1..Len(q) : i = 1 \/ i \in 2..Len(q)
      OBVIOUS
    <2>2. \A i \in 1..Len(q) : q[i] \in Mute
      BY <1>3, <1>4, <2>1
    <2> QED
      BY <2>2
  <1>6. PICK p \in Seq(Units) : p = buf
    BY DEF Types, BufferTypes
  <1>7. PICK w \in Seq(Units) : w = wire
    BY DEF Types, BufferTypes
  <1>8. wire' = Cat(w, q)
    BY <1>2, <1>3, <1>7, Zenon DEF Cat
  <1>9. Cat(Cat(p, w), q) = Cat(p, Cat(w, q)) /\ Cat(p, w) \in Seq(Units)
    BY UnitTypes, CatFacts
  <1>10. Stream = Cat(p, w) /\ Stream' = Cat(Cat(p, w), q)
    BY <1>1, <1>6, <1>7, <1>8, <1>9, Zenon DEF Stream
  <1>11. Frames(Stream') = Frames(Stream)
    <2>1. Frames(Cat(Cat(p, w), q)) = Cat(Frames(Cat(p, w)), Frames(q))
      BY <1>9, FramesCat
    <2>2. Frames(q) = <<>>
      BY <1>5, FramesNone
    <2>3. Cat(Frames(Cat(p, w)), <<>>) = Frames(Cat(p, w))
      BY <1>9, FramesType, CatEmpty
    <2> QED
      BY <1>10, <2>1, <2>2, <2>3
  <1>12. Flow' = Flow
    BY <1>1, <1>11 DEF Flow
  <1>13. CASE playing
    <2>1. Covered(Stream) => Covered(Stream')
      BY <1>9, <1>10, CoveredLonger
    <2> QED
      BY <1>1, <1>12, <1>13, <2>1 DEF FlowInv
  <1>14. CASE ~playing
    <2> SUFFICES ASSUME playing' PROVE Covered(Stream') /\ Flow' = Upto(rtp')
      BY DEF FlowInv
    <2>1. h.code = "ok"
      BY <1>2, <1>14
    <2>2. rtp = 0 /\ fed = <<>> /\ p \in Seq(Mute) /\ w \in Seq(Mute)
      BY <1>6, <1>7, <1>14 DEF PlayInv
    <2>3. Cat(p, w) \in Seq(Mute)
      BY <2>2, MuteUnits, CatFacts
    <2>4. Covered(Stream')
      <3>1. Len(q) > 0 /\ IsHeader(q[1]) /\ q[1].code = "ok"
        <4>1. Len(q) \in Nat /\ Len(q) >= 1
          <5>1. Len(q) >= 1
            BY <1>3, Zenon
          <5> QED
            BY <1>5, <5>1, LenProperties
        <4>2. q[1] = h
          BY <1>3, Zenon
        <4>3. IsHeader(q[1]) /\ q[1].code = "ok"
          BY <1>4, <2>1, <4>2, Zenon
        <4> QED
          BY <4>1, <4>3
      <3> QED
        BY <1>5, <1>10, <2>3, <3>1, CoveredAnswer
    <2>5. Frames(Stream) = <<>>
      BY <1>10, <2>3, FramesNone
    <2>6. Cat(<<>>, <<>>) = <<>>
      <3>1. <<>> \in Seq(Units)
        OBVIOUS
      <3> QED
        BY <3>1, CatEmpty
    <2>7. Upto(0) = <<>>
      <3>1. 0 \in Nat
        OBVIOUS
      <3> QED
        BY <3>1, UptoNext
    <2>8. Flow' = Upto(rtp')
      BY <1>1, <1>12, <2>2, <2>5, <2>6, <2>7 DEF Flow
    <2> QED
      BY <2>4, <2>8
  <1> QED
    BY <1>13, <1>14

\* One piece of a frame more is under way.
LEMMA StreamsFlow ==
  ASSUME Types, FlowInv, Streams \/ Babbles
  PROVE  FlowInv'
PROOF
  <1>1. CASE Babbles
    BY <1>1 DEF Babbles, streaming, FlowInv
  <1>2. CASE Streams
    <2>1. /\ UNCHANGED <<pc, resp, buf, fed>> /\ playing /\ rtp' = rtp + 1
          /\ pc \notin {"failed", "closed"} /\ wire' = AddUnit(wire, Rtp(rtp + 1))
      BY <1>2 DEF Streams, Live, AddUnit
    <2>2. PICK f \in Seq(Units) : f = fed
      BY DEF Types, StreamTypes
    <2>3. PICK p \in Seq(Units) : p = buf
      BY DEF Types, BufferTypes
    <2>4. PICK w \in Seq(Units) : w = wire
      BY DEF Types, BufferTypes
    <2>5. rtp \in Nat
      BY DEF Types, StreamTypes
    <2>6. PICK u \in Units : u = Rtp(rtp + 1) /\ IsRtp(u)
      BY <2>5, UnitTypes
    <2>7. AddUnit(Cat(p, w), u) = Cat(p, AddUnit(w, u)) /\ Cat(p, w) \in Seq(Units)
      BY CatFacts
    <2>8. Stream = Cat(p, w) /\ Stream' = AddUnit(Stream, u) /\ Stream \in Seq(Units)
      BY <2>1, <2>3, <2>4, <2>6, <2>7, Zenon DEF Stream
    <2>9. Frames(Stream') = AddUnit(Frames(Stream), u)
      BY <2>6, <2>8, FramesAdd
    <2>10. AddUnit(Cat(f, Frames(Stream)), u) = Cat(f, AddUnit(Frames(Stream), u))
      BY <2>8, FramesType, CatFacts
    <2>11. Flow' = AddUnit(Flow, u)
      BY <2>1, <2>2, <2>9, <2>10, Zenon DEF Flow
    <2>12. Flow = Upto(rtp)
      BY <2>1 DEF FlowInv
    <2>13. Flow' = Upto(rtp')
      BY <2>1, <2>5, <2>6, <2>11, <2>12, UptoNext
    <2>14. Covered(Stream) => Covered(Stream')
      BY <2>8, CoveredNext
    <2> QED
      BY <2>1, <2>13, <2>14 DEF FlowInv
  <1> QED
    BY <1>1, <1>2

\* Every step.
LEMMA NextFlow ==
  ASSUME TakeRoom, Types, MatchInv, PlayInv, RoomInv, FlowInv, [Next]_vars
  PROVE  FlowInv'
  BY QuietFlow, FillFlow, ReadFlow, RxFlow, AnswersFlow, StreamsFlow DEF Next, Client, Play

\* What the receive task finds.
LEMMA FlowIntact ==
  ASSUME Types, PlayInv, FlowInv
  PROVE  StreamIntact
PROOF
  <1> SUFFICES ASSUME pc \in {"ready", "streaming"}
               PROVE  fed \o Frames(buf \o wire) = [i \in 1..rtp |-> Rtp(i)]
    BY DEF StreamIntact
  <1>1. Flow = Upto(rtp)
    <2>1. CASE playing
      BY <2>1 DEF FlowInv
    <2>2. CASE ~playing
      <3>1. PICK p \in Seq(Mute) : p = buf
        BY <2>2 DEF PlayInv
      <3>2. PICK w \in Seq(Mute) : w = wire
        BY <2>2 DEF PlayInv
      <3>3. Cat(p, w) \in Seq(Mute)
        BY MuteUnits, CatFacts
      <3>4. Frames(Stream) = <<>>
        BY <3>1, <3>2, <3>3, FramesNone DEF Stream
      <3>5. <<>> \in Seq(Units) /\ 0 \in Nat
        OBVIOUS
      <3>6. Cat(<<>>, <<>>) = <<>> /\ Upto(0) = <<>>
        BY <3>5, CatEmpty, UptoNext
      <3>7. fed = <<>> /\ rtp = 0
        BY <2>2 DEF PlayInv
      <3> QED
        BY <3>4, <3>6, <3>7 DEF Flow
    <2> QED
      BY <2>1, <2>2
  <1> QED
    BY <1>1, Zenon DEF Flow, Stream, Cat, Upto

\* No byte of the stream is lost, doubled or read as text.
THEOREM StreamStaysIntact ==
  ASSUME TakeRoom
  PROVE  Spec => []StreamIntact
PROOF
  <1> DEFINE Inv == PlayInv /\ FlowInv
  <1>1. Init => Inv
    BY InitPlay DEF Init, FlowInv
  <1>2. Types /\ MatchInv /\ RoomInv /\ Inv /\ [Next]_vars => Inv'
    BY NextPlay, NextFlow
  <1>3. Types /\ Inv => StreamIntact
    BY FlowIntact
  <1> HIDE DEF Inv
  <1> QED
    BY <1>1, <1>2, <1>3, AlwaysTypes, AlwaysMatch, AlwaysRoom, PTL DEF Spec

-----------------------------------------------------------------------------
(* The length of a play *)

\* Two requests for each step at most, the one in hand included.
CountInv ==
  Playing => serial <= 2 * (step - 1) + attempt + (IF pc \in {"read", "body"} THEN 1 ELSE 0)

\* Every step.
LEMMA NextCount == Types /\ CountInv /\ [Next]_vars => CountInv'
PROOF
  <1> SUFFICES ASSUME Types, CountInv, [Next]_vars PROVE CountInv'
    OBVIOUS
  <1>1. step \in 1..4 /\ attempt \in 0..2 /\ serial \in Nat /\ (Playing => attempt <= 1)
    BY DEF Types, IInv, SessionInv, RequestTypes
  <1>2. CASE SendRequest
    <2>1. pc = "send" /\ pc' = "read" /\ serial' = serial + 1 /\ step' = step /\ attempt' = attempt
      BY <1>2 DEF SendRequest, send_request, auth
    <2> QED
      BY <1>1, <2>1 DEF CountInv, Playing
  <1>3. CASE Challenged
    <2>1. /\ pc = "body" /\ serial' = serial /\ step' = step
          /\ pc' = "failed" \/ (pc' = "send" /\ attempt = 0 /\ attempt' = 1)
      BY <1>3 DEF Challenged, Answered, request
    <2> QED
      BY <1>1, <2>1 DEF CountInv, Playing
  <1>4. CASE Accepted
    <2>1. /\ pc = "body" /\ serial' = serial /\ attempt' = 0
          /\ pc' = "ready" \/ (pc' = "send" /\ step' = step + 1)
      BY <1>4 DEF Accepted, Answered, request
    <2> QED
      BY <1>1, <2>1 DEF CountInv, Playing
  <1>5. CASE Reopen
    BY <1>5 DEF Reopen, CountInv
  <1>6. CASE Rejected \/ PlayFails \/ RxBuffered \/ RxReceives \/ rtsp_client_send_keepalive
               \/ Close
    <2>1. ~Playing'
      BY <1>6 DEF Rejected, PlayFails, RxBuffered, RxReceives, rtsp_client_send_keepalive, Close,
         Playing
    <2> QED
      BY <2>1 DEF CountInv
  <1>7. CASE Connect \/ conn_fill_more \/ ReadHeader \/ ReadBody \/ Answers \/ Streams \/ Babbles
               \/ UNCHANGED vars
    <2>1. serial' = serial /\ step' = step /\ attempt' = attempt
      BY <1>7 DEF Connect, conn_fill_more, ReadHeader, ReadBody, Answers, Streams, Babbles, vars,
         request, auth
    <2>2. \/ pc' = pc \/ (pc = "opened" /\ pc' = "send") \/ (pc = "read" /\ pc' = "body")
          \/ pc' = "failed"
      <3>1. CASE ReadHeader
        BY <3>1 DEF ReadHeader
      <3>2. CASE ~ReadHeader
        BY <1>7, <3>2 DEF Connect, conn_fill_more, ReadBody, Answers, Streams, Babbles, vars
      <3> QED
        BY <3>1, <3>2
    <2> QED
      BY <1>1, <2>1, <2>2 DEF CountInv, Playing
  <1> QED
    BY <1>2, <1>3, <1>4, <1>5, <1>6, <1>7 DEF Next, Client, Play

\* Whatever the camera asks for, a play sends eight requests at most: each of
\* the four once, and once more with credentials.
THEOREM PlayIsShort == Spec => [](Playing => serial <= 8)
PROOF
  <1>1. Init => CountInv
    BY DEF Init, CountInv
  <1>2. Types /\ CountInv => (Playing => serial <= 8)
    <2> SUFFICES ASSUME Types, CountInv, Playing PROVE serial <= 8
      OBVIOUS
    <2>1. step \in 1..4 /\ attempt \in 0..2 /\ serial \in Nat /\ attempt <= 1
      BY DEF Types, IInv, SessionInv, RequestTypes
    <2> QED
      BY <2>1 DEF CountInv
  <1> QED
    BY <1>1, <1>2, NextCount, AlwaysTypes, PTL DEF Spec
=============================================================================
