---------------------------- MODULE PollCqProofs ----------------------------
(***************************************************************************)
(* Completions while several threads poll, for any number of threads and   *)
(* endpoints and any sizes: each is reported to the thread that posted the *)
(* READ and once, none is lost but by a batch or a refused push, and a     *)
(* push is refused by a full ring only, or when another one was quicker.   *)
(***************************************************************************)
EXTENDS PollCq, SequenceTheorems, Lemmas

-----------------------------------------------------------------------------
(* Work request identifiers.                                               *)

LEMMA IdType ==
  ASSUME NEW wr \in Nat, NEW t \in Threads
  PROVE  WrId(wr, t) \in Nat
<1>1. NCore \in Nat /\ t \in Nat
  BY PollAssumption DEF Threads
<1>2. wr * NCore \in Nat
  BY <1>1
<1> QED BY <1>1, <1>2 DEF WrId

\* The thread and the number of a READ can be told from its identifier.
LEMMA IdParts ==
  ASSUME NEW wr \in Nat, NEW t \in Threads
  PROVE  WrThread(WrId(wr, t)) = t /\ WrOf(WrId(wr, t)) = wr
<1>0. NCore \in Nat \ {0} /\ t \in 0 .. NCore - 1
  BY PollAssumption DEF Threads
<1>1. PICK id \in Nat : id = wr * NCore + t
  BY IdType DEF WrId
<1>2. PICK q \in Int : q = id \div NCore
  BY <1>0
<1>3. PICK r \in 0 .. NCore - 1 : r = id % NCore
  <2>1. NCore \in Nat \ {0} /\ id \in Int
    BY <1>0
  <2> QED BY <2>1, ModType
<1>4. id = NCore * q + r
  BY <1>0, <1>1, <1>2, <1>3
<1>5. PICK d \in Int : d = q - wr
  OBVIOUS
<1>6. NCore * d = t - r
  <2>1. NCore * d = NCore * q - NCore * wr
    BY <1>0, <1>5
  <2>2. NCore * wr = wr * NCore
    BY <1>0
  <2> QED BY <1>0, <1>1, <1>4, <2>1, <2>2
<1>7. d = 0
  <2>1. ASSUME d >= 1 PROVE FALSE
    <3>1. NCore * d >= NCore
      BY <1>0, <2>1
    <3> QED BY <1>0, <1>6, <3>1
  <2>2. ASSUME d <= -1 PROVE FALSE
    <3>1. NCore * d <= -NCore
      BY <1>0, <2>2
    <3> QED BY <1>0, <1>6, <3>1
  <2> QED BY <2>1, <2>2
<1>8. NCore * d = 0
  BY <1>0, <1>7
<1>9. q = wr /\ r = t
  BY <1>0, <1>5, <1>6, <1>7, <1>8
<1> QED BY <1>1, <1>2, <1>3, <1>9 DEF WrId, WrThread, WrOf

LEMMA IdWhole ==
  ASSUME NEW id \in Nat
  PROVE  WrThread(id) \in Threads /\ WrOf(id) \in Nat /\ WrId(WrOf(id), WrThread(id)) = id
<1>0. NCore \in Nat \ {0}
  BY PollAssumption
<1>1. WrThread(id) \in Threads
  BY <1>0, ModType DEF WrThread, Threads
<1>2. PICK q \in Int : q = id \div NCore
  BY <1>0
<1>3. PICK r \in 0 .. NCore - 1 : r = id % NCore
  BY <1>0, ModType
<1>4. id = NCore * q + r
  BY <1>0, <1>2, <1>3
<1>5. NCore * q = q * NCore
  BY <1>0
<1>6. q \in Nat
  BY <1>0, <1>2
<1> QED BY <1>1, <1>2, <1>3, <1>4, <1>5, <1>6 DEF WrOf, WrThread, WrId

-----------------------------------------------------------------------------
(* Sequences without repetition.                                           *)

LEMMA InjectiveTail ==
  ASSUME NEW s \in Seq(Nat), IsInjective(s), s # <<>>
  PROVE  /\ IsInjective(Tail(s)) /\ ToSet(Tail(s)) = ToSet(s) \ {Head(s)}
         /\ Head(s) \in ToSet(s)
<1>0. Len(s) \in Nat /\ Len(s) > 0 /\ DOMAIN s = 1 .. Len(s)
  OBVIOUS
<1>1. /\ DOMAIN Tail(s) = 1 .. Len(s) - 1
      /\ \A k \in 1 .. Len(s) - 1 : Tail(s)[k] = s[k + 1]
      /\ Head(s) = s[1]
  BY HeadTailProperties
<1>2. \A k \in 1 .. Len(s) - 1 : k + 1 \in 1 .. Len(s)
  BY <1>0
<1>3. IsInjective(Tail(s))
  <2> SUFFICES ASSUME NEW j \in 1 .. Len(s) - 1, NEW k \in 1 .. Len(s) - 1,
                      Tail(s)[j] = Tail(s)[k]
               PROVE  j = k
    BY <1>1 DEF IsInjective
  <2>1. s[j + 1] = s[k + 1]
    BY <1>1
  <2>2. j + 1 = k + 1
    BY <1>0, <1>2, <2>1 DEF IsInjective
  <2> QED BY <2>2
<1>4. ASSUME NEW x \in ToSet(Tail(s)) PROVE x \in ToSet(s) /\ x # Head(s)
  <2>1. PICK k \in 1 .. Len(s) - 1 : x = s[k + 1]
    BY <1>1 DEF ToSet
  <2>2. k + 1 \in DOMAIN s /\ 1 \in DOMAIN s /\ k + 1 # 1
    BY <1>0
  <2> QED BY <1>1, <2>1, <2>2 DEF ToSet, IsInjective
<1>5. ASSUME NEW x \in ToSet(s), x # Head(s) PROVE x \in ToSet(Tail(s))
  <2>1. PICK k \in 1 .. Len(s) : x = s[k]
    BY <1>0 DEF ToSet
  <2>2. k - 1 \in 1 .. Len(s) - 1 /\ (k - 1) + 1 = k
    BY <1>0, <1>1, <1>5, <2>1
  <2>3. x = Tail(s)[k - 1]
    BY <1>1, <2>1, <2>2
  <2> QED BY <1>1, <2>2, <2>3 DEF ToSet
<1>6. Head(s) \in ToSet(s)
  BY <1>0, <1>1 DEF ToSet
<1> QED BY <1>3, <1>4, <1>5, <1>6

LEMMA InjectiveAppend ==
  ASSUME NEW s \in Seq(Nat), NEW id \in Nat, IsInjective(s), id \notin ToSet(s)
  PROVE  IsInjective(Append(s, id)) /\ ToSet(Append(s, id)) = ToSet(s) \cup {id}
<1>1. /\ Len(s) \in Nat /\ DOMAIN s = 1 .. Len(s)
      /\ DOMAIN Append(s, id) = 1 .. Len(s) + 1
      /\ \A k \in 1 .. Len(s) : Append(s, id)[k] = s[k]
      /\ Append(s, id)[Len(s) + 1] = id
  OBVIOUS
<1>2. \A k \in 1 .. Len(s) + 1 : k \in 1 .. Len(s) \/ k = Len(s) + 1
  BY <1>1
<1>3. \A k \in 1 .. Len(s) : s[k] # id
  BY <1>1 DEF ToSet
<1>4. IsInjective(Append(s, id))
  BY <1>1, <1>2, <1>3 DEF IsInjective
<1>5. ToSet(Append(s, id)) = ToSet(s) \cup {id}
  <2>1. \A k \in 1 .. Len(s) : k \in 1 .. Len(s) + 1
    BY <1>1
  <2>2. Len(s) + 1 \in 1 .. Len(s) + 1
    BY <1>1
  <2> QED BY <1>1, <1>2, <2>1, <2>2 DEF ToSet
<1> QED BY <1>4, <1>5

\* A sequence that is cut in two.
LEMMA InjectiveCut ==
  ASSUME NEW s \in Seq(Nat), IsInjective(s), NEW n \in 0 .. Len(s)
  PROVE  LET a == SubSeq(s, 1, n)
             b == SubSeq(s, n + 1, Len(s))
         IN  /\ a \in Seq(Nat) /\ IsInjective(a) /\ Len(a) = n
             /\ b \in Seq(Nat) /\ IsInjective(b)
             /\ ToSet(a) \cap ToSet(b) = {}
             /\ ToSet(a) \cup ToSet(b) = ToSet(s)
<1> DEFINE a == SubSeq(s, 1, n)
           b == SubSeq(s, n + 1, Len(s))
<1>0. /\ Len(s) \in Nat /\ DOMAIN s = 1 .. Len(s)
      /\ n \in Nat /\ n <= Len(s)
  OBVIOUS
<1>1. \A k \in 1 .. Len(s) : s[k] \in Nat
  OBVIOUS
<1>2. a \in Seq(Nat) /\ Len(a) = n /\ \A k \in 1 .. n : a[k] = s[k]
  <2>1. \A k \in 1 .. n : s[k] \in Nat
    BY <1>0, <1>1
  <2> QED BY <1>0, <2>1, SubSeqProperties
<1>3. /\ b \in Seq(Nat) /\ Len(b) = Len(s) - n
      /\ \A k \in 1 .. Len(s) - n : b[k] = s[k + n]
  <2>1. \A k \in n + 1 .. Len(s) : s[k] \in Nat
    BY <1>0, <1>1
  <2>2. /\ b \in Seq(Nat) /\ Len(b) = IF n + 1 <= Len(s) THEN Len(s) - (n + 1) + 1 ELSE 0
        /\ \A k \in 1 .. Len(s) - (n + 1) + 1 : b[k] = s[n + 1 + k - 1]
    BY <1>0, <2>1, SubSeqProperties
  <2>3. \A k \in 1 .. Len(s) - n : k \in 1 .. Len(s) - (n + 1) + 1 /\ n + 1 + k - 1 = k + n
    BY <1>0
  <2> HIDE DEF b
  <2>4. Len(b) = Len(s) - n
    <3>1. CASE n + 1 <= Len(s)
      <4>1. Len(s) - (n + 1) + 1 = Len(s) - n
        BY <1>0
      <4> QED BY <2>2, <3>1, <4>1
    <3>2. CASE ~(n + 1 <= Len(s))
      <4>1. Len(s) - n = 0
        BY <3>2
      <4> QED BY <2>2, <3>2, <4>1
    <3> QED BY <3>1, <3>2
  <2>5. ASSUME NEW k \in 1 .. Len(s) - n PROVE b[k] = s[k + n]
    <3>1. b[k] = s[n + 1 + k - 1]
      BY <2>2, <2>3
    <3> QED BY <2>3, <3>1
  <2> QED BY <2>2, <2>4, <2>5
<1> HIDE DEF a, b
<1>4. DOMAIN a = 1 .. n /\ DOMAIN b = 1 .. Len(s) - n
  BY <1>2, <1>3
<1>5. /\ \A k \in 1 .. n : k \in 1 .. Len(s)
      /\ \A k \in 1 .. Len(s) - n : k + n \in 1 .. Len(s) /\ k + n > n
  BY <1>0
<1>6. IsInjective(a)
  BY <1>0, <1>2, <1>4, <1>5 DEF IsInjective
<1>7. IsInjective(b)
  <2> SUFFICES ASSUME NEW j \in 1 .. Len(s) - n, NEW k \in 1 .. Len(s) - n, b[j] = b[k]
               PROVE  j = k
    BY <1>4 DEF IsInjective
  <2>1. s[j + n] = s[k + n]
    BY <1>3
  <2>2. j + n = k + n
    BY <1>0, <1>5, <2>1 DEF IsInjective
  <2> QED BY <1>0, <2>2
<1>8. ASSUME NEW x \in ToSet(a), x \in ToSet(b) PROVE FALSE
  <2>1. PICK j \in 1 .. n : x = s[j]
    BY <1>2, <1>4 DEF ToSet
  <2>2. PICK k \in 1 .. Len(s) - n : x = s[k + n]
    BY <1>3, <1>4, <1>8 DEF ToSet
  <2>3. j = k + n
    BY <1>0, <1>5, <2>1, <2>2 DEF IsInjective
  <2> QED BY <1>0, <2>3
<1>9. ASSUME NEW x \in ToSet(s) PROVE x \in ToSet(a) \cup ToSet(b)
  <2>1. PICK k \in 1 .. Len(s) : x = s[k]
    BY <1>0 DEF ToSet
  <2>2. CASE k <= n
    <3>1. k \in 1 .. n /\ x = a[k]
      BY <1>2, <2>1, <2>2
    <3> QED BY <1>4, <3>1 DEF ToSet
  <2>3. CASE k > n
    <3>1. k - n \in 1 .. Len(s) - n /\ (k - n) + n = k
      BY <1>0, <2>3
    <3>2. x = b[k - n]
      BY <1>3, <2>1, <3>1
    <3> QED BY <1>4, <3>1, <3>2 DEF ToSet
  <2> QED BY <1>0, <2>2, <2>3
<1>10. ToSet(a) \subseteq ToSet(s) /\ ToSet(b) \subseteq ToSet(s)
  <2>1. \A k \in 1 .. n : a[k] \in ToSet(s)
    BY <1>0, <1>2, <1>5 DEF ToSet
  <2>2. \A k \in 1 .. Len(s) - n : b[k] \in ToSet(s)
    <3>1. \A k \in 1 .. Len(s) : s[k] \in ToSet(s)
      BY <1>0 DEF ToSet
    <3> QED BY <1>3, <1>5, <3>1
  <2> QED BY <1>4, <2>1, <2>2 DEF ToSet
<1>11. ToSet(a) \cap ToSet(b) = {} /\ ToSet(a) \cup ToSet(b) = ToSet(s)
  BY <1>8, <1>9, <1>10
<1> QED BY <1>2, <1>3, <1>6, <1>7, <1>11 DEF a, b

-----------------------------------------------------------------------------
(* The places of a completion: on its way to endpoint e or in its queue,   *)
(* in the hand of a thread, in a thread's ring, or told to a thread.       *)

Places == ({"sq", "cq"} \X Eps) \cup ({"hand", "ring", "told"} \X Threads)

\* F[p] are the identifiers at place p: none is at two positions.
Apart(F) ==
  /\ \A p \in Places : IsInjective(F[p])
  /\ \A p, q \in Places : p # q => ToSet(F[p]) \cap ToSet(F[q]) = {}

All(F) == UNION {ToSet(F[p]) : p \in Places}

SamePlaces(F, G, moved) == \A p \in Places \ moved : G[p] = F[p]

\* A READ is posted.
LEMMA AddLast ==
  ASSUME NEW F \in [Places -> Seq(Nat)], NEW G, NEW p \in Places, NEW id \in Nat,
         Apart(F), id \notin All(F),
         SamePlaces(F, G, {p}), G[p] = Append(F[p], id)
  PROVE  Apart(G) /\ All(G) = All(F) \cup {id}
<1>1. IsInjective(G[p]) /\ ToSet(G[p]) = ToSet(F[p]) \cup {id}
  BY InjectiveAppend DEF Apart, All
<1>2. \A q \in Places : q # p => G[q] = F[q] /\ id \notin ToSet(F[q])
  BY DEF SamePlaces, All
<1>3. Apart(G)
  BY <1>1, <1>2, ZenonT(60) DEF Apart
<1> QED BY <1>1, <1>2, <1>3 DEF All

\* The first of one place becomes the last of another.
LEMMA MoveHead ==
  ASSUME NEW F \in [Places -> Seq(Nat)], NEW G, NEW p \in Places, NEW q \in Places, p # q,
         Apart(F), F[p] # <<>>,
         SamePlaces(F, G, {p, q}), G[p] = Tail(F[p]), G[q] = Append(F[q], Head(F[p]))
  PROVE  Apart(G) /\ All(G) = All(F)
<1>1. /\ IsInjective(G[p]) /\ ToSet(G[p]) = ToSet(F[p]) \ {Head(F[p])}
      /\ Head(F[p]) \in ToSet(F[p]) /\ Head(F[p]) \in Nat
  BY InjectiveTail DEF Apart
<1>2. \A r \in Places : r # p => Head(F[p]) \notin ToSet(F[r])
  BY <1>1 DEF Apart
<1>3. IsInjective(G[q]) /\ ToSet(G[q]) = ToSet(F[q]) \cup {Head(F[p])}
  BY <1>1, <1>2, InjectiveAppend DEF Apart
<1>4. \A r \in Places : r # p /\ r # q => G[r] = F[r]
  BY DEF SamePlaces
<1>5. \A r \in Places : IsInjective(G[r])
  BY <1>1, <1>3, <1>4 DEF Apart
<1>6. \A r, s \in Places : r # s => ToSet(G[r]) \cap ToSet(G[s]) = {}
  <2>1. ASSUME NEW r \in Places, NEW s \in Places, NEW id \in ToSet(G[r]),
               id \in ToSet(G[s]), id # Head(F[p])
        PROVE  r = s
    <3>1. \A x \in Places : id \in ToSet(G[x]) => id \in ToSet(F[x])
      <4>1. TAKE x \in Places
      <4>2. CASE x = p
        BY <1>1, <4>2
      <4>3. CASE x = q
        BY <1>3, <2>1, <4>3
      <4>4. CASE x # p /\ x # q
        BY <1>4, <4>4
      <4> QED BY <4>2, <4>3, <4>4
    <3> QED BY <2>1, <3>1 DEF Apart
  <2>2. ASSUME NEW r \in Places, Head(F[p]) \in ToSet(G[r])
        PROVE  r = q
    BY <1>1, <1>2, <1>4, <2>2
  <2> QED BY <2>1, <2>2
<1>7. All(G) = All(F)
  BY <1>1, <1>3, <1>4 DEF All
<1> QED BY <1>5, <1>6, <1>7 DEF Apart

\* The first n of one place go to an empty one.
LEMMA MoveFirst ==
  ASSUME NEW F \in [Places -> Seq(Nat)], NEW G, NEW p \in Places, NEW q \in Places, p # q,
         NEW n \in 0 .. Len(F[p]), Apart(F), F[q] = <<>>, SamePlaces(F, G, {p, q}),
         G[q] = SubSeq(F[p], 1, n), G[p] = SubSeq(F[p], n + 1, Len(F[p]))
  PROVE  Apart(G) /\ All(G) = All(F)
<1>1. /\ IsInjective(G[p]) /\ IsInjective(G[q])
      /\ ToSet(G[q]) \cap ToSet(G[p]) = {} /\ ToSet(G[q]) \cup ToSet(G[p]) = ToSet(F[p])
  BY InjectiveCut DEF Apart
<1>2. ToSet(F[q]) = {}
  BY DEF ToSet
<1>4. \A r \in Places : r # p /\ r # q => G[r] = F[r]
  BY DEF SamePlaces
<1>5. \A r \in Places : IsInjective(G[r])
  BY <1>1, <1>4 DEF Apart
<1>6. \A r, s \in Places : r # s => ToSet(G[r]) \cap ToSet(G[s]) = {}
  BY <1>1, <1>4 DEF Apart
<1>7. All(G) = All(F)
  BY <1>1, <1>2, <1>4 DEF All
<1> QED BY <1>5, <1>6, <1>7 DEF Apart

\* Some of one place are dropped.
LEMMA Drop ==
  ASSUME NEW F, NEW G, NEW p \in Places, Apart(F), SamePlaces(F, G, {p}),
         IsInjective(G[p]), ToSet(G[p]) \subseteq ToSet(F[p])
  PROVE  Apart(G) /\ All(G) \subseteq All(F)
<1>1. \A r \in Places : r # p => G[r] = F[r]
  BY DEF SamePlaces
<1>2. Apart(G)
  BY <1>1 DEF Apart
<1> QED BY <1>1, <1>2 DEF All

\* Nothing moves.
LEMMA Rest ==
  ASSUME NEW F, NEW G, Apart(F), SamePlaces(F, G, {})
  PROVE  Apart(G) /\ All(G) = All(F)
<1>1. \A r \in Places : G[r] = F[r]
  BY DEF SamePlaces
<1> QED BY <1>1 DEF Apart, All

-----------------------------------------------------------------------------
(* What is where.                                                          *)

\* What a thread has taken from a queue and not looked at; a ring and the
\* answers of poll_cq() hold the number of a READ without its thread.
Hand(t) == SubSeq(wcs[t], i[t] + 1, Len(wcs[t]))
Ids(s, t) == [k \in 1 .. Len(s) |-> WrId(s[k], t)]

Held ==
  [p \in Places |->
     IF p[1] = "sq" THEN sq[p[2]]
     ELSE IF p[1] = "cq" THEN cq[p[2]]
     ELSE IF p[1] = "hand" THEN Hand(p[2])
     ELSE IF p[1] = "ring" THEN Ids(ring[p[2]], p[2])
     ELSE Ids(cqes[p[2]], p[2])]

HeldBy ==
  /\ \A e \in Eps : Held[<<"sq", e>>] = sq[e] /\ Held[<<"cq", e>>] = cq[e]
  /\ \A t \in Threads :
       /\ Held[<<"hand", t>>] = Hand(t)
       /\ Held[<<"ring", t>>] = Ids(ring[t], t)
       /\ Held[<<"told", t>>] = Ids(cqes[t], t)

LEMMA PlacesAre ==
  /\ \A e \in Eps : <<"sq", e>> \in Places /\ <<"cq", e>> \in Places
  /\ \A t \in Threads :
       <<"hand", t>> \in Places /\ <<"ring", t>> \in Places /\ <<"told", t>> \in Places
BY DEF Places

LEMMA PlaceCases ==
  ASSUME NEW p \in Places
  PROVE  \/ \E e \in Eps : p = <<"sq", e>> \/ p = <<"cq", e>>
         \/ \E t \in Threads : p = <<"hand", t>> \/ p = <<"ring", t>> \/ p = <<"told", t>>
BY DEF Places

LEMMA HeldIs == HeldBy /\ HeldBy'
<1>1. HeldBy
  BY PlacesAre DEF HeldBy, Held
<1>2. HeldBy'
  BY PlacesAre DEF HeldBy, Held
<1> QED BY <1>1, <1>2

LEMMA SameBut ==
  ASSUME NEW moved,
         \A e \in Eps : /\ <<"sq", e>> \in moved \/ sq'[e] = sq[e]
                        /\ <<"cq", e>> \in moved \/ cq'[e] = cq[e],
         \A t \in Threads : /\ <<"hand", t>> \in moved \/ Hand(t)' = Hand(t)
                            /\ <<"ring", t>> \in moved \/ ring'[t] = ring[t]
                            /\ <<"told", t>> \in moved \/ cqes'[t] = cqes[t]
  PROVE  SamePlaces(Held, Held', moved)
<1> SUFFICES ASSUME NEW p \in Places, p \notin moved
             PROVE  Held'[p] = Held[p]
  BY DEF SamePlaces
<1>1. ASSUME NEW e \in Eps, p = <<"sq", e>> \/ p = <<"cq", e>>
      PROVE  Held'[p] = Held[p]
  <2>1. /\ Held[<<"sq", e>>] = sq[e] /\ Held'[<<"sq", e>>] = sq'[e]
        /\ Held[<<"cq", e>>] = cq[e] /\ Held'[<<"cq", e>>] = cq'[e]
    BY HeldIs DEF HeldBy
  <2>2. p = <<"sq", e>> => sq'[e] = sq[e]
    OBVIOUS
  <2>3. p = <<"cq", e>> => cq'[e] = cq[e]
    OBVIOUS
  <2> QED BY <1>1, <2>1, <2>2, <2>3
<1>2. ASSUME NEW t \in Threads, p = <<"hand", t>>
      PROVE  Held'[p] = Held[p]
  <2>1. Held[p] = Hand(t) /\ Held'[p] = Hand(t)'
    BY <1>2, HeldIs DEF HeldBy
  <2>2. Hand(t)' = Hand(t)
    BY <1>2
  <2> QED BY <2>1, <2>2
<1>3. ASSUME NEW t \in Threads, p = <<"ring", t>>
      PROVE  Held'[p] = Held[p]
  <2>1. Held[p] = Ids(ring[t], t) /\ Held'[p] = Ids(ring'[t], t)
    BY <1>3, HeldIs DEF HeldBy
  <2>2. ring'[t] = ring[t]
    BY <1>3
  <2> QED BY <2>1, <2>2
<1>4. ASSUME NEW t \in Threads, p = <<"told", t>>
      PROVE  Held'[p] = Held[p]
  <2>1. Held[p] = Ids(cqes[t], t) /\ Held'[p] = Ids(cqes'[t], t)
    BY <1>4, HeldIs DEF HeldBy
  <2>2. cqes'[t] = cqes[t]
    BY <1>4
  <2> QED BY <2>1, <2>2
<1> QED BY <1>1, <1>2, <1>3, <1>4, PlaceCases

LEMMA IdsType ==
  ASSUME NEW s \in Seq(Nat), NEW t \in Threads
  PROVE  Ids(s, t) \in Seq(Nat) /\ Len(Ids(s, t)) = Len(s)
<1>1. \A k \in 1 .. Len(s) : WrId(s[k], t) \in Nat
  BY IdType
<1> QED BY <1>1 DEF Ids

LEMMA IdsTail ==
  ASSUME NEW s \in Seq(Nat), NEW t \in Threads, s # <<>>
  PROVE  /\ Ids(s, t) # <<>> /\ Head(Ids(s, t)) = WrId(Head(s), t)
         /\ Ids(Tail(s), t) = Tail(Ids(s, t))
<1>1. /\ Ids(s, t) \in Seq(Nat) /\ Len(Ids(s, t)) = Len(s)
      /\ Len(s) \in Nat /\ Len(s) > 0
  BY IdsType
<1>2. /\ Tail(s) \in Seq(Nat) /\ Len(Tail(s)) = Len(s) - 1
      /\ \A k \in 1 .. Len(s) - 1 : Tail(s)[k] = s[k + 1]
      /\ Head(s) = s[1]
  BY HeadTailProperties
<1>3. /\ Tail(Ids(s, t)) \in Seq(Nat) /\ Len(Tail(Ids(s, t))) = Len(s) - 1
      /\ \A k \in 1 .. Len(s) - 1 : Tail(Ids(s, t))[k] = Ids(s, t)[k + 1]
  BY <1>1, HeadTailProperties
<1>4. Ids(Tail(s), t) \in Seq(Nat) /\ Len(Ids(Tail(s), t)) = Len(s) - 1
  BY <1>2, IdsType
<1>5. \A k \in 1 .. Len(s) - 1 : Ids(Tail(s), t)[k] = Tail(Ids(s, t))[k]
  <2>1. TAKE k \in 1 .. Len(s) - 1
  <2>2. k + 1 \in 1 .. Len(s) /\ k \in 1 .. Len(Tail(s))
    BY <1>1, <1>2
  <2>3. Ids(Tail(s), t)[k] = WrId(Tail(s)[k], t) /\ Ids(s, t)[k + 1] = WrId(s[k + 1], t)
    BY <2>2 DEF Ids
  <2> QED BY <1>2, <1>3, <2>3
<1>6. Ids(Tail(s), t) = Tail(Ids(s, t))
  BY <1>3, <1>4, <1>5, SeqEqual
<1>7. Ids(s, t) # <<>>
  BY <1>1
<1>8. Head(Ids(s, t)) = WrId(Head(s), t)
  BY <1>1, <1>2 DEF Ids
<1> QED BY <1>6, <1>7, <1>8

LEMMA IdsAppend ==
  ASSUME NEW s \in Seq(Nat), NEW t \in Threads, NEW wr \in Nat
  PROVE  Ids(Append(s, wr), t) = Append(Ids(s, t), WrId(wr, t))
<1>1. /\ Ids(s, t) \in Seq(Nat) /\ Len(Ids(s, t)) = Len(s) /\ Len(s) \in Nat
      /\ WrId(wr, t) \in Nat
  BY IdsType, IdType
<1>2. /\ Append(s, wr) \in Seq(Nat) /\ Len(Append(s, wr)) = Len(s) + 1
      /\ \A k \in 1 .. Len(s) : Append(s, wr)[k] = s[k]
      /\ Append(s, wr)[Len(s) + 1] = wr
  OBVIOUS
<1>3. Ids(Append(s, wr), t) \in Seq(Nat) /\ Len(Ids(Append(s, wr), t)) = Len(s) + 1
  BY <1>2, IdsType
<1>4. /\ Append(Ids(s, t), WrId(wr, t)) \in Seq(Nat)
      /\ Len(Append(Ids(s, t), WrId(wr, t))) = Len(s) + 1
      /\ \A k \in 1 .. Len(s) : Append(Ids(s, t), WrId(wr, t))[k] = Ids(s, t)[k]
      /\ Append(Ids(s, t), WrId(wr, t))[Len(s) + 1] = WrId(wr, t)
  BY <1>1
<1>5. \A k \in 1 .. Len(s) + 1 :
        Ids(Append(s, wr), t)[k] = Append(Ids(s, t), WrId(wr, t))[k]
  <2>1. TAKE k \in 1 .. Len(s) + 1
  <2>2. Ids(Append(s, wr), t)[k] = WrId(Append(s, wr)[k], t)
    BY <1>2 DEF Ids
  <2>3. CASE k = Len(s) + 1
    BY <1>2, <1>4, <2>2, <2>3
  <2>4. CASE k # Len(s) + 1
    <3>1. k \in 1 .. Len(s)
      BY <1>1, <2>4
    <3>2. Ids(s, t)[k] = WrId(s[k], t)
      BY <3>1 DEF Ids
    <3> QED BY <1>2, <1>4, <2>2, <3>1, <3>2
  <2> QED BY <2>3, <2>4
<1> QED BY <1>3, <1>4, <1>5, SeqEqual

-----------------------------------------------------------------------------
(* The inductive invariant.                                                *)

Outside == {"idle", "poll"}
PushLabels == {"test", "swap", "publish"}

Types ==
  /\ posted \in [Threads -> Nat]
  /\ sq \in [Eps -> Seq(Nat)] /\ cq \in [Eps -> Seq(Nat)]
  /\ ring \in [Threads -> Seq(Nat)] /\ cqes \in [Threads -> Seq(Nat)]
  /\ tail \in [Threads -> Nat] /\ at \in [Threads -> Nat]
  /\ polling \in [Threads -> Eps]
  /\ pc \in [Threads -> Outside \cup {"loop"} \cup PushLabels]
  /\ wcs \in [Threads -> Seq(Nat)]
  /\ i \in [Threads -> Nat] /\ ret \in [Threads -> Int]
  /\ lossy \in BOOLEAN
  /\ \A t \in Threads : i[t] <= Len(wcs[t]) /\ ret[t] <= Len(wcs[t])

\* Outside the loop a thread has nothing in its hand, inside push() it has.
HandEmpty == \A t \in Threads : pc[t] \in Outside => wcs[t] = <<>>
InPush == \A t \in Threads : pc[t] \in PushLabels => i[t] < ret[t]

\* While batches have one completion, the loop gets to it.
HandKept ==
  lossy \/ \A t \in Threads :
             i[t] < Len(wcs[t]) => i[t] = 0 /\ Len(wcs[t]) = 1 /\ ret[t] = 1

\* The READs that have been posted are held, at one position each, unless
\* one is lost.
Issued == {id \in Nat : WrOf(id) < posted[WrThread(id)]}

EachHeld ==
  /\ Apart(Held)
  /\ All(Held) \subseteq Issued
  /\ lossy \/ Issued \subseteq All(Held)

PollInv == Types /\ HandEmpty /\ InPush /\ HandKept /\ EachHeld

LEMMA HeldType == Types => Held \in [Places -> Seq(Nat)]
<1> SUFFICES ASSUME Types, NEW p \in Places
             PROVE  Held[p] \in Seq(Nat)
  BY DEF Held
<1>1. ASSUME NEW e \in Eps, p = <<"sq", e>> \/ p = <<"cq", e>>
      PROVE  Held[p] \in Seq(Nat)
  <2>1. sq[e] \in Seq(Nat) /\ cq[e] \in Seq(Nat)
    BY DEF Types
  <2>2. Held[p] = sq[e] \/ Held[p] = cq[e]
    BY <1>1, HeldIs DEF HeldBy
  <2> QED BY <2>1, <2>2
<1>2. ASSUME NEW t \in Threads, p = <<"hand", t>>
      PROVE  Held[p] \in Seq(Nat)
  <2>1. wcs[t] \in Seq(Nat) /\ i[t] \in Nat
    BY DEF Types
  <2>2. Hand(t) \in Seq(Nat)
    BY <2>1 DEF Hand
  <2> QED BY <1>2, <2>2, HeldIs DEF HeldBy
<1>3. ASSUME NEW t \in Threads, p = <<"ring", t>> \/ p = <<"told", t>>
      PROVE  Held[p] \in Seq(Nat)
  <2>1. Ids(ring[t], t) \in Seq(Nat) /\ Ids(cqes[t], t) \in Seq(Nat)
    BY IdsType DEF Types
  <2> QED BY <1>3, <2>1, HeldIs DEF HeldBy
<1> QED BY <1>1, <1>2, <1>3, PlaceCases

LEMMA InitInv == Init => PollInv
<1> SUFFICES ASSUME Init PROVE PollInv
  OBVIOUS
<1>1. 0 \in Eps /\ NCore \in Nat
  BY PollAssumption DEF Eps
<1>2. Types
  <2>1. /\ posted \in [Threads -> Nat] /\ i \in [Threads -> Nat] /\ ret \in [Threads -> Int]
        /\ polling \in [Threads -> Eps] /\ pc \in [Threads -> Outside]
        /\ tail \in [Threads -> Nat] /\ at \in [Threads -> Nat]
    BY <1>1 DEF Init, Outside
  <2>2. /\ sq \in [Eps -> Seq(Nat)] /\ cq \in [Eps -> Seq(Nat)]
        /\ ring \in [Threads -> Seq(Nat)] /\ cqes \in [Threads -> Seq(Nat)]
        /\ wcs \in [Threads -> Seq(Nat)]
    BY DEF Init
  <2>3. \A t \in Threads : i[t] <= Len(wcs[t]) /\ ret[t] <= Len(wcs[t])
    BY DEF Init
  <2>4. lossy \in BOOLEAN
    BY DEF Init
  <2> QED BY <2>1, <2>2, <2>3, <2>4 DEF Types
<1>3. HandEmpty /\ InPush /\ HandKept
  BY DEF Init, HandEmpty, InPush, PushLabels, HandKept
<1>4. \A p \in Places : Held[p] = <<>>
  <2>1. \A t \in Threads : Hand(t) = <<>> /\ Ids(ring[t], t) = <<>> /\ Ids(cqes[t], t) = <<>>
    BY DEF Init, Hand, Ids
  <2>2. \A e \in Eps : sq[e] = <<>> /\ cq[e] = <<>>
    BY DEF Init
  <2>3. ASSUME NEW p \in Places PROVE Held[p] = <<>>
    <3>1. ASSUME NEW e \in Eps, p = <<"sq", e>> \/ p = <<"cq", e>> PROVE Held[p] = <<>>
      BY <2>2, <3>1, HeldIs DEF HeldBy
    <3>2. ASSUME NEW t \in Threads, p = <<"hand", t>> PROVE Held[p] = <<>>
      BY <2>1, <3>2, HeldIs DEF HeldBy
    <3>3. ASSUME NEW t \in Threads, p = <<"ring", t>> \/ p = <<"told", t>>
          PROVE  Held[p] = <<>>
      BY <2>1, <3>3, HeldIs DEF HeldBy
    <3> QED BY <3>1, <3>2, <3>3, PlaceCases
  <2> QED BY <2>3
<1>5. \A p \in Places : IsInjective(Held[p]) /\ ToSet(Held[p]) = {}
  BY <1>4 DEF IsInjective, ToSet
<1>6. Apart(Held) /\ All(Held) = {}
  BY <1>5 DEF Apart, All
<1>7. Issued = {}
  BY IdWhole DEF Init, Issued
<1> QED BY <1>2, <1>3, <1>6, <1>7 DEF PollInv, EachHeld

\* A step that moves completions from place to place.
LEMMA StillHeld ==
  ASSUME EachHeld, Apart(Held'), All(Held') = All(Held), UNCHANGED posted, lossy => lossy',
         lossy \in BOOLEAN, lossy' \in BOOLEAN
  PROVE  EachHeld'
BY DEF EachHeld, Issued

LEMMA PostReadStep ==
  ASSUME PollInv, NEW t \in Threads, NEW e \in Eps, PostRead(t, e)
  PROVE  PollInv'
<1> USE DEF PollInv, callVars
<1> DEFINE id == WrId(posted[t], t)
<1>0. posted[t] \in Nat /\ id \in Nat /\ WrThread(id) = t /\ WrOf(id) = posted[t]
  BY IdType, IdParts DEF Types
<1>1. /\ sq' = [sq EXCEPT ![e] = Append(@, id)] /\ posted' = [posted EXCEPT ![t] = @ + 1]
      /\ UNCHANGED <<cq, ring, tail, polling, pc, wcs, i, ret, at, cqes, lossy>>
  BY DEF PostRead
<1> HIDE DEF id
<1>2. Types' /\ HandEmpty' /\ InPush' /\ HandKept'
  <2>1. sq' \in [Eps -> Seq(Nat)] /\ posted' \in [Threads -> Nat]
    BY <1>0, <1>1 DEF Types
  <2>2. Types'
    BY <1>1, <2>1 DEF Types
  <2> QED BY <1>1, <2>2 DEF HandEmpty, InPush, HandKept
<1>3. SamePlaces(Held, Held', {<<"sq", e>>})
  BY <1>1, SameBut DEF Types, Hand
<1>4. Held'[<<"sq", e>>] = Append(Held[<<"sq", e>>], id)
  BY <1>1, HeldIs DEF HeldBy, Types
<1>5. id \notin Issued
  BY <1>0 DEF Issued
<1>6. Apart(Held') /\ All(Held') = All(Held) \cup {id}
  <2>1. id \notin All(Held)
    BY <1>5 DEF EachHeld
  <2> QED BY <1>0, <1>3, <1>4, <2>1, AddLast, HeldType, PlacesAre DEF EachHeld
<1>7. Issued' = Issued \cup {id}
  <2>1. ASSUME NEW x \in Nat
        PROVE  WrOf(x) < posted'[WrThread(x)] <=> WrOf(x) < posted[WrThread(x)] \/ x = id
    <3>1. WrThread(x) \in Threads /\ WrOf(x) \in Nat /\ WrId(WrOf(x), WrThread(x)) = x
      BY IdWhole
    <3>2. CASE WrThread(x) # t
      BY <1>0, <1>1, <3>1, <3>2 DEF Types
    <3>3. CASE WrThread(x) = t
      <4>1. posted'[t] = posted[t] + 1
        BY <1>1 DEF Types
      <4>2. WrOf(x) = posted[t] => x = id
        BY <3>1, <3>3 DEF id
      <4> QED BY <1>0, <3>1, <3>3, <4>1, <4>2
    <3> QED BY <3>2, <3>3
  <2> QED BY <1>0, <2>1 DEF Issued
<1>8. EachHeld'
  BY <1>1, <1>6, <1>7 DEF EachHeld
<1> QED BY <1>2, <1>8

LEMMA CompleteStep ==
  ASSUME PollInv, NEW e \in Eps, Complete(e)
  PROVE  PollInv'
<1> USE DEF PollInv, callVars
<1>1. /\ sq[e] # <<>>
      /\ cq' = [cq EXCEPT ![e] = Append(@, Head(sq[e]))] /\ sq' = [sq EXCEPT ![e] = Tail(@)]
      /\ UNCHANGED <<posted, ring, tail, polling, pc, wcs, i, ret, at, cqes, lossy>>
  BY DEF Complete
<1>2. Types'
  <2>1. Head(sq[e]) \in Nat /\ Tail(sq[e]) \in Seq(Nat)
    BY <1>1, HeadTailProperties DEF Types
  <2> QED BY <1>1, <2>1 DEF Types
<1>3. HandEmpty' /\ InPush' /\ HandKept'
  BY <1>1 DEF HandEmpty, InPush, HandKept
<1>4. SamePlaces(Held, Held', {<<"sq", e>>, <<"cq", e>>})
  BY <1>1, SameBut DEF Types, Hand
<1>5. /\ Held[<<"sq", e>>] # <<>>
      /\ Held'[<<"sq", e>>] = Tail(Held[<<"sq", e>>])
      /\ Held'[<<"cq", e>>] = Append(Held[<<"cq", e>>], Head(Held[<<"sq", e>>]))
  BY <1>1, HeldIs DEF HeldBy, Types
<1>6. Apart(Held') /\ All(Held') = All(Held)
  <2>1. <<"sq", e>> # <<"cq", e>>
    OBVIOUS
  <2> QED BY <1>4, <1>5, <2>1, MoveHead, HeldType, PlacesAre DEF EachHeld
<1>7. EachHeld'
  BY <1>1, <1>2, <1>6, StillHeld DEF Types
<1> QED BY <1>2, <1>3, <1>7

\* pop() of a thread's ring.
LEMMA PopRingStep ==
  ASSUME NEW t \in Threads, PopRing(t), ring \in [Threads -> Seq(Nat)],
         cqes \in [Threads -> Seq(Nat)]
  PROVE  /\ Ids(ring[t], t) # <<>> /\ Ids(ring'[t], t) = Tail(Ids(ring[t], t))
         /\ Ids(cqes'[t], t) = Append(Ids(cqes[t], t), Head(Ids(ring[t], t)))
         /\ ring' \in [Threads -> Seq(Nat)] /\ cqes' \in [Threads -> Seq(Nat)]
         /\ \A u \in Threads \ {t} : ring'[u] = ring[u] /\ cqes'[u] = cqes[u]
<1>1. /\ ring[t] \in Seq(Nat) /\ cqes[t] \in Seq(Nat) /\ ring[t] # <<>>
      /\ ring'[t] = Tail(ring[t]) /\ cqes'[t] = Append(cqes[t], Head(ring[t]))
  BY DEF PopRing
<1>2. Head(ring[t]) \in Nat /\ Tail(ring[t]) \in Seq(Nat)
  BY <1>1, HeadTailProperties
<1>3. ring' \in [Threads -> Seq(Nat)] /\ cqes' \in [Threads -> Seq(Nat)]
  BY <1>1, <1>2 DEF PopRing
<1>4. Ids(ring[t], t) # <<>> /\ Ids(ring'[t], t) = Tail(Ids(ring[t], t))
  BY <1>1, IdsTail
<1>5. Ids(cqes'[t], t) = Append(Ids(cqes[t], t), Head(Ids(ring[t], t)))
  BY <1>1, <1>2, IdsTail, IdsAppend
<1> QED BY <1>3, <1>4, <1>5 DEF PopRing

LEMMA PollRingStep ==
  ASSUME PollInv, NEW t \in Threads, PollRing(t)
  PROVE  PollInv'
<1> USE DEF PollInv, callVars
<1>1. /\ PopRing(t)
      /\ UNCHANGED <<posted, sq, cq, tail, polling, pc, wcs, i, ret, at, lossy>>
  BY DEF PollRing
<1>2. /\ Ids(ring[t], t) # <<>> /\ Ids(ring'[t], t) = Tail(Ids(ring[t], t))
      /\ Ids(cqes'[t], t) = Append(Ids(cqes[t], t), Head(Ids(ring[t], t)))
      /\ ring' \in [Threads -> Seq(Nat)] /\ cqes' \in [Threads -> Seq(Nat)]
      /\ \A u \in Threads \ {t} : ring'[u] = ring[u] /\ cqes'[u] = cqes[u]
  BY <1>1, PopRingStep DEF Types
<1>3. Types' /\ HandEmpty' /\ InPush' /\ HandKept'
  BY <1>1, <1>2 DEF Types, HandEmpty, InPush, HandKept
<1>4. SamePlaces(Held, Held', {<<"ring", t>>, <<"told", t>>})
  BY <1>1, <1>2, SameBut DEF Hand
<1>5. Apart(Held') /\ All(Held') = All(Held)
  <2>1. /\ Held[<<"ring", t>>] # <<>>
        /\ Held'[<<"ring", t>>] = Tail(Held[<<"ring", t>>])
        /\ Held'[<<"told", t>>] = Append(Held[<<"told", t>>], Head(Held[<<"ring", t>>]))
        /\ <<"ring", t>> # <<"told", t>>
    BY <1>2, HeldIs DEF HeldBy
  <2> QED BY <1>4, <2>1, MoveHead, HeldType, PlacesAre DEF EachHeld
<1>6. EachHeld'
  BY <1>1, <1>3, <1>5, StillHeld DEF Types
<1> QED BY <1>3, <1>6

LEMMA StartPollStep ==
  ASSUME PollInv, NEW t \in Threads, NEW e \in Eps, StartPoll(t, e)
  PROVE  PollInv'
<1> USE DEF PollInv, callVars
<1>1. /\ pc[t] = "idle" /\ pc' = [pc EXCEPT ![t] = "poll"] /\ polling' = [polling EXCEPT ![t] = e]
      /\ UNCHANGED <<posted, sq, cq, ring, tail, wcs, i, ret, at, cqes, lossy>>
  BY DEF StartPoll
<1>2. Types' /\ HandEmpty' /\ InPush' /\ HandKept'
  BY <1>1 DEF Types, HandEmpty, InPush, HandKept, Outside, PushLabels
<1>3. SamePlaces(Held, Held', {})
  BY <1>1, SameBut DEF Hand
<1>4. Apart(Held') /\ All(Held') = All(Held)
  BY <1>3, Rest DEF EachHeld
<1>5. EachHeld'
  BY <1>1, <1>2, <1>4, StillHeld DEF Types
<1> QED BY <1>2, <1>5

LEMMA HandOfNone ==
  ASSUME Types, NEW t \in Threads, i[t] >= Len(wcs[t])
  PROVE  Hand(t) = <<>>
<1>1. i[t] + 1 \in Int /\ Len(wcs[t]) \in Int /\ Len(wcs[t]) < i[t] + 1
  BY DEF Types
<1> QED BY <1>1, SubSeqEmpty DEF Hand

LEMMA IbvPollCqStep ==
  ASSUME PollInv, NEW t \in Threads, IbvPollCq(t)
  PROVE  PollInv'
<1> USE DEF PollInv, callVars
<1> DEFINE e == polling[t]
           n == IF Len(cq[e]) < QSize THEN Len(cq[e]) ELSE QSize
<1>0. e \in Eps /\ cq[e] \in Seq(Nat) /\ n \in 0 .. Len(cq[e]) /\ n \in Nat
  BY PollAssumption DEF Types
<1>1. /\ pc[t] = "poll" /\ pc' = [pc EXCEPT ![t] = "loop"]
      /\ wcs' = [wcs EXCEPT ![t] = SubSeq(cq[e], 1, n)]
      /\ cq' = [cq EXCEPT ![e] = SubSeq(cq[e], n + 1, Len(cq[e]))]
      /\ ret' = [ret EXCEPT ![t] = n] /\ i' = [i EXCEPT ![t] = 0]
      /\ polling' = [polling EXCEPT ![t] = 0]
      /\ lossy' = (lossy \/ n > 1)
      /\ UNCHANGED <<posted, sq, ring, tail, at, cqes>>
  BY DEF IbvPollCq
<1> HIDE DEF n, e
<1>2. /\ SubSeq(cq[e], 1, n) \in Seq(Nat) /\ Len(SubSeq(cq[e], 1, n)) = n
      /\ SubSeq(cq[e], n + 1, Len(cq[e])) \in Seq(Nat)
  <2>1. IsInjective(cq[e])
    BY <1>0, HeldIs, PlacesAre DEF EachHeld, Apart, HeldBy
  <2> QED BY <1>0, <2>1, InjectiveCut
<1>3. /\ wcs'[t] = SubSeq(cq[e], 1, n) /\ i'[t] = 0 /\ ret'[t] = n /\ Len(wcs'[t]) = n
      /\ \A u \in Threads \ {t} : wcs'[u] = wcs[u] /\ i'[u] = i[u] /\ ret'[u] = ret[u]
  BY <1>1, <1>2 DEF Types
<1>4. Types'
  <2>1. /\ wcs' \in [Threads -> Seq(Nat)] /\ cq' \in [Eps -> Seq(Nat)]
        /\ i' \in [Threads -> Nat] /\ ret' \in [Threads -> Int]
    BY <1>0, <1>1, <1>2 DEF Types
  <2>2. /\ pc' \in [Threads -> Outside \cup {"loop"} \cup PushLabels]
        /\ polling' \in [Threads -> Eps]
    <3>1. 0 \in Eps
      BY PollAssumption DEF Eps
    <3> QED BY <1>1, <3>1 DEF Types
  <2>3. ASSUME NEW u \in Threads
        PROVE  i'[u] <= Len(wcs'[u]) /\ ret'[u] <= Len(wcs'[u])
    <3>1. CASE u = t
      BY <1>0, <1>3, <3>1
    <3>2. CASE u # t
      <4>1. i'[u] = i[u] /\ ret'[u] = ret[u] /\ wcs'[u] = wcs[u]
        BY <1>3, <3>2
      <4> QED BY <4>1 DEF Types
    <3> QED BY <3>1, <3>2
  <2>4. lossy' \in BOOLEAN
    BY <1>1
  <2> QED BY <1>1, <2>1, <2>2, <2>3, <2>4 DEF Types
<1>5. HandEmpty' /\ InPush'
  <2>1. /\ pc'[t] = "loop"
        /\ \A u \in Threads \ {t} : /\ pc'[u] = pc[u] /\ wcs'[u] = wcs[u]
                                   /\ i'[u] = i[u] /\ ret'[u] = ret[u]
    BY <1>1, <1>3 DEF Types
  <2> QED BY <2>1 DEF HandEmpty, InPush, Outside, PushLabels
<1>6. HandKept'
  <2>1. CASE lossy'
    BY <2>1 DEF HandKept
  <2>2. CASE ~lossy'
    <3>1. ~lossy /\ n <= 1
      <4>1. ~lossy /\ ~(n > 1)
        BY <1>1, <2>2
      <4> QED BY <1>0, <4>1
    <3>2. i'[t] < Len(wcs'[t]) => i'[t] = 0 /\ Len(wcs'[t]) = 1 /\ ret'[t] = 1
      BY <1>0, <1>3, <3>1
    <3>3. ASSUME NEW u \in Threads \ {t}, i'[u] < Len(wcs'[u])
          PROVE  i'[u] = 0 /\ Len(wcs'[u]) = 1 /\ ret'[u] = 1
      <4>1. i'[u] = i[u] /\ ret'[u] = ret[u] /\ wcs'[u] = wcs[u]
        BY <1>3
      <4> QED BY <3>1, <3>3, <4>1 DEF HandKept
    <3> QED BY <3>2, <3>3 DEF HandKept
  <2> QED BY <2>1, <2>2
<1>7. SamePlaces(Held, Held', {<<"cq", e>>, <<"hand", t>>})
  <2>1. \A u \in Threads \ {t} : Hand(u)' = Hand(u)
    BY <1>3 DEF Hand
  <2>2. \A d \in Eps \ {e} : cq'[d] = cq[d]
    BY <1>1 DEF Types
  <2> QED BY <1>1, <2>1, <2>2, SameBut
<1>8. Hand(t) = <<>>
  <2>1. wcs[t] = <<>>
    BY <1>1 DEF HandEmpty, Outside
  <2>2. i[t] >= Len(wcs[t])
    BY <2>1 DEF Types
  <2> QED BY <2>2, HandOfNone
<1>9. Hand(t)' = SubSeq(cq[e], 1, n)
  <2>1. SubSeq(wcs'[t], 1, Len(wcs'[t])) = wcs'[t]
    BY <1>2, <1>3, SubSeqFull
  <2>2. Hand(t)' = SubSeq(wcs'[t], i'[t] + 1, Len(wcs'[t]))
    BY DEF Hand
  <2>3. i'[t] + 1 = 1
    BY <1>3
  <2> QED BY <1>3, <2>1, <2>2, <2>3
<1>10. Apart(Held') /\ All(Held') = All(Held)
  <2>1. /\ Held[<<"cq", e>>] = cq[e] /\ Held[<<"hand", t>>] = <<>>
        /\ Held'[<<"cq", e>>] = SubSeq(cq[e], n + 1, Len(cq[e]))
        /\ Held'[<<"hand", t>>] = SubSeq(cq[e], 1, n)
        /\ <<"cq", e>> # <<"hand", t>>
    BY <1>0, <1>1, <1>8, <1>9, HeldIs DEF HeldBy, Types
  <2> QED BY <1>0, <1>7, <2>1, MoveFirst, HeldType, PlacesAre DEF EachHeld
<1>11. EachHeld'
  BY <1>1, <1>4, <1>10, StillHeld DEF Types
<1> QED BY <1>4, <1>5, <1>6, <1>11

\* The next one of the hand.
LEMMA HandNext ==
  ASSUME Types, NEW t \in Threads, i[t] < ret[t]
  PROVE  /\ i[t] + 1 \in 1 .. Len(wcs[t]) /\ wcs[t][i[t] + 1] \in Nat
         /\ Hand(t) \in Seq(Nat) /\ Hand(t) # <<>> /\ Head(Hand(t)) = wcs[t][i[t] + 1]
         /\ SubSeq(wcs[t], i[t] + 1 + 1, Len(wcs[t])) = Tail(Hand(t))
<1>1. wcs[t] \in Seq(Nat) /\ i[t] \in Nat /\ ret[t] \in Int /\ ret[t] <= Len(wcs[t])
  BY DEF Types
<1>2. /\ i[t] + 1 \in 1 .. Len(wcs[t]) /\ Len(wcs[t]) \in i[t] + 1 .. Len(wcs[t])
      /\ wcs[t][i[t] + 1] \in Nat
  BY <1>1
<1>3. /\ Head(Hand(t)) = wcs[t][i[t] + 1]
      /\ Tail(Hand(t)) = SubSeq(wcs[t], i[t] + 1 + 1, Len(wcs[t]))
  BY <1>1, <1>2, HeadTailOfSubSeq DEF Hand
<1>4. Hand(t) \in Seq(Nat) /\ Hand(t) # <<>>
  <2>1. \A k \in i[t] + 1 .. Len(wcs[t]) : wcs[t][k] \in Nat
    BY <1>1
  <2>2. i[t] + 1 <= Len(wcs[t]) /\ Len(wcs[t]) \in Int /\ i[t] + 1 \in Int
    BY <1>1, <1>2
  <2>3. Hand(t) \in Seq(Nat) /\ Len(Hand(t)) = Len(wcs[t]) - (i[t] + 1) + 1
    BY <2>1, <2>2, SubSeqProperties DEF Hand
  <2>4. Len(Hand(t)) > 0
    BY <2>2, <2>3
  <2> QED BY <2>3, <2>4
<1> QED BY <1>2, <1>3, <1>4

\* The steps of push() before the completion leaves the hand.
PushGoesOn(t) == LoadTail(t) \/ FindRoom(t) \/ CasTail(t)

LEMMA PushGoesOnStep ==
  ASSUME PollInv, NEW t \in Threads, PushGoesOn(t)
  PROVE  PollInv'
<1> USE DEF PollInv
<1>1. UNCHANGED <<posted, sq, cq, ring, polling, wcs, i, ret, cqes, lossy>>
  BY DEF PushGoesOn, LoadTail, FindRoom, CasTail
<1>2. i[t] < ret[t] /\ pc[t] \notin Outside
  BY DEF PushGoesOn, LoadTail, FindRoom, CasTail, InPush, PushLabels, Outside
<1>3. PICK label \in {"loop"} \cup PushLabels : pc' = [pc EXCEPT ![t] = label]
  BY DEF PushGoesOn, LoadTail, FindRoom, CasTail, PushLabels
<1>4. tail' \in [Threads -> Nat] /\ at' \in [Threads -> Nat]
  <2>0. Target(t) \in Threads
    BY <1>2, HandNext, IdWhole DEF Target
  <2>1. CASE LoadTail(t)
    BY <2>0, <2>1 DEF LoadTail, Types
  <2>2. CASE FindRoom(t)
    BY <2>2 DEF FindRoom, Types
  <2>3. CASE CasTail(t)
    <3>1. tail[Target(t)] + 1 \in Nat
      <4>1. tail[Target(t)] \in Nat
        BY <2>0 DEF Types
      <4> QED BY <4>1
    <3>2. UNCHANGED at /\ (tail' = [tail EXCEPT ![Target(t)] = @ + 1] \/ UNCHANGED tail)
      BY <2>3 DEF CasTail
    <3> QED BY <3>1, <3>2 DEF Types
  <2> QED BY <2>1, <2>2, <2>3 DEF PushGoesOn
<1>5. Types'
  <2>1. pc' \in [Threads -> Outside \cup {"loop"} \cup PushLabels]
    BY <1>3 DEF Types
  <2> QED BY <1>1, <1>4, <2>1 DEF Types
<1>6. pc'[t] \notin Outside /\ \A u \in Threads \ {t} : pc'[u] = pc[u]
  BY <1>3 DEF Types, Outside, PushLabels
<1>7. HandEmpty' /\ InPush' /\ HandKept'
  BY <1>1, <1>2, <1>6 DEF HandEmpty, InPush, HandKept
<1>8. SamePlaces(Held, Held', {})
  BY <1>1, SameBut DEF Hand
<1>9. Apart(Held') /\ All(Held') = All(Held)
  BY <1>8, Rest DEF EachHeld
<1>10. EachHeld'
  BY <1>1, <1>5, <1>9, StillHeld DEF Types
<1> QED BY <1>5, <1>7, <1>10

\* The completion is published, or dropped.
LEMMA HandOverStep ==
  ASSUME PollInv, NEW t \in Threads, CasWrite(t) \/ Refuse(t)
  PROVE  PollInv'
<1> USE DEF PollInv, callVars
<1> DEFINE id == wcs[t][i[t] + 1]
           u == WrThread(id)
<1>0. i[t] < ret[t]
  BY DEF CasWrite, Refuse, InPush, PushLabels
<1>1. /\ pc' = [pc EXCEPT ![t] = "loop"] /\ i' = [i EXCEPT ![t] = i[t] + 1]
      /\ at' = [at EXCEPT ![t] = 0]
      /\ UNCHANGED <<posted, sq, cq, tail, polling, wcs, cqes>>
      /\ \/ /\ ring' = [ring EXCEPT ![u] = Append(@, WrOf(id))]
            /\ ret' = [ret EXCEPT ![t] = 0]
            /\ UNCHANGED lossy
         \/ /\ ret' = [ret EXCEPT ![t] = -1]
            /\ lossy' = TRUE
            /\ UNCHANGED ring
  BY DEF CasWrite, Refuse, Target
<1>2. /\ i[t] + 1 \in 1 .. Len(wcs[t]) /\ id \in Nat
      /\ Hand(t) \in Seq(Nat) /\ Hand(t) # <<>> /\ Head(Hand(t)) = id
      /\ SubSeq(wcs[t], i[t] + 1 + 1, Len(wcs[t])) = Tail(Hand(t))
  BY <1>0, HandNext
<1>3. u \in Threads /\ WrOf(id) \in Nat /\ WrId(WrOf(id), u) = id
  BY <1>2, IdWhole
<1> HIDE DEF id, u
<1>4. /\ i'[t] = i[t] + 1 /\ ret'[t] \in {0, -1}
      /\ \A v \in Threads \ {t} : i'[v] = i[v] /\ ret'[v] = ret[v]
      /\ i' \in [Threads -> Nat] /\ ret' \in [Threads -> Int]
  <2>1. i'[t] = i[t] + 1 /\ i' \in [Threads -> Nat] /\ \A v \in Threads \ {t} : i'[v] = i[v]
    BY <1>1 DEF Types
  <2>2. ASSUME NEW k \in {0, -1}, ret' = [ret EXCEPT ![t] = k]
        PROVE  /\ ret'[t] \in {0, -1} /\ ret' \in [Threads -> Int]
               /\ \A v \in Threads \ {t} : ret'[v] = ret[v]
    BY <2>2 DEF Types
  <2> QED BY <1>1, <2>1, <2>2
<1>5. Types'
  <2>1. ring' \in [Threads -> Seq(Nat)]
    <3>1. CASE ring' = [ring EXCEPT ![u] = Append(@, WrOf(id))]
      BY <1>3, <3>1 DEF Types
    <3> QED BY <1>1, <3>1 DEF Types
  <2>2. ASSUME NEW v \in Threads
        PROVE  i'[v] <= Len(wcs[v]) /\ ret'[v] <= Len(wcs[v])
    <3>1. CASE v = t
      <4>1. Len(wcs[t]) \in Nat
        BY DEF Types
      <4> QED BY <1>2, <1>4, <3>1, <4>1
    <3>2. CASE v # t
      <4>1. i'[v] = i[v] /\ ret'[v] = ret[v]
        BY <1>4, <3>2
      <4> QED BY <4>1 DEF Types
    <3> QED BY <3>1, <3>2
  <2>3. lossy' \in BOOLEAN
    BY <1>1 DEF Types
  <2>4. /\ pc' \in [Threads -> Outside \cup {"loop"} \cup PushLabels]
        /\ at' \in [Threads -> Nat]
    BY <1>1 DEF Types
  <2> QED BY <1>1, <1>4, <2>1, <2>2, <2>3, <2>4 DEF Types
<1>6. HandEmpty' /\ InPush'
  <2>1. pc'[t] = "loop" /\ \A v \in Threads \ {t} : pc'[v] = pc[v]
    BY <1>1 DEF Types
  <2> QED BY <1>1, <1>4, <2>1 DEF HandEmpty, InPush, Outside, PushLabels
<1>7. HandKept'
  <2>1. CASE lossy'
    BY <2>1 DEF HandKept
  <2>2. CASE ~lossy'
    <3>1. ~lossy
      BY <1>1, <2>2
    <3>2. i[t] < Len(wcs[t])
      BY <1>2 DEF Types
    <3>3. ~(i'[t] < Len(wcs[t]))
      <4>1. i[t] = 0 /\ Len(wcs[t]) = 1
        BY <3>1, <3>2 DEF HandKept
      <4> QED BY <1>4, <4>1
    <3>4. ASSUME NEW v \in Threads \ {t}, i'[v] < Len(wcs[v])
          PROVE  i'[v] = 0 /\ Len(wcs[v]) = 1 /\ ret'[v] = 1
      <4>1. i'[v] = i[v] /\ ret'[v] = ret[v]
        BY <1>4
      <4> QED BY <3>1, <3>4, <4>1 DEF HandKept
    <3> QED BY <1>1, <3>3, <3>4 DEF HandKept
  <2> QED BY <2>1, <2>2
<1>8. Hand(t)' = Tail(Hand(t)) /\ \A v \in Threads \ {t} : Hand(v)' = Hand(v)
  BY <1>1, <1>2, <1>4 DEF Hand
<1>9. Held'[<<"hand", t>>] = Tail(Held[<<"hand", t>>]) /\ Held[<<"hand", t>>] = Hand(t)
  BY <1>8, HeldIs DEF HeldBy
<1>10. CASE /\ ring' = [ring EXCEPT ![u] = Append(@, WrOf(id))]
            /\ UNCHANGED lossy
  <2>1. \A v \in Threads \ {u} : ring'[v] = ring[v]
    BY <1>10 DEF Types
  <2>2. Ids(ring'[u], u) = Append(Ids(ring[u], u), id)
    BY <1>3, <1>10, IdsAppend DEF Types
  <2>3. SamePlaces(Held, Held', {<<"hand", t>>, <<"ring", u>>})
    BY <1>1, <1>8, <2>1, SameBut
  <2>4. Held'[<<"ring", u>>] = Append(Held[<<"ring", u>>], Head(Held[<<"hand", t>>]))
    BY <1>2, <1>3, <1>9, <2>2, HeldIs DEF HeldBy
  <2>5. Held[<<"hand", t>>] # <<>> /\ <<"hand", t>> # <<"ring", u>>
    BY <1>2, <1>9
  <2>6. Apart(Held') /\ All(Held') = All(Held)
    BY <1>3, <1>9, <2>3, <2>4, <2>5, MoveHead, HeldType, PlacesAre DEF EachHeld
  <2>7. EachHeld'
    BY <1>1, <1>5, <1>10, <2>6, StillHeld DEF Types
  <2> QED BY <1>5, <1>6, <1>7, <2>7
<1>11. CASE lossy' = TRUE /\ UNCHANGED ring
  <2>1. SamePlaces(Held, Held', {<<"hand", t>>})
    BY <1>1, <1>8, <1>11, SameBut
  <2>2. IsInjective(Hand(t))
    BY <1>9, PlacesAre DEF EachHeld, Apart
  <2>3. IsInjective(Tail(Hand(t))) /\ ToSet(Tail(Hand(t))) \subseteq ToSet(Hand(t))
    BY <1>2, <2>2, InjectiveTail
  <2>4. Apart(Held') /\ All(Held') \subseteq All(Held)
    BY <1>9, <2>1, <2>3, Drop, PlacesAre DEF EachHeld
  <2>5. EachHeld'
    BY <1>1, <1>11, <2>4 DEF EachHeld, Issued
  <2> QED BY <1>5, <1>6, <1>7, <2>5
<1> QED BY <1>1, <1>10, <1>11

LEMMA EndPollStep ==
  ASSUME PollInv, NEW t \in Threads, EndPoll(t)
  PROVE  PollInv'
<1> USE DEF PollInv, callVars
<1>1. /\ pc[t] = "loop" /\ i[t] >= ret[t] /\ pc' = [pc EXCEPT ![t] = "idle"]
      /\ wcs' = [wcs EXCEPT ![t] = <<>>] /\ i' = [i EXCEPT ![t] = 0] /\ ret' = [ret EXCEPT ![t] = 0]
      /\ UNCHANGED <<posted, sq, cq, tail, polling, at, lossy>>
      /\ PopRing(t) \/ UNCHANGED <<ring, cqes>>
  BY DEF EndPoll
<1>2. PopRing(t) => ring' \in [Threads -> Seq(Nat)] /\ cqes' \in [Threads -> Seq(Nat)]
  BY PopRingStep DEF Types
<1>3. /\ wcs'[t] = <<>> /\ i'[t] = 0 /\ ret'[t] = 0
      /\ \A u \in Threads \ {t} : wcs'[u] = wcs[u] /\ i'[u] = i[u] /\ ret'[u] = ret[u]
  BY <1>1 DEF Types
<1>4. Types'
  <2>1. wcs' \in [Threads -> Seq(Nat)] /\ i' \in [Threads -> Nat] /\ ret' \in [Threads -> Int]
    BY <1>1 DEF Types
  <2>2. pc' \in [Threads -> Outside \cup {"loop"} \cup PushLabels]
    BY <1>1 DEF Types, Outside
  <2>3. ASSUME NEW u \in Threads
        PROVE  i'[u] <= Len(wcs'[u]) /\ ret'[u] <= Len(wcs'[u])
    <3>1. CASE u = t
      BY <1>3, <3>1
    <3>2. CASE u # t
      <4>1. i'[u] = i[u] /\ ret'[u] = ret[u] /\ wcs'[u] = wcs[u]
        BY <1>3, <3>2
      <4> QED BY <4>1 DEF Types
    <3> QED BY <3>1, <3>2
  <2>4. ring' \in [Threads -> Seq(Nat)] /\ cqes' \in [Threads -> Seq(Nat)]
    BY <1>1, <1>2 DEF Types
  <2> QED BY <1>1, <2>1, <2>2, <2>3, <2>4 DEF Types
<1>5. HandEmpty' /\ InPush'
  <2>1. pc'[t] = "idle" /\ \A u \in Threads \ {t} : pc'[u] = pc[u]
    BY <1>1 DEF Types
  <2> QED BY <1>3, <2>1 DEF HandEmpty, InPush, PushLabels
<1>6. HandKept'
  <2>1. ~(i'[t] < Len(wcs'[t]))
    BY <1>3
  <2>2. ASSUME NEW u \in Threads \ {t}, ~lossy, i'[u] < Len(wcs'[u])
        PROVE  i'[u] = 0 /\ Len(wcs'[u]) = 1 /\ ret'[u] = 1
    <3>1. i'[u] = i[u] /\ ret'[u] = ret[u] /\ wcs'[u] = wcs[u]
      BY <1>3
    <3> QED BY <2>2, <3>1 DEF HandKept
  <2> QED BY <1>1, <2>1, <2>2 DEF HandKept
\* The rest of the hand is dropped, then the ring's first one goes on.
<1> DEFINE hand == <<"hand", t>>
           F == [Held EXCEPT ![hand] = <<>>]
<1>7. Held \in [Places -> Seq(Nat)] /\ hand \in Places
  BY HeldType, PlacesAre
<1>8. F \in [Places -> Seq(Nat)] /\ F[hand] = <<>> /\ \A p \in Places : p # hand => F[p] = Held[p]
  BY <1>7
<1> HIDE DEF F
<1>9. Apart(F) /\ All(F) \subseteq All(Held)
  <2>1. IsInjective(<<>>) /\ ToSet(<<>>) = {}
    BY DEF IsInjective, ToSet
  <2>2. SamePlaces(Held, F, {hand})
    BY <1>8 DEF SamePlaces
  <2> QED BY <1>7, <1>8, <2>1, <2>2, Drop DEF EachHeld
<1>10. lossy \/ All(F) = All(Held)
  <2> SUFFICES ASSUME ~lossy PROVE All(F) = All(Held)
    OBVIOUS
  <2>1. ~(i[t] < Len(wcs[t]))
    BY <1>1 DEF HandKept
  <2>2. Hand(t) = <<>>
    <3>1. i[t] >= Len(wcs[t])
      BY <2>1 DEF Types
    <3> QED BY <3>1, HandOfNone
  <2>3. Held[hand] = <<>>
    BY <2>2, HeldIs DEF HeldBy
  <2>4. \A p \in Places : F[p] = Held[p]
    BY <1>8, <2>3
  <2> QED BY <2>4 DEF All
<1>11. Held'[hand] = <<>>
  <2>1. Hand(t)' = <<>>
    BY <1>3, <1>4, SubSeqEmpty DEF Hand
  <2> QED BY <2>1, HeldIs DEF HeldBy
<1>12. \A u \in Threads \ {t} : Hand(u)' = Hand(u)
  BY <1>3 DEF Hand
<1>13. Apart(Held') /\ All(Held') = All(F)
  <2>1. CASE UNCHANGED <<ring, cqes>>
    <3>1. SamePlaces(Held, Held', {hand})
      BY <1>1, <1>12, <2>1, SameBut
    <3>2. SamePlaces(F, Held', {})
      BY <1>8, <1>11, <3>1 DEF SamePlaces
    <3> QED BY <1>9, <3>2, Rest
  <2>2. CASE PopRing(t)
    <3> DEFINE p == <<"ring", t>>
               q == <<"told", t>>
    <3>1. /\ Ids(ring[t], t) # <<>> /\ Ids(ring'[t], t) = Tail(Ids(ring[t], t))
          /\ Ids(cqes'[t], t) = Append(Ids(cqes[t], t), Head(Ids(ring[t], t)))
          /\ \A u \in Threads \ {t} : ring'[u] = ring[u] /\ cqes'[u] = cqes[u]
      BY <2>2, PopRingStep DEF Types
    <3>2. SamePlaces(Held, Held', {hand, p, q})
      BY <1>1, <1>12, <3>1, SameBut
    <3>3. p \in Places /\ q \in Places /\ p # q /\ p # hand /\ q # hand
      BY PlacesAre
    <3>4. /\ Held[p] # <<>> /\ Held'[p] = Tail(Held[p])
          /\ Held'[q] = Append(Held[q], Head(Held[p]))
      BY <3>1, HeldIs DEF HeldBy
    <3> HIDE DEF p, q, hand
    <3>5. /\ F[p] # <<>> /\ Held'[p] = Tail(F[p])
          /\ Held'[q] = Append(F[q], Head(F[p]))
      BY <1>8, <3>3, <3>4
    <3>6. SamePlaces(F, Held', {p, q})
      BY <1>8, <1>11, <3>2 DEF SamePlaces
    <3> QED BY <1>8, <1>9, <3>3, <3>5, <3>6, MoveHead
  <2> QED BY <1>1, <2>1, <2>2
<1>14. EachHeld'
  <2>1. Issued' = Issued /\ lossy' = lossy
    BY <1>1 DEF Issued
  <2>2. All(Held') \subseteq Issued /\ (lossy \/ Issued \subseteq All(Held'))
    BY <1>9, <1>10, <1>13 DEF EachHeld
  <2> QED BY <1>13, <2>1, <2>2 DEF EachHeld
<1> QED BY <1>4, <1>5, <1>6, <1>14

LEMMA NextInv == PollInv /\ [Next]_vars => PollInv'
<1> SUFFICES ASSUME PollInv, [Next]_vars PROVE PollInv'
  OBVIOUS
<1>1. ASSUME NEW t \in Threads, NEW e \in Eps, PostRead(t, e) \/ StartPoll(t, e)
      PROVE  PollInv'
  BY <1>1, PostReadStep, StartPollStep
<1>2. ASSUME NEW t \in Threads, PollRing(t) \/ InPoll(t)
      PROVE  PollInv'
  BY <1>2, PollRingStep, IbvPollCqStep, PushGoesOnStep, HandOverStep, EndPollStep
  DEF InPoll, PushWc, PushGoesOn
<1>3. ASSUME NEW e \in Eps, Complete(e)
      PROVE  PollInv'
  BY <1>3, CompleteStep
<1>4. CASE UNCHANGED vars
  <2>1. UNCHANGED <<posted, sq, cq, ring, tail, polling, pc, wcs, i, ret, at, cqes, lossy>>
    BY <1>4 DEF vars, callVars
  <2>2. Types' /\ HandEmpty' /\ InPush' /\ HandKept'
    BY <2>1 DEF PollInv, Types, HandEmpty, InPush, HandKept
  <2>3. SamePlaces(Held, Held', {})
    BY <2>1, SameBut DEF Hand
  <2>4. Apart(Held') /\ All(Held') = All(Held)
    BY <2>3, Rest DEF PollInv, EachHeld
  <2>5. EachHeld'
    BY <2>1, <2>2, <2>4, StillHeld DEF PollInv, Types
  <2> QED BY <2>2, <2>5 DEF PollInv
<1> QED BY <1>1, <1>2, <1>3, <1>4 DEF Next

LEMMA PollInvHolds == Spec => []PollInv
BY InitInv, NextInv, PTL DEF Spec

-----------------------------------------------------------------------------
(* Whatever threads poll whatever queues at the same time, poll_cq() tells *)
(* a thread of its own READs only, and of none twice.                      *)
THEOREM OwnAndOnce == Spec => []OwnOnce
<1>1. ASSUME PollInv PROVE OwnOnce
  <2> SUFFICES ASSUME NEW t \in Threads
               PROVE  /\ IsInjective(cqes[t])
                      /\ \A k \in 1 .. Len(cqes[t]) : cqes[t][k] < posted[t]
    BY DEF OwnOnce
  <2>1. cqes[t] \in Seq(Nat) /\ DOMAIN cqes[t] = 1 .. Len(cqes[t])
    BY <1>1 DEF PollInv, Types
  <2>2. /\ Ids(cqes[t], t) = Held[<<"told", t>>] /\ <<"told", t>> \in Places
        /\ DOMAIN Ids(cqes[t], t) = 1 .. Len(cqes[t])
    BY HeldIs, PlacesAre DEF HeldBy, Ids
  <2>3. \A k \in 1 .. Len(cqes[t]) : Ids(cqes[t], t)[k] = WrId(cqes[t][k], t)
    BY DEF Ids
  <2>4. IsInjective(Ids(cqes[t], t))
    BY <1>1, <2>2 DEF PollInv, EachHeld, Apart
  <2>5. IsInjective(cqes[t])
    BY <2>1, <2>2, <2>3, <2>4 DEF IsInjective
  <2>6. ASSUME NEW k \in 1 .. Len(cqes[t]) PROVE cqes[t][k] < posted[t]
    <3>1. WrId(cqes[t][k], t) \in ToSet(Held[<<"told", t>>])
      BY <2>2, <2>3 DEF ToSet
    <3>2. WrId(cqes[t][k], t) \in Issued
      BY <1>1, <2>2, <3>1 DEF PollInv, EachHeld, All
    <3>3. cqes[t][k] \in Nat
      BY <2>1
    <3> QED BY <3>2, <3>3, IdParts DEF Issued
  <2> QED BY <2>5, <2>6
<1> QED BY <1>1, PollInvHolds, PTL

\* Until a batch of several completions is polled or a push is refused,
\* every READ is under way, in a queue, in a hand, in a ring or reported.
THEOREM NoThirdWayToLose == Spec => []LostInBatchOrRefused
<1>1. ASSUME PollInv, ~lossy PROVE NoCompletionLost
  <2> SUFFICES ASSUME NEW t \in Threads, NEW wr \in 0 .. posted[t] - 1
               PROVE  Waiting(t, wr)
    BY DEF NoCompletionLost
  <2> DEFINE id == WrId(wr, t)
  <2>1. posted[t] \in Nat /\ wr \in Nat /\ wr < posted[t]
    BY <1>1 DEF PollInv, Types
  <2>2. id \in Nat /\ WrThread(id) = t /\ WrOf(id) = wr
    BY <2>1, IdType, IdParts
  <2>3. id \in All(Held)
    BY <1>1, <2>1, <2>2 DEF PollInv, EachHeld, Issued
  <2>4. PICK p \in Places : id \in ToSet(Held[p])
    BY <2>3 DEF All
  <2>5. ASSUME NEW e \in Eps, p = <<"sq", e>> \/ p = <<"cq", e>>
        PROVE  Waiting(t, wr)
    BY <2>4, <2>5, HeldIs DEF HeldBy, Waiting
  <2>6. ASSUME NEW u \in Threads, p = <<"hand", u>>
        PROVE  id \in InHand(u)
    <3>1. wcs[u] \in Seq(Nat) /\ i[u] \in Nat /\ Len(wcs[u]) \in Nat
      BY <1>1 DEF PollInv, Types
    <3>2. \A k \in i[u] + 1 .. Len(wcs[u]) : wcs[u][k] \in Nat
      BY <3>1
    <3>3. \A k \in 1 .. Len(wcs[u]) - (i[u] + 1) + 1 :
            Hand(u)[k] = wcs[u][i[u] + 1 + k - 1]
      <4>1. i[u] + 1 \in Int /\ Len(wcs[u]) \in Int
        BY <3>1
      <4> QED BY <3>2, <4>1, SubSeqProperties DEF Hand
    <3>4. PICK k \in DOMAIN Hand(u) : Hand(u)[k] = id
      BY <2>4, <2>6, HeldIs, ZenonT(60) DEF HeldBy, ToSet
    <3>5. k \in 1 .. Len(wcs[u]) - (i[u] + 1) + 1
      BY <3>1, <3>4 DEF Hand
    <3>6. i[u] + 1 + k - 1 \in i[u] + 1 .. Len(wcs[u])
      BY <3>1, <3>5
    <3> QED BY <3>3, <3>4, <3>5, <3>6 DEF InHand
  <2>7. ASSUME NEW u \in Threads, NEW s \in Seq(Nat), id \in ToSet(Ids(s, u))
        PROVE  u = t /\ wr \in ToSet(s)
    <3>1. PICK k \in 1 .. Len(s) : id = WrId(s[k], u)
      BY <2>7 DEF ToSet, Ids
    <3>2. s[k] \in Nat
      OBVIOUS
    <3>3. u = t /\ s[k] = wr
      BY <2>2, <3>1, <3>2, IdParts
    <3> QED BY <3>3 DEF ToSet
  <2>8. ASSUME NEW u \in Threads, p = <<"ring", u>> \/ p = <<"told", u>>
        PROVE  wr \in ToSet(ring[t]) \cup ToSet(cqes[t])
    <3>1. ring[u] \in Seq(Nat) /\ cqes[u] \in Seq(Nat)
      BY <1>1 DEF PollInv, Types
    <3> QED BY <2>4, <2>7, <2>8, <3>1, HeldIs, ZenonT(60) DEF HeldBy
  <2> QED BY <2>5, <2>6, <2>8, PlaceCases DEF Waiting
<1>2. PollInv => LostInBatchOrRefused
  BY <1>1 DEF LostInBatchOrRefused
<1> QED BY <1>2, PollInvHolds, PTL

-----------------------------------------------------------------------------
(* Room in the rings: the index of a slot that is being published is       *)
(* below the tail, and the tail is less than a ring ahead of the head.     *)

RingRoom(u) == WriteOf(u) <= tail[u] /\ tail[u] - HeadOf(u) <= QSize - 1

ThreadRoom(t) ==
  /\ pc[t] = "test" => at[t] <= tail[Target(t)]
  /\ pc[t] = "swap" => at[t] - HeadOf(Target(t)) < QSize - 1
  /\ pc[t] = "publish" => at[t] < tail[Target(t)]

Room == \A t \in Threads : RingRoom(t) /\ ThreadRoom(t)

\* The numbers that Room compares.
Numbers ==
  /\ QSize \in Nat \ {0, 1}
  /\ \A u \in Threads : HeadOf(u) \in Nat /\ WriteOf(u) \in Nat /\ tail[u] \in Nat /\ at[u] \in Nat

LEMMA NumbersAre == (Types => Numbers) /\ (Types' => Numbers')
<1>1. ASSUME Types, NEW u \in Threads
      PROVE  HeadOf(u) \in Nat /\ WriteOf(u) \in Nat /\ tail[u] \in Nat /\ at[u] \in Nat
  <2>1. cqes[u] \in Seq(Nat) /\ ring[u] \in Seq(Nat) /\ tail[u] \in Nat /\ at[u] \in Nat
    BY <1>1 DEF Types
  <2>2. PICK h \in Nat : h = Len(cqes[u])
    BY <2>1
  <2>3. PICK n \in Nat : n = Len(ring[u])
    BY <2>1
  <2>4. HeadOf(u) = h /\ WriteOf(u) = h + n
    BY <2>2, <2>3 DEF HeadOf, WriteOf
  <2> QED BY <2>1, <2>4
<1>2. ASSUME Types', NEW u \in Threads
      PROVE  HeadOf(u)' \in Nat /\ WriteOf(u)' \in Nat /\ tail'[u] \in Nat /\ at'[u] \in Nat
  <2>1. cqes'[u] \in Seq(Nat) /\ ring'[u] \in Seq(Nat) /\ tail'[u] \in Nat /\ at'[u] \in Nat
    BY <1>2 DEF Types
  <2>2. PICK h \in Nat : h = Len(cqes'[u])
    BY <2>1
  <2>3. PICK n \in Nat : n = Len(ring'[u])
    BY <2>1
  <2>4. HeadOf(u)' = h /\ WriteOf(u)' = h + n
    BY <2>2, <2>3 DEF HeadOf, WriteOf
  <2> QED BY <2>1, <2>4
<1> QED BY <1>1, <1>2, PollAssumption DEF Numbers

LEMMA TargetType ==
  ASSUME PollInv, NEW t \in Threads, pc[t] \in PushLabels \/ i[t] < ret[t]
  PROVE  Target(t) \in Threads
<1>1. i[t] < ret[t]
  BY DEF PollInv, InPush
<1> QED BY <1>1, HandNext, IdWhole DEF PollInv, Target

\* When thread u fails to find room, with nobody ahead, the ring is full.
LEMMA FullIs ==
  ASSUME NEW q \in Nat \ {0, 1}, NEW a \in Nat, NEW h \in Nat, h <= a, a - h <= q - 1
  PROVE  (a + 1 - h) % q = 0 <=> a - h = q - 1
<1>1. PICK x \in 1 .. q : x = a + 1 - h
  OBVIOUS
<1>2. PICK d \in Int : d = x \div q
  OBVIOUS
<1>3. PICK m \in 0 .. q - 1 : m = x % q
  BY ModType
<1>4. x = q * d + m
  BY <1>2, <1>3
<1>5. CASE x = q
  <2>1. q * (d - 1) = 0 - m
    BY <1>4, <1>5
  <2>2. ASSUME d - 1 <= -1 PROVE FALSE
    <3>1. q * (d - 1) <= -q
      BY <2>2
    <3> QED BY <2>1, <3>1
  <2>3. ASSUME d - 1 >= 1 PROVE FALSE
    <3>1. q * (d - 1) >= q
      BY <2>3
    <3> QED BY <2>1, <3>1
  <2>4. d - 1 = 0
    BY <2>2, <2>3
  <2>5. q * (d - 1) = 0
    BY <2>4
  <2> QED BY <1>1, <1>3, <1>5, <2>1, <2>5
<1>6. CASE x < q
  <2>1. ASSUME d >= 1 PROVE FALSE
    <3>1. q * d >= q
      BY <2>1
    <3> QED BY <1>4, <1>6, <3>1
  <2>2. ASSUME d <= -1 PROVE FALSE
    <3>1. q * d <= -q
      BY <2>2
    <3> QED BY <1>4, <3>1
  <2>3. d = 0
    BY <2>1, <2>2
  <2>4. q * d = 0
    BY <2>3
  <2> QED BY <1>1, <1>3, <1>4, <1>6, <2>4
<1> QED BY <1>1, <1>5, <1>6

LEMMA RoomInit == Init => Room
<1> SUFFICES ASSUME Init, NEW t \in Threads
             PROVE  RingRoom(t) /\ ThreadRoom(t)
  BY DEF Room
<1>1. Len(ring[t]) = 0 /\ Len(cqes[t]) = 0 /\ tail[t] = 0 /\ pc[t] = "idle"
  BY DEF Init
<1> QED BY <1>1, PollAssumption DEF RingRoom, ThreadRoom, HeadOf, WriteOf

\* Heads and tails only grow.
RingsGrow == \A u \in Threads : HeadOf(u) <= HeadOf(u)' /\ tail[u] <= tail'[u]

SamePush(v) == pc'[v] = pc[v] /\ at'[v] = at[v] /\ Target(v)' = Target(v)

LEMMA RoomKept ==
  ASSUME PollInv, Types', Room, RingsGrow, NEW t \in Threads, SamePush(t)
  PROVE  ThreadRoom(t)'
<1>1. Numbers /\ Numbers'
  BY NumbersAre DEF PollInv
<1>2. ThreadRoom(t) /\ ThreadRoom(t)' \in BOOLEAN
  BY DEF Room, ThreadRoom
<1>3. CASE pc[t] \in PushLabels
  <2>1. PICK u \in Threads : u = Target(t)
    BY <1>3, TargetType
  <2>2. /\ pc[t] = "test" => at[t] <= tail[u]
        /\ pc[t] = "swap" => at[t] - HeadOf(u) < QSize - 1
        /\ pc[t] = "publish" => at[t] < tail[u]
    BY <1>2, <2>1 DEF ThreadRoom
  <2>3. HeadOf(u) <= HeadOf(u)' /\ tail[u] <= tail'[u]
    BY DEF RingsGrow
  <2>4. /\ HeadOf(u) \in Nat /\ HeadOf(u)' \in Nat /\ tail[u] \in Nat /\ tail'[u] \in Nat
        /\ at[t] \in Nat /\ QSize \in Nat
    BY <1>1 DEF Numbers
  <2>5. /\ pc'[t] = "test" => at'[t] <= tail'[u]
        /\ pc'[t] = "swap" => at'[t] - HeadOf(u)' < QSize - 1
        /\ pc'[t] = "publish" => at'[t] < tail'[u]
    BY <2>2, <2>3, <2>4 DEF SamePush
  <2>6. Target(t)' = u
    BY <2>1 DEF SamePush
  <2>7. HeadOf(Target(t))' = HeadOf(u)'
    BY <2>6 DEF HeadOf
  <2> QED BY <2>5, <2>6, <2>7 DEF ThreadRoom
<1>4. CASE pc[t] \notin PushLabels
  BY <1>4 DEF SamePush, ThreadRoom, PushLabels
<1> QED BY <1>3, <1>4

LEMMA RoomFrom ==
  ASSUME PollInv, Types', Room, RingsGrow, \A u \in Threads : RingRoom(u)',
         \A v \in Threads : SamePush(v) \/ ThreadRoom(v)'
  PROVE  Room'
BY RoomKept DEF Room

LEMMA RingsRest ==
  ASSUME Types, Room, UNCHANGED <<ring, tail, cqes>>
  PROVE  RingsGrow /\ \A u \in Threads : RingRoom(u)'
<1>1. \A u \in Threads : HeadOf(u) \in Nat /\ tail[u] \in Nat
  BY NumbersAre DEF Numbers
<1>2. \A u \in Threads : HeadOf(u)' = HeadOf(u) /\ WriteOf(u)' = WriteOf(u) /\ tail'[u] = tail[u]
  BY DEF HeadOf, WriteOf
<1> QED BY <1>1, <1>2 DEF RingsGrow, Room, RingRoom

LEMMA PopRoom ==
  ASSUME Types, Types', Room, NEW t \in Threads, PopRing(t), UNCHANGED tail
  PROVE  RingsGrow /\ \A u \in Threads : RingRoom(u)'
<1>1. Numbers /\ Numbers'
  BY NumbersAre
<1>2. /\ ring[t] \in Seq(Nat) /\ cqes[t] \in Seq(Nat) /\ ring[t] # <<>>
      /\ ring'[t] = Tail(ring[t]) /\ cqes'[t] = Append(cqes[t], Head(ring[t]))
      /\ \A u \in Threads \ {t} : ring'[u] = ring[u] /\ cqes'[u] = cqes[u]
  BY DEF PopRing, Types
<1>3. Len(ring'[t]) = Len(ring[t]) - 1 /\ Len(cqes'[t]) = Len(cqes[t]) + 1
  BY <1>2
<1>4. Len(ring[t]) \in Nat /\ Len(ring[t]) > 0
  BY <1>2
<1>5. HeadOf(t)' = HeadOf(t) + 1 /\ WriteOf(t)' = WriteOf(t) /\ HeadOf(t) < WriteOf(t)
  <2>1. PICK h \in Nat : h = Len(cqes[t])
    BY <1>2
  <2>2. PICK n \in Nat : n = Len(ring[t])
    BY <1>4
  <2>3. HeadOf(t) = h /\ WriteOf(t) = h + n
    BY <2>1, <2>2 DEF HeadOf, WriteOf
  <2>4. HeadOf(t)' = h + 1 /\ WriteOf(t)' = (h + 1) + (n - 1)
    BY <1>3, <2>1, <2>2 DEF HeadOf, WriteOf
  <2>5. n > 0
    BY <1>4, <2>2
  <2>6. (h + 1) + (n - 1) = h + n /\ h < h + n
    BY <2>5
  <2> QED BY <2>3, <2>4, <2>6
<1>6. \A u \in Threads \ {t} : HeadOf(u)' = HeadOf(u) /\ WriteOf(u)' = WriteOf(u)
  BY <1>2 DEF HeadOf, WriteOf
<1>7. ASSUME NEW u \in Threads
      PROVE  HeadOf(u) <= HeadOf(u)' /\ tail[u] <= tail'[u] /\ RingRoom(u)'
  <2>1. /\ HeadOf(u) \in Nat /\ WriteOf(u) \in Nat /\ tail[u] \in Nat /\ QSize \in Nat
        /\ WriteOf(u) <= tail[u] /\ tail[u] - HeadOf(u) <= QSize - 1
    BY <1>1 DEF Numbers, Room, RingRoom
  <2>2. CASE u = t
    BY <1>5, <2>1, <2>2 DEF RingRoom
  <2>3. CASE u # t
    BY <1>6, <2>1, <2>3 DEF RingRoom
  <2> QED BY <2>2, <2>3
<1> QED BY <1>7 DEF RingsGrow

\* What poll_cq() does outside push() says nothing of slots.
LEMMA OtherRoom ==
  ASSUME PollInv, Types', Room, NEW t \in Threads, NEW e \in Eps,
         PostRead(t, e) \/ StartPoll(t, e) \/ PollRing(t) \/ IbvPollCq(t) \/ EndPoll(t)
  PROVE  Room'
<1>1. RingsGrow /\ \A u \in Threads : RingRoom(u)'
  <2>1. UNCHANGED tail /\ (PopRing(t) \/ UNCHANGED <<ring, cqes>>)
    BY DEF PostRead, StartPoll, PollRing, IbvPollCq, EndPoll, callVars
  <2> QED BY <2>1, PopRoom, RingsRest DEF PollInv
<1>2. /\ \A v \in Threads \ {t} : pc'[v] = pc[v] /\ wcs'[v] = wcs[v] /\ i'[v] = i[v]
      /\ UNCHANGED at
  <2>1. CASE PostRead(t, e)
    BY <2>1 DEF PostRead, callVars
  <2>2. CASE StartPoll(t, e)
    BY <2>2 DEF StartPoll, PollInv, Types
  <2>3. CASE PollRing(t)
    BY <2>3 DEF PollRing, callVars
  <2>4. CASE IbvPollCq(t)
    BY <2>4 DEF IbvPollCq, PollInv, Types
  <2>5. CASE EndPoll(t)
    BY <2>5 DEF EndPoll, PollInv, Types
  <2> QED BY <2>1, <2>2, <2>3, <2>4, <2>5
<1>3. \A v \in Threads \ {t} : SamePush(v)
  BY <1>2 DEF SamePush, Target
<1>4. pc'[t] \notin PushLabels
  BY DEF PostRead, StartPoll, PollRing, IbvPollCq, EndPoll, callVars, PushLabels, PollInv, Types
<1>5. ThreadRoom(t)'
  BY <1>4 DEF ThreadRoom, PushLabels
<1> QED BY <1>1, <1>3, <1>5, RoomFrom

LEMMA PushRoom ==
  ASSUME PollInv, Types', Room, NEW t \in Threads, PushWc(t)
  PROVE  Room'
<1>1. Numbers /\ Numbers'
  BY NumbersAre DEF PollInv
<1>2. Target(t) \in Threads
  BY TargetType DEF PushWc, LoadTail, FindRoom, Refuse, CasTail, CasWrite, PushLabels
<1>3. PICK u \in Threads : u = Target(t)
  BY <1>2
<1>4. /\ HeadOf(u) \in Nat /\ WriteOf(u) \in Nat /\ tail[u] \in Nat /\ at[t] \in Nat
      /\ QSize \in Nat \ {0, 1}
      /\ WriteOf(u) <= tail[u] /\ tail[u] - HeadOf(u) <= QSize - 1
  BY <1>1 DEF Numbers, Room, RingRoom
<1>5. /\ pc[t] = "test" => at[t] <= tail[u]
      /\ pc[t] = "swap" => at[t] - HeadOf(u) < QSize - 1
      /\ pc[t] = "publish" => at[t] < tail[u]
  BY <1>3 DEF Room, ThreadRoom
<1>6. /\ \A v \in Threads \ {t} : pc'[v] = pc[v] /\ i'[v] = i[v] /\ at'[v] = at[v]
      /\ UNCHANGED <<wcs, cqes>>
  <2>1. ASSUME LoadTail(t) \/ FindRoom(t) \/ CasTail(t)
        PROVE  /\ \A v \in Threads \ {t} : pc'[v] = pc[v] /\ at'[v] = at[v]
               /\ UNCHANGED <<wcs, i, cqes>>
    BY <2>1 DEF LoadTail, FindRoom, CasTail, PollInv, Types
  <2>2. ASSUME Refuse(t) \/ CasWrite(t)
        PROVE  /\ \A v \in Threads \ {t} : pc'[v] = pc[v] /\ i'[v] = i[v] /\ at'[v] = at[v]
               /\ UNCHANGED <<wcs, cqes>>
    <3>1. /\ pc' = [pc EXCEPT ![t] = "loop"] /\ i' = [i EXCEPT ![t] = @ + 1]
          /\ at' = [at EXCEPT ![t] = 0] /\ UNCHANGED <<wcs, cqes>>
      BY <2>2 DEF Refuse, CasWrite
    <3>2. DOMAIN pc = Threads /\ DOMAIN i = Threads /\ DOMAIN at = Threads
      BY DEF PollInv, Types
    <3> QED BY <3>1, <3>2
  <2> QED BY <2>1, <2>2 DEF PushWc
<1>7. \A v \in Threads \ {t} : SamePush(v)
  BY <1>6 DEF SamePush, Target
<1>8. \A v \in Threads : HeadOf(v)' = HeadOf(v)
  BY <1>6 DEF HeadOf
<1>9. CASE LoadTail(t)
  <2>1. UNCHANGED <<ring, tail, cqes, wcs, i>> /\ pc'[t] = "test" /\ at'[t] = tail[u]
    BY <1>3, <1>9 DEF LoadTail, PollInv, Types
  <2>2. Target(t)' = u
    BY <1>3, <2>1 DEF Target
  <2>3. ThreadRoom(t)'
    BY <1>4, <2>1, <2>2 DEF ThreadRoom
  <2> QED BY <1>7, <2>1, <2>3, RingsRest, RoomFrom DEF PollInv
<1>10. CASE FindRoom(t)
  <2>1. /\ UNCHANGED <<ring, tail, cqes, wcs, i, at>> /\ pc'[t] = "swap"
        /\ pc[t] = "test" /\ (at[t] + 1 - HeadOf(u)) % QSize # 0
    <3>1. (at[t] + 1 - HeadOf(u)) % QSize # 0
      BY <1>3, <1>10 DEF FindRoom, LooksFull
    <3>2. /\ UNCHANGED <<ring, tail, cqes, wcs, i, at>> /\ pc[t] = "test"
          /\ pc' = [pc EXCEPT ![t] = "swap"]
      BY <1>10 DEF FindRoom
    <3> QED BY <3>1, <3>2 DEF PollInv, Types
  <2>2. Target(t)' = u
    BY <1>3, <2>1 DEF Target
  <2>3. at[t] - HeadOf(u) < QSize - 1
    <3>1. CASE HeadOf(u) <= at[t]
      <4>1. at[t] - HeadOf(u) <= QSize - 1
        BY <1>4, <1>5, <2>1
      <4>2. at[t] - HeadOf(u) # QSize - 1
        BY <1>4, <2>1, <3>1, <4>1, FullIs
      <4> QED BY <1>4, <4>1, <4>2
    <3>2. CASE ~(HeadOf(u) <= at[t])
      BY <1>4, <3>2
    <3> QED BY <3>1, <3>2
  <2>4. HeadOf(Target(t))' = HeadOf(u)
    BY <1>8, <2>2 DEF HeadOf
  <2>5. ThreadRoom(t)'
    BY <2>1, <2>3, <2>4 DEF ThreadRoom
  <2> QED BY <1>7, <2>1, <2>5, RingsRest, RoomFrom DEF PollInv
<1>11. CASE Refuse(t)
  <2>1. UNCHANGED <<ring, tail, cqes>> /\ pc'[t] = "loop"
    BY <1>11 DEF Refuse, PollInv, Types
  <2>2. ThreadRoom(t)'
    BY <2>1 DEF ThreadRoom
  <2> QED BY <1>7, <2>1, <2>2, RingsRest, RoomFrom DEF PollInv
<1>12. CASE CasTail(t) /\ UNCHANGED tail
  <2>1. UNCHANGED <<ring, tail, cqes>> /\ pc'[t] = "loop"
    <3>1. tail'[u] = tail[u] /\ tail[u] + 1 # tail[u]
      BY <1>4, <1>12
    <3>2. tail' # [tail EXCEPT ![u] = @ + 1]
      BY <3>1 DEF PollInv, Types
    <3> QED BY <1>3, <1>12, <3>2 DEF CasTail, PollInv, Types
  <2>2. ThreadRoom(t)'
    BY <2>1 DEF ThreadRoom
  <2> QED BY <1>7, <2>1, <2>2, RingsRest, RoomFrom DEF PollInv
<1>13. CASE CasTail(t) /\ tail' # tail
  <2>1. /\ pc[t] = "swap" /\ tail[u] = at[t] /\ tail' = [tail EXCEPT ![u] = @ + 1]
        /\ pc'[t] = "publish" /\ UNCHANGED <<ring, wcs, i, at, cqes>>
    BY <1>3, <1>13 DEF CasTail, PollInv, Types
  <2>2. tail'[u] = tail[u] + 1 /\ \A v \in Threads \ {u} : tail'[v] = tail[v]
    BY <2>1 DEF PollInv, Types
  <2>3. Target(t)' = u
    BY <1>3, <2>1 DEF Target
  <2>4. ThreadRoom(t)'
    BY <1>4, <2>1, <2>2, <2>3 DEF ThreadRoom
  <2>5. \A v \in Threads : WriteOf(v)' = WriteOf(v)
    BY <2>1 DEF WriteOf, HeadOf
  <2>6. ASSUME NEW v \in Threads
        PROVE  HeadOf(v) <= HeadOf(v)' /\ tail[v] <= tail'[v] /\ RingRoom(v)'
    <3>1. /\ HeadOf(v) \in Nat /\ WriteOf(v) \in Nat /\ tail[v] \in Nat
          /\ WriteOf(v) <= tail[v] /\ tail[v] - HeadOf(v) <= QSize - 1
      BY <1>1 DEF Numbers, Room, RingRoom
    <3>2. CASE v = u
      <4>1. at[t] - HeadOf(u) < QSize - 1
        BY <1>5, <2>1
      <4>2. tail'[u] - HeadOf(u) <= QSize - 1 /\ WriteOf(u) <= tail'[u] /\ tail[u] <= tail'[u]
        BY <1>4, <2>1, <2>2, <4>1
      <4> QED BY <1>8, <2>5, <3>1, <3>2, <4>2 DEF RingRoom
    <3>3. CASE v # u
      BY <1>8, <2>2, <2>5, <3>1, <3>3 DEF RingRoom
    <3> QED BY <3>2, <3>3
  <2> QED BY <1>7, <2>4, <2>6, RoomFrom DEF RingsGrow
<1>14. CASE CasWrite(t)
  <2>1. /\ pc[t] = "publish" /\ WriteOf(u) = at[t] /\ pc'[t] = "loop"
        /\ ring' = [ring EXCEPT ![u] = Append(@, WrOf(wcs[t][i[t] + 1]))]
        /\ UNCHANGED <<tail, cqes>>
    BY <1>3, <1>14 DEF CasWrite, PollInv, Types
  <2>2. ring[u] \in Seq(Nat) /\ Len(ring[u]) \in Nat
    BY DEF PollInv, Types
  <2>3. Len(ring'[u]) = Len(ring[u]) + 1 /\ \A v \in Threads \ {u} : ring'[v] = ring[v]
    <3>1. /\ ring'[u] = Append(ring[u], WrOf(wcs[t][i[t] + 1]))
          /\ \A v \in Threads \ {u} : ring'[v] = ring[v]
      BY <2>1 DEF PollInv, Types
    <3> QED BY <2>2, <3>1
  <2>4. WriteOf(u)' = WriteOf(u) + 1 /\ \A v \in Threads \ {u} : WriteOf(v)' = WriteOf(v)
    <3>1. PICK h \in Nat : h = Len(cqes[u])
      BY DEF PollInv, Types
    <3>2. PICK n \in Nat : n = Len(ring[u])
      BY <2>2
    <3>3. WriteOf(u) = h + n /\ WriteOf(u)' = h + (n + 1)
      BY <2>1, <2>3, <3>1, <3>2 DEF WriteOf, HeadOf
    <3>4. \A v \in Threads \ {u} : WriteOf(v)' = WriteOf(v)
      BY <2>1, <2>3 DEF WriteOf, HeadOf
    <3> QED BY <3>3, <3>4
  <2>5. ThreadRoom(t)'
    BY <2>1 DEF ThreadRoom
  <2>6. ASSUME NEW v \in Threads
        PROVE  HeadOf(v) <= HeadOf(v)' /\ tail[v] <= tail'[v] /\ RingRoom(v)'
    <3>1. /\ HeadOf(v) \in Nat /\ WriteOf(v) \in Nat /\ tail[v] \in Nat
          /\ WriteOf(v) <= tail[v] /\ tail[v] - HeadOf(v) <= QSize - 1
      BY <1>1 DEF Numbers, Room, RingRoom
    <3>2. CASE v = u
      <4>1. WriteOf(u) < tail[u]
        BY <1>5, <2>1
      <4>2. WriteOf(u) + 1 <= tail[u]
        BY <1>4, <4>1
      <4> QED BY <1>8, <2>1, <2>4, <3>1, <3>2, <4>2 DEF RingRoom
    <3>3. CASE v # u
      BY <1>8, <2>1, <2>4, <3>1, <3>3 DEF RingRoom
    <3> QED BY <3>2, <3>3
  <2> QED BY <1>7, <2>5, <2>6, RoomFrom DEF RingsGrow
<1> QED BY <1>9, <1>10, <1>11, <1>12, <1>13, <1>14 DEF PushWc

LEMMA RoomNext == PollInv /\ Room /\ [Next]_vars => Room'
<1> SUFFICES ASSUME PollInv, Room, [Next]_vars PROVE Room'
  OBVIOUS
<1>0. Types'
  BY NextInv DEF PollInv
<1>1. 0 \in Eps
  BY PollAssumption DEF Eps
<1>2. ASSUME NEW t \in Threads, NEW e \in Eps, PostRead(t, e) \/ StartPoll(t, e)
      PROVE  Room'
  BY <1>0, <1>2, OtherRoom
<1>3. ASSUME NEW t \in Threads, PollRing(t) \/ InPoll(t)
      PROVE  Room'
  BY <1>0, <1>1, <1>3, OtherRoom, PushRoom DEF InPoll
<1>4. CASE (\E e \in Eps : Complete(e)) \/ UNCHANGED vars
  <2>1. UNCHANGED <<ring, tail, pc, wcs, i, at, cqes>>
    BY <1>4 DEF Complete, vars, callVars
  <2>2. \A v \in Threads : SamePush(v)
    BY <2>1 DEF SamePush, Target
  <2> QED BY <1>0, <2>1, <2>2, RingsRest, RoomFrom DEF PollInv
<1> QED BY <1>2, <1>3, <1>4 DEF Next

\* A push is refused because the ring is full, slots that are not published
\* yet included, or because another push got in since it loaded the tail.
THEOREM RefusedWithReason == Spec => RefusedFullOrOvertaken
<1>1. ASSUME PollInv, Room, [Next]_vars, NEW t \in Threads, ret'[t] = -1, ret[t] # -1
      PROVE  tail[Target(t)] - HeadOf(Target(t)) = QSize - 1 \/ tail[Target(t)] # at[t]
  <2>1. Refuse(t)
    <3>1. ret[t] \in Int
      BY <1>1 DEF PollInv, Types
    <3>2. ASSUME NEW u \in Threads, NEW e \in Eps,
                 PostRead(u, e) \/ StartPoll(u, e) \/ PollRing(u) \/ Complete(e) \/ UNCHANGED vars
          PROVE  FALSE
      BY <1>1, <3>2 DEF PostRead, StartPoll, PollRing, Complete, vars, callVars
    <3>3. ASSUME NEW u \in Threads, IbvPollCq(u) PROVE FALSE
      <4>1. PICK n \in Nat : ret' = [ret EXCEPT ![u] = n]
        <5>1. cq[polling[u]] \in Seq(Nat) /\ QSize \in Nat
          BY <1>1, PollAssumption DEF PollInv, Types
        <5>2. PICK n \in Nat : n = IF Len(cq[polling[u]]) < QSize
                                  THEN Len(cq[polling[u]]) ELSE QSize
          BY <5>1
        <5>3. ret' = [ret EXCEPT ![u] = n]
          BY <3>3, <5>2 DEF IbvPollCq
        <5> QED BY <5>3
      <4> QED BY <1>1, <4>1 DEF PollInv, Types
    <3>4. ASSUME NEW u \in Threads, EndPoll(u) \/ CasWrite(u) PROVE FALSE
      <4>1. ret' = [ret EXCEPT ![u] = 0]
        BY <3>4 DEF EndPoll, CasWrite
      <4> QED BY <1>1, <4>1 DEF PollInv, Types
    <3>5. ASSUME NEW u \in Threads, LoadTail(u) \/ FindRoom(u) \/ CasTail(u) PROVE FALSE
      BY <1>1, <3>5 DEF LoadTail, FindRoom, CasTail
    <3>6. ASSUME NEW u \in Threads, Refuse(u) PROVE u = t
      BY <1>1, <3>6 DEF Refuse, PollInv, Types
    <3>7. 0 \in Eps
      BY PollAssumption DEF Eps
    <3> QED BY <1>1, <3>2, <3>3, <3>4, <3>5, <3>6, <3>7 DEF Next, InPoll, PushWc
  <2>2. PICK u \in Threads : u = Target(t)
    BY <1>1, <2>1, TargetType DEF Refuse, PushLabels
  <2>3. (at[t] + 1 - HeadOf(u)) % QSize = 0
    BY <2>1, <2>2 DEF Refuse, LooksFull
  <2>4. /\ HeadOf(u) \in Nat /\ WriteOf(u) \in Nat /\ tail[u] \in Nat /\ QSize \in Nat \ {0, 1}
        /\ WriteOf(u) <= tail[u] /\ tail[u] - HeadOf(u) <= QSize - 1
    BY <1>1, NumbersAre DEF PollInv, Numbers, Room, RingRoom
  <2>5. HeadOf(u) <= WriteOf(u)
    <3>1. cqes[u] \in Seq(Nat) /\ ring[u] \in Seq(Nat)
      BY <1>1 DEF PollInv, Types
    <3>2. PICK h \in Nat : h = Len(cqes[u])
      BY <3>1
    <3>3. PICK n \in Nat : n = Len(ring[u])
      BY <3>1
    <3>4. HeadOf(u) = h /\ WriteOf(u) = h + n
      BY <3>2, <3>3 DEF HeadOf, WriteOf
    <3> QED BY <3>4
  <2>6. CASE tail[u] = at[t]
    <3>1. HeadOf(u) <= tail[u]
      BY <2>4, <2>5
    <3>2. tail[u] - HeadOf(u) = QSize - 1
      BY <2>3, <2>4, <2>6, <3>1, FullIs
    <3> QED BY <2>2, <3>2
  <2> QED BY <2>2, <2>6
<1>2. PollInv /\ Room /\ [Next]_vars =>
        [\A t \in Threads : ret'[t] = -1 /\ ret[t] # -1 =>
           LET u == Target(t)
           IN  tail[u] - HeadOf(u) = QSize - 1 \/ tail[u] # at[t]]_vars
  BY <1>1
<1>3. Spec => []Room
  BY RoomInit, RoomNext, PollInvHolds, PTL DEF Spec
<1> QED BY <1>2, <1>3, PollInvHolds, PTL DEF Spec, RefusedFullOrOvertaken
=============================================================================
