---------------------------- MODULE SharesProofs ----------------------------
(***************************************************************************)
(* The way of a share from the card that found it to the answer of its     *)
(* pool: it is in one place at a time, it is counted at most once, for     *)
(* what it is, and it is sent only to the login it was found for.  For any *)
(* number of pools, threads, shares, logins and levels of difficulty, and  *)
(* for any bound of the numbers that messages are sent with.               *)
(*                                                                         *)
(* The invariant has four parts: what the variables hold (Types), that the *)
(* numbers of a Client's notes and messages have been used and agree       *)
(* (Sound), that no share is in two places (Placed), and that the list of  *)
(* the best ones counts the shares that were accepted (Ranked).            *)
(***************************************************************************)
EXTENDS Shares, FiniteSetTheorems, SequenceTheorems, WellFoundedInduction, TLAPS

-----------------------------------------------------------------------------
(* Natural numbers.                                                         *)

(* A set of natural numbers that is not empty has a least element.          *)
LEMMA LeastOf ==
    ASSUME NEW T, T \subseteq Nat, T # {}
    PROVE  \E i \in T : \A j \in T : i <= j
  <1>1. PICK i \in T : \A j \in T : ~(<<j, i>> \in OpToRel(<, Nat))
    BY NatLessThanWellFounded, WFMin
  <1>2. ASSUME NEW j \in T PROVE i <= j
    <2>1. i \in Nat /\ j \in Nat
      OBVIOUS
    <2>2. ~(j < i)
      BY <1>1, <2>1 DEF OpToRel
    <2> QED BY <2>1, <2>2
  <1> QED BY <1>2

(* A set that has 0 and, with each number below n, the next one, has all of *)
(* them: by the least one that it would lack.                               *)
LEMMA UpTo ==
    ASSUME NEW n \in Nat, NEW T, 0 \in T, \A i \in 1..n : i - 1 \in T => i \in T
    PROVE  \A i \in 0..n : i \in T
  <1> DEFINE Lacks == {i \in 0..n : i \notin T}
  <1>1. SUFFICES Lacks = {}
    OBVIOUS
  <1>2. SUFFICES ASSUME Lacks # {} PROVE FALSE
    OBVIOUS
  <1>3. PICK i \in Lacks : \A j \in Lacks : i <= j
    <2>1. Lacks \subseteq Nat
      OBVIOUS
    <2> HIDE DEF Lacks
    <2> QED BY <1>2, <2>1, LeastOf
  <1>4. i \in 1..n /\ i - 1 \in 0..n
    BY <1>3
  <1>5. i - 1 \in T
    BY <1>3, <1>4
  <1> QED BY <1>3, <1>4, <1>5

-----------------------------------------------------------------------------
(* A list of the best shares.                                               *)

Falling(t) == \A i, j \in 1..Best : i < j => t[i] >= t[j]

AtLeast(t, d) == {i \in 1..Best : t[i] >= d}

(* A list that is sorted but for its last place can be sorted.              *)
LEMMA SortExists ==
    ASSUME SharesAssumption, NEW t \in [1..Best -> Nat], Falling(t), NEW x \in Nat
    PROVE  LET s == [t EXCEPT ![Best] = x]
           IN  \E f \in Bijection(1..Best, 1..Best) : Falling([i \in 1..Best |-> s[f[i]]])
  <1> DEFINE s == [t EXCEPT ![Best] = x]
             Lower == {i \in 1..Best : s[i] <= x}
  <1>0. Best \in Nat \ {0} /\ Best \in 1..Best
    BY DEF SharesAssumption
  <1>1. s \in [1..Best -> Nat] /\ s[Best] = x /\ \A i \in 1..Best : i # Best => s[i] = t[i]
    BY <1>0
  <1>2. PICK k \in Lower : \A j \in Lower : k <= j
    <2>1. Best \in Lower /\ Lower \subseteq Nat
      BY <1>0, <1>1
    <2> HIDE DEF Lower
    <2> QED BY <2>1, LeastOf
  <1>3. k \in 1..Best /\ s[k] <= x /\ \A i \in 1..Best : i < k => s[i] > x
    BY <1>1, <1>2
  <1> DEFINE f == [i \in 1..Best |-> IF i < k THEN i ELSE IF i = k THEN Best ELSE i - 1]
  <1>4. f \in Bijection(1..Best, 1..Best)
    <2>1. f \in [1..Best -> 1..Best]
      BY <1>0, <1>3
    <2>2. ASSUME NEW a \in 1..Best, NEW b \in 1..Best, f[a] = f[b] PROVE a = b
      BY <1>0, <1>3, <2>2
    <2>3. ASSUME NEW y \in 1..Best PROVE \E i \in 1..Best : f[i] = y
      <3>1. CASE y < k
        BY <3>1
      <3>2. CASE y = Best
        BY <3>2, <1>3
      <3>3. CASE y >= k /\ y # Best
        <4>1. y + 1 \in 1..Best /\ f[y + 1] = y
          BY <3>3, <1>0, <1>3
        <4> QED BY <4>1
      <3> QED BY <3>1, <3>2, <3>3, <1>3
    <2> HIDE DEF f
    <2> QED BY <2>1, <2>2, <2>3 DEF Bijection, Injection, IsInjective, Surjection
  <1> DEFINE r == [i \in 1..Best |-> s[f[i]]]
  <1>5. ASSUME NEW i \in 1..Best, NEW j \in 1..Best, i < j PROVE r[i] >= r[j]
    <2>1. r[i] = s[f[i]] /\ r[j] = s[f[j]]
      OBVIOUS
    <2>2. CASE j < k
      <3>1. r[i] = t[i] /\ r[j] = t[j]
        BY <1>0, <1>1, <1>3, <1>5, <2>1, <2>2
      <3> QED BY <3>1, <1>5 DEF Falling
    <2>3. CASE i < k /\ j = k
      <3>1. r[i] = s[i] /\ r[j] = x
        BY <1>0, <1>1, <1>3, <1>5, <2>1, <2>3
      <3> QED BY <3>1, <1>1, <1>3, <2>3
    <2>4. ASSUME j > k PROVE j - 1 \in 1..Best /\ r[j] = t[j - 1] /\ t[j - 1] \in Nat /\ t[j - 1] <= x
      <3>1. j - 1 \in 1..Best /\ j - 1 # Best /\ j - 1 >= k
        BY <1>3, <2>4
      <3>2. r[j] = t[j - 1] /\ t[j - 1] \in Nat
        BY <1>1, <2>1, <2>4, <3>1
      <3>3. k # Best
        BY <1>3, <2>4
      <3>4. s[k] = t[k] /\ t[k] >= t[j - 1] /\ t[k] \in Nat
        <4>1. CASE k = j - 1
          BY <4>1, <3>3, <1>1, <1>3
        <4>2. CASE k < j - 1
          BY <4>2, <3>1, <3>3, <1>1, <1>3 DEF Falling
        <4> QED BY <4>1, <4>2, <3>1, <1>3
      <3> QED BY <1>3, <3>1, <3>2, <3>4
    <2>5. CASE i < k /\ j > k
      <3>1. r[i] = s[i] /\ s[i] > x /\ s[i] \in Nat
        BY <1>1, <1>3, <2>1, <2>5
      <3> QED BY <2>4, <2>5, <3>1
    <2>6. CASE i = k
      <3>1. r[i] = x
        BY <1>1, <2>1, <2>6
      <3> QED BY <2>4, <2>6, <3>1, <1>5
    <2>7. CASE i > k
      <3>1. i - 1 \in 1..Best /\ i - 1 # Best /\ r[i] = t[i - 1]
        BY <1>1, <1>3, <2>1, <2>7
      <3>2. j > k /\ i - 1 < j - 1
        BY <1>3, <2>7, <1>5
      <3> QED BY <2>4, <3>1, <3>2 DEF Falling
    <2> QED BY <2>2, <2>3, <2>5, <2>6, <2>7, <1>3
  <1> HIDE DEF f, s
  <1>6. Falling([i \in 1..Best |-> s[f[i]]])
    BY <1>5 DEF Falling
  <1> QED BY <1>4, <1>6 DEF s

(* Sorting keeps how many entries are at least d.                           *)
LEMMA Sorted ==
    ASSUME SharesAssumption, NEW t \in [1..Best -> Nat], Falling(t), NEW x \in Nat
    PROVE  LET s == [t EXCEPT ![Best] = x]
               r == Descending(s)
           IN  /\ Falling(r)
               /\ \E f \in Bijection(1..Best, 1..Best) : r = [i \in 1..Best |-> s[f[i]]]
  <1> DEFINE s == [t EXCEPT ![Best] = x]
             Orders == {[i \in 1..Best |-> s[f[i]]] : f \in Bijection(1..Best, 1..Best)}
  <1>1. DOMAIN s = 1..Best
    OBVIOUS
  <1>2. \E r \in Orders : Falling(r)
    <2>1. \E f \in Bijection(1..Best, 1..Best) : Falling([i \in 1..Best |-> s[f[i]]])
      BY SortExists
    <2> QED BY <2>1
  <1>3. Descending(s) = CHOOSE r \in Orders : Falling(r)
    <2> HIDE DEF s
    <2> QED BY <1>1 DEF Descending, Falling
  <1>4. Descending(s) \in Orders /\ Falling(Descending(s))
    <2> HIDE DEF Orders
    <2> QED BY <1>2, <1>3
  <1> QED BY <1>4

(* A list that is put in another order holds as many values of at least d.  *)
LEMMA SameCount ==
    ASSUME SharesAssumption, NEW f \in Bijection(1..Best, 1..Best),
           NEW s \in [1..Best -> Nat], NEW d \in Nat
    PROVE  Cardinality(AtLeast([i \in 1..Best |-> s[f[i]]], d)) = Cardinality(AtLeast(s, d))
  <1> DEFINE r == [i \in 1..Best |-> s[f[i]]]
             g == [i \in AtLeast(r, d) |-> f[i]]
  <1>1. /\ f \in [1..Best -> 1..Best]
        /\ \A a, b \in 1..Best : f[a] = f[b] => a = b
        /\ \A y \in 1..Best : \E a \in 1..Best : f[a] = y
    BY DEF Bijection, Injection, IsInjective, Surjection
  <1>2. \A i \in 1..Best : i \in AtLeast(r, d) <=> f[i] \in AtLeast(s, d)
    BY <1>1 DEF AtLeast
  <1>3. AtLeast(r, d) \subseteq 1..Best /\ AtLeast(s, d) \subseteq 1..Best
    BY DEF AtLeast
  <1> HIDE DEF r
  <1>4. g \in [AtLeast(r, d) -> AtLeast(s, d)]
    BY <1>1, <1>2, <1>3
  <1>5. \A a, b \in AtLeast(r, d) : g[a] = g[b] => a = b
    BY <1>1, <1>3
  <1>6. \A y \in AtLeast(s, d) : \E a \in AtLeast(r, d) : g[a] = y
    BY <1>1, <1>2, <1>3
  <1>7. g \in Bijection(AtLeast(r, d), AtLeast(s, d))
    <2> HIDE DEF g
    <2> QED BY ONLY <1>4, <1>5, <1>6 DEF Bijection, Injection, IsInjective, Surjection
  <1>8. IsFiniteSet(AtLeast(r, d))
    <2>1. IsFiniteSet(1..Best)
      BY FS_Interval DEF SharesAssumption
    <2> QED BY <2>1, <1>3, FS_Subset
  <1>9. ExistsBijection(AtLeast(r, d), AtLeast(s, d))
    BY <1>7 DEF ExistsBijection
  <1> QED BY <1>8, <1>9, FS_Bijection DEF r

(* The list t holds the Best greatest of the shares in B, as far as d tells. *)
Ranks(t, B, d) ==
    LET better == Cardinality({s \in B : s.diff >= d})
    IN  Cardinality(AtLeast(t, d)) = IF better < Best THEN better ELSE Best

(* A list whose last value is at least d holds no smaller one.              *)
LEMMA AllAtLeast ==
    ASSUME SharesAssumption, NEW t \in [1..Best -> Nat], Falling(t), NEW d \in Nat, t[Best] >= d
    PROVE  AtLeast(t, d) = 1..Best /\ Cardinality(AtLeast(t, d)) = Best
  <1>1. Best \in Nat \ {0} /\ Best \in 1..Best
    BY DEF SharesAssumption
  <1>2. ASSUME NEW i \in 1..Best PROVE t[i] >= d
    <2>1. t[i] \in Nat /\ t[Best] \in Nat /\ (i = Best \/ t[i] >= t[Best])
      BY <1>1 DEF Falling
    <2> QED BY <2>1
  <1>3. AtLeast(t, d) = 1..Best
    BY <1>2 DEF AtLeast
  <1> QED BY <1>1, <1>3, FS_Interval

(* add() of a share that was not yet accepted keeps the best ones.          *)
LEMMA RecordRanks ==
    ASSUME SharesAssumption, topDiff \in [1..Best -> Nat], Falling(topDiff),
           NEW B, IsFiniteSet(B), NEW share, share \notin B, share.diff \in Nat,
           NEW d \in Nat, Ranks(topDiff, B, d)
    PROVE  Ranks(Record(share.diff), B \cup {share}, d)
  <1> DEFINE x == share.diff
             above == {s \in B : s.diff >= d}
             above1 == {s \in B \cup {share} : s.diff >= d}
             better == Cardinality(above)
             s0 == [topDiff EXCEPT ![Best] = x]
  <1>1. Best \in Nat \ {0} /\ Best \in 1..Best
    BY DEF SharesAssumption
  <1>2. /\ IsFiniteSet(above) /\ better \in Nat
        /\ x >= d => Cardinality(above1) = better + 1
        /\ x < d => Cardinality(above1) = better
    <2>1. IsFiniteSet(above) /\ share \notin above
      BY FS_Subset
    <2>2. better \in Nat
      BY <2>1, FS_CardinalityType
    <2>3. x >= d => above1 = above \cup {share}
      OBVIOUS
    <2>4. x < d => above1 = above
      OBVIOUS
    <2>5. Cardinality(above \cup {share}) = better + 1
      <3> HIDE DEF above
      <3> QED BY <2>1, FS_AddElement
    <2> QED BY <2>1, <2>2, <2>3, <2>4, <2>5
  <1>3. Cardinality(AtLeast(topDiff, d)) = IF better < Best THEN better ELSE Best
    BY DEF Ranks
  <1>4. topDiff[Best] \in Nat
    BY <1>1
  <1>5. SUFFICES Cardinality(AtLeast(Record(x), d))
                    = IF Cardinality(above1) < Best THEN Cardinality(above1) ELSE Best
    BY DEF Ranks
  <1>6. CASE topDiff[Best] >= x
    <2>1. Record(x) = topDiff
      BY <1>4, <1>6 DEF Record
    <2>2. CASE x >= d
      <3>1. topDiff[Best] >= d
        BY <1>4, <1>6, <2>2
      <3>2. Cardinality(AtLeast(topDiff, d)) = Best
        BY <3>1, AllAtLeast
      <3> QED BY <1>1, <1>2, <1>3, <2>1, <2>2, <3>2
    <2>3. CASE x < d
      BY <1>2, <1>3, <2>1, <2>3
    <2> QED BY <2>2, <2>3
  <1>7. CASE x > topDiff[Best]
    <2>1. s0 \in [1..Best -> Nat]
      OBVIOUS
    <2>2. PICK f \in Bijection(1..Best, 1..Best) : Record(x) = [i \in 1..Best |-> s0[f[i]]]
      <3>1. Record(x) = Descending(s0)
        BY <1>7 DEF Record
      <3>2. \E f \in Bijection(1..Best, 1..Best) : Descending(s0) = [i \in 1..Best |-> s0[f[i]]]
        BY Sorted
      <3> QED BY <3>1, <3>2
    <2>3. Cardinality(AtLeast(Record(x), d)) = Cardinality(AtLeast(s0, d))
      <3> HIDE DEF s0
      <3>1. Cardinality(AtLeast([i \in 1..Best |-> s0[f[i]]], d)) = Cardinality(AtLeast(s0, d))
        BY <2>1, SameCount
      <3> QED BY <2>2, <3>1
    <2>4. IsFiniteSet(AtLeast(topDiff, d))
      <3>1. IsFiniteSet(1..Best) /\ AtLeast(topDiff, d) \in SUBSET (1..Best)
        BY <1>1, FS_Interval DEF AtLeast
      <3> QED BY <3>1, FS_Subset
    <2>5. CASE x < d
      <3>1. AtLeast(s0, d) = AtLeast(topDiff, d)
        BY <1>1, <1>4, <1>7, <2>5 DEF AtLeast
      <3> QED BY <3>1, <2>3, <2>5, <1>2, <1>3
    <2>6. CASE x >= d /\ topDiff[Best] >= d
      <3>1. AtLeast(topDiff, d) = 1..Best /\ Cardinality(AtLeast(topDiff, d)) = Best
        BY <2>6, AllAtLeast
      <3>2. AtLeast(s0, d) = 1..Best
        BY <1>1, <2>6, <3>1 DEF AtLeast
      <3> QED BY <3>1, <3>2, <2>3, <2>6, <1>1, <1>2, <1>3
    <2>7. CASE x >= d /\ topDiff[Best] < d
      <3>1. Best \notin AtLeast(topDiff, d) /\ AtLeast(s0, d) = AtLeast(topDiff, d) \cup {Best}
        BY <1>1, <1>4, <2>7 DEF AtLeast
      <3>2. Cardinality(AtLeast(s0, d)) = Cardinality(AtLeast(topDiff, d)) + 1
        BY <3>1, <2>4, FS_AddElement
      <3>3. Cardinality(AtLeast(topDiff, d)) < Best
        <4>1. IsFiniteSet(1..Best) /\ Cardinality(1..Best) = Best
          BY <1>1, FS_Interval
        <4>2. AtLeast(topDiff, d) \in SUBSET (1..Best) /\ AtLeast(topDiff, d) # 1..Best
          BY <1>1, <3>1 DEF AtLeast
        <4>3. Cardinality(AtLeast(topDiff, d)) \in Nat
          BY <2>4, FS_CardinalityType
        <4>4. /\ Cardinality(AtLeast(topDiff, d)) <= Cardinality(1..Best)
              /\ Cardinality(AtLeast(topDiff, d)) # Cardinality(1..Best)
          BY <4>1, <4>2, FS_Subset
        <4> QED BY <1>1, <4>1, <4>3, <4>4
      <3> QED BY <3>2, <3>3, <2>3, <2>7, <1>1, <1>2, <1>3
    <2> QED BY <2>5, <2>6, <2>7, <1>4
  <1> QED BY <1>4, <1>6, <1>7

(* add() leaves the list sorted.                                            *)
LEMMA RecordFalls ==
    ASSUME SharesAssumption, NEW L \in SUBSET Nat, topDiff \in [1..Best -> L],
           Falling(topDiff), NEW x \in L
    PROVE  Record(x) \in [1..Best -> L] /\ Falling(Record(x))
  <1>1. CASE Record(x) = topDiff
    BY <1>1
  <1>2. CASE Record(x) # topDiff
    <2> DEFINE s0 == [topDiff EXCEPT ![Best] = x]
    <2>1. Record(x) = Descending(s0) /\ topDiff \in [1..Best -> Nat] /\ s0 \in [1..Best -> L]
      BY <1>2 DEF Record
    <2>2. /\ Falling(Descending(s0))
          /\ \E f \in Bijection(1..Best, 1..Best) : Descending(s0) = [i \in 1..Best |-> s0[f[i]]]
      BY <2>1, Sorted
    <2>3. PICK f \in Bijection(1..Best, 1..Best) : Descending(s0) = [i \in 1..Best |-> s0[f[i]]]
      BY <2>2
    <2>4. f \in [1..Best -> 1..Best]
      BY DEF Bijection, Injection
    <2>5. [i \in 1..Best |-> s0[f[i]]] \in [1..Best -> L]
      BY <2>1, <2>4
    <2> HIDE DEF s0
    <2>6. Descending(s0) \in [1..Best -> L]
      BY <2>3, <2>5
    <2> QED BY ONLY <2>1, <2>2, <2>6
  <1> QED BY <1>1, <1>2

-----------------------------------------------------------------------------
(* The Clients.                                                             *)

Notes   == UNION {[D -> Share] : D \in SUBSET Numbers}
Message == Numbers \X ((1..MaxShares) \cup {LoginMessage, PingMessage})
Client  == [state : {"down", "login", "up"}, rpcId : Ids \cup {0}, sequence : Numbers,
            results : Notes, wire : SUBSET Message, given : SUBSET Ids]

(* What holds of a Client c of pool p.  The numbers of the messages under   *)
(* way and of the notes have been used, but for a note made while the       *)
(* Client was down; and no note has the number of a login.                  *)
Sound(p, c) ==
    /\ c.rpcId \in Logins[p] \cup {0} /\ c.given \subseteq Logins[p]
    /\ c.rpcId # 0 => c.sequence > 1
    /\ c.state = "down" => c.wire = {}
    /\ \A m \in c.wire : m[1] < c.sequence
    /\ \A i \in DOMAIN c.results :
          /\ 1 < i /\ i <= c.sequence
          /\ c.state # "down" => i < c.sequence
    /\ \A m \in c.wire : m[1] \in DOMAIN c.results => c.results[m[1]].n = m[2]

InNotes(c) == {c.results[i].n : i \in DOMAIN c.results}

(* The parts of a Client, of a share and of a message.                      *)
LEMMA ClientFacts ==
    ASSUME NEW c \in Client
    PROVE  /\ c.state \in {"down", "login", "up"} /\ c.rpcId \in Ids \cup {0}
           /\ c.sequence \in Nat \ {0} /\ c.wire \subseteq Message /\ c.given \subseteq Ids
           /\ DOMAIN c.results \subseteq Nat \ {0}
           /\ \A i \in DOMAIN c.results : c.results[i] \in Share
           /\ c.results = [i \in DOMAIN c.results |-> c.results[i]]
           /\ c = [state |-> c.state, rpcId |-> c.rpcId, sequence |-> c.sequence,
                   results |-> c.results, wire |-> c.wire, given |-> c.given]
  <1>1. c.results \in Notes
    BY DEF Client
  <1>2. PICK D \in SUBSET Numbers : c.results \in [D -> Share]
    BY <1>1 DEF Notes
  <1>3. /\ DOMAIN c.results \subseteq Nat \ {0}
        /\ \A i \in DOMAIN c.results : c.results[i] \in Share
        /\ c.results = [i \in DOMAIN c.results |-> c.results[i]]
    BY <1>2 DEF Numbers
  <1> QED BY <1>3 DEF Client, Numbers

LEMMA MakesNotes ==
    ASSUME NEW D \in SUBSET (Nat \ {0}), NEW e \in [D -> Share]
    PROVE  e \in Notes
  BY DEF Notes, Numbers

LEMMA ShareFacts ==
    ASSUME NEW s \in Share
    PROVE  /\ s.n \in 1..MaxShares /\ s.poolId \in Pools /\ s.clientId \in Ids
           /\ s.diff \in Levels /\ s.clientId \in Logins[s.poolId]
  BY DEF Share

LEMMA MessageFacts ==
    ASSUME NEW m \in Message
    PROVE  /\ m[1] \in Nat \ {0} /\ m[2] \in (1..MaxShares) \cup {-1, 0}
           /\ m = <<m[1], m[2]>>
  BY DEF Message, Numbers, LoginMessage, PingMessage

(* A share that is noted leaves the other notes as they are.                *)
LEMMA WithNoteFacts ==
    ASSUME NEW c \in Client, NEW s \in Share
    PROVE  LET d == WithNote(c, s)
           IN  /\ d \in Client
               /\ d.state = c.state /\ d.rpcId = c.rpcId /\ d.sequence = c.sequence
               /\ d.wire = c.wire /\ d.given = c.given
               /\ DOMAIN d.results = DOMAIN c.results \cup {c.sequence}
               /\ d.results[c.sequence] = s
               /\ \A i \in DOMAIN c.results : i # c.sequence => d.results[i] = c.results[i]
  <1> DEFINE new == [i \in DOMAIN c.results \cup {c.sequence} |->
                       IF i = c.sequence THEN s ELSE c.results[i]]
             d == [state |-> c.state, rpcId |-> c.rpcId, sequence |-> c.sequence,
                   results |-> new, wire |-> c.wire, given |-> c.given]
  <1>1. WithNote(c, s) = d
    BY DEF Client, WithNote
  <1>2. DOMAIN c.results \cup {c.sequence} \in SUBSET (Nat \ {0})
    BY ClientFacts
  <1>3. new \in [DOMAIN c.results \cup {c.sequence} -> Share]
    BY ClientFacts
  <1>4. new \in Notes
    <2> HIDE DEF new
    <2> QED BY <1>2, <1>3, MakesNotes
  <1>5. d \in Client
    <2> HIDE DEF new
    <2> QED BY <1>4, ClientFacts DEF Client, Numbers
  <1> QED BY <1>1, <1>5

(* A message that is sent by a Client, whose connection may turn out lost.   *)
LEMMA SendFacts ==
    ASSUME NEW c \in Client, NEW id \in Nat \ {0}, NEW written \in BOOLEAN,
           NEW what \in (1..MaxShares) \cup {LoginMessage, PingMessage}
    PROVE  LET d == Send(c, id, what, written)
           IN  /\ d \in Client
               /\ d.rpcId = c.rpcId /\ d.given = c.given /\ d.results = c.results
               /\ \/ d = c /\ c.state = "down"
                  \/ /\ c.state # "down" /\ d.state = c.state
                     /\ d.sequence = c.sequence + 1 /\ d.wire = c.wire \cup {<<id, what>>}
                  \/ d.state = "down" /\ d.sequence = c.sequence /\ d.wire = {}
  <1>1. CASE c.state = "down"
    BY <1>1 DEF Send
  <1>2. CASE c.state # "down" /\ written
    <2> DEFINE d == [state |-> c.state, rpcId |-> c.rpcId, sequence |-> c.sequence + 1,
                     results |-> c.results, wire |-> c.wire \cup {<<id, what>>},
                     given |-> c.given]
    <2>1. Send(c, id, what, written) = d
      BY <1>2 DEF Client, Send
    <2>2. <<id, what>> \in Message
      BY DEF Message, Numbers
    <2>3. c.sequence \in Nat \ {0} /\ c.wire \subseteq Message
      BY ClientFacts
    <2>4. c.sequence + 1 \in Nat \ {0} /\ c.wire \cup {<<id, what>>} \in SUBSET Message
      BY <2>2, <2>3
    <2>5. d \in Client
      BY <2>4 DEF Client, Numbers
    <2>6. /\ d.rpcId = c.rpcId /\ d.given = c.given /\ d.results = c.results
          /\ d.state = c.state /\ d.sequence = c.sequence + 1
          /\ d.wire = c.wire \cup {<<id, what>>}
      OBVIOUS
    <2> HIDE DEF d
    <2> QED BY <1>2, <2>1, <2>5, <2>6
  <1>3. CASE c.state # "down" /\ ~written
    <2> DEFINE d == [state |-> "down", rpcId |-> c.rpcId, sequence |-> c.sequence,
                     results |-> c.results, wire |-> {}, given |-> c.given]
    <2>1. Send(c, id, what, written) = d
      BY <1>3 DEF Client, Send, Down
    <2>2. d \in Client
      BY DEF Client
    <2> QED BY <2>1, <2>2
  <1> QED BY <1>1, <1>2, <1>3

(* What submit() does to a sound Client, with a share it has not noted.      *)
LEMMA SubmitFacts ==
    ASSUME SharesAssumption, NEW p \in Pools, NEW c \in Client, Sound(p, c),
           NEW s \in Share, s.n \notin InNotes(c), NEW written \in BOOLEAN
    PROVE  LET d == SubmitResult(c, s, written)
           IN  /\ d \in Client /\ Sound(p, d) /\ d.rpcId = c.rpcId
               /\ \A i \in DOMAIN d.results :
                     \/ i \in DOMAIN c.results /\ d.results[i] = c.results[i]
                     \/ i = c.sequence /\ d.results[i] = s
               /\ \A m \in d.wire :
                     \/ /\ m \in c.wire
                        /\ m[1] \in DOMAIN c.results =>
                              m[1] \in DOMAIN d.results /\ d.results[m[1]] = c.results[m[1]]
                     \/ m[1] \in DOMAIN d.results /\ d.results[m[1]] = s /\ s.clientId = c.rpcId
  <1> DEFINE d == SubmitResult(c, s, written)
             e == WithNote(c, s)
  <1>1. CASE s.clientId # c.rpcId
    BY <1>1 DEF SubmitResult
  <1>2. CASE s.clientId = c.rpcId
    <2>1. d = Send(e, c.sequence, s.n, written)
      BY <1>2 DEF SubmitResult
    <2>2. /\ e \in Client
          /\ e.state = c.state /\ e.rpcId = c.rpcId /\ e.sequence = c.sequence
          /\ e.wire = c.wire /\ e.given = c.given
          /\ DOMAIN e.results = DOMAIN c.results \cup {c.sequence}
          /\ e.results[c.sequence] = s
          /\ \A i \in DOMAIN c.results : i # c.sequence => e.results[i] = c.results[i]
      BY WithNoteFacts
    <2>3. /\ c.sequence \in Nat \ {0} /\ c.rpcId # 0 /\ c.sequence > 1
          /\ DOMAIN c.results \subseteq Nat \ {0} /\ c.wire \subseteq Message
          /\ s.n \in 1..MaxShares
      <3>1. c.rpcId # 0
        BY <1>2, ShareFacts DEF SharesAssumption
      <3> QED BY <3>1, ClientFacts, ShareFacts DEF Sound
    <2> HIDE DEF e
    <2>4. /\ d \in Client
          /\ d.rpcId = e.rpcId /\ d.given = e.given /\ d.results = e.results
          /\ \/ d = e /\ e.state = "down"
             \/ /\ e.state # "down" /\ d.state = e.state
                /\ d.sequence = e.sequence + 1 /\ d.wire = e.wire \cup {<<c.sequence, s.n>>}
             \/ d.state = "down" /\ d.sequence = e.sequence /\ d.wire = {}
      <3>1. s.n \in (1..MaxShares) \cup {LoginMessage, PingMessage}
        BY <2>3
      <3>2. LET g == Send(e, c.sequence, s.n, written)
            IN  /\ g \in Client
                /\ g.rpcId = e.rpcId /\ g.given = e.given /\ g.results = e.results
                /\ \/ g = e /\ e.state = "down"
                   \/ /\ e.state # "down" /\ g.state = e.state
                      /\ g.sequence = e.sequence + 1 /\ g.wire = e.wire \cup {<<c.sequence, s.n>>}
                   \/ g.state = "down" /\ g.sequence = e.sequence /\ g.wire = {}
        <4>1. e \in Client /\ c.sequence \in Nat \ {0}
          BY <2>2, <2>3
        <4> HIDE DEF d
        <4> QED BY ONLY <4>1, <3>1, written \in BOOLEAN, SendFacts
      <3> HIDE DEF d
      <3> QED BY <2>1, <3>2
    <2> HIDE DEF d
    <2>5. ASSUME NEW i \in DOMAIN d.results
          PROVE  \/ i \in DOMAIN c.results /\ i # c.sequence /\ d.results[i] = c.results[i]
                 \/ i = c.sequence /\ d.results[i] = s
      BY <2>2, <2>4
    <2>6. /\ d.wire \subseteq c.wire \cup {<<c.sequence, s.n>>}
          /\ d.sequence = c.sequence \/ d.sequence = c.sequence + 1
          /\ d.state # "down" => c.state # "down" /\ d.sequence = c.sequence + 1
          /\ <<c.sequence, s.n>> \in d.wire => d.sequence = c.sequence + 1
          /\ d.state = "down" => d.wire = {}
      <3>1. c.state = "down" => c.wire = {}
        BY DEF Sound
      <3>2. \A m \in c.wire : m[1] < c.sequence
        BY DEF Sound
      <3>3. <<c.sequence, s.n>> \notin c.wire
        BY <2>3, <3>2
      <3> QED BY <2>2, <2>3, <2>4, <3>1, <3>3
    <2>7. ASSUME NEW m \in d.wire
          PROVE  /\ m[1] < d.sequence
                 /\ \/ /\ m \in c.wire
                       /\ m[1] \in DOMAIN c.results =>
                             m[1] \in DOMAIN d.results /\ d.results[m[1]] = c.results[m[1]]
                    \/ m[1] \in DOMAIN d.results /\ d.results[m[1]] = s
                 /\ m[1] \in DOMAIN d.results => d.results[m[1]].n = m[2]
      <3>1. CASE m \in c.wire
        <4>1. m[1] \in Nat /\ m[1] < c.sequence /\ m[1] # c.sequence
          BY <2>3, <3>1, MessageFacts DEF Sound
        <4>2. m[1] \in DOMAIN c.results => c.results[m[1]].n = m[2]
          BY <3>1 DEF Sound
        <4> QED BY <2>2, <2>3, <2>4, <2>6, <3>1, <4>1, <4>2
      <3>2. CASE m = <<c.sequence, s.n>>
        <4>1. m[1] = c.sequence /\ m[2] = s.n
          BY <3>2
        <4> QED BY <2>2, <2>3, <2>4, <2>6, <3>2, <4>1
      <3> QED BY <2>6, <3>1, <3>2
    <2>8. Sound(p, d)
      <3>1. d.rpcId \in Logins[p] \cup {0} /\ d.given \subseteq Logins[p]
        BY <2>2, <2>4 DEF Sound
      <3>2. d.sequence > 1
        BY <2>3, <2>6
      <3>3. ASSUME NEW i \in DOMAIN d.results
            PROVE  1 < i /\ i <= d.sequence /\ (d.state # "down" => i < d.sequence)
        <4>1. CASE i = c.sequence
          BY <4>1, <2>3, <2>6
        <4>2. CASE i # c.sequence
          <5>1. i \in DOMAIN c.results /\ i \in Nat
            BY <2>3, <2>5, <4>2
          <5>2. 1 < i /\ i <= c.sequence /\ (c.state # "down" => i < c.sequence)
            BY <5>1 DEF Sound
          <5> QED BY <5>1, <5>2, <2>3, <2>6
        <4> QED BY <4>1, <4>2
      <3> QED BY <2>6, <2>7, <3>1, <3>2, <3>3 DEF Sound
    <2> QED BY <1>2, <2>2, <2>4, <2>5, <2>7, <2>8 DEF d
  <1> QED BY <1>1, <1>2

-----------------------------------------------------------------------------
(* The submission of a batch, one share after the other.                    *)

(* No share is noted twice, and none is twice in a batch.                   *)
NotesApart(cs) ==
    \A p, q \in Pools : \A i \in DOMAIN cs[p].results, j \in DOMAIN cs[q].results :
        cs[p].results[i].n = cs[q].results[j].n => p = q /\ i = j

JobsApart(b) == \A i, j \in DOMAIN b.jobs : b.jobs[i].n = b.jobs[j].n => i = j

InBatch(b) == {b.jobs[i].n : i \in DOMAIN b.jobs}

(* The Clients after the first k shares of a batch.                         *)
Reached(cs, b, k) ==
    /\ cs \in [Pools -> Client]
    /\ \A p \in Pools : Sound(p, cs[p]) /\ cs[p].rpcId = clients[p].rpcId
    /\ NotesApart(cs)
    /\ \A p \in Pools : \A i \in DOMAIN cs[p].results :
          \/ i \in DOMAIN clients[p].results /\ cs[p].results[i] = clients[p].results[i]
          \/ \E l \in 1..k : cs[p].results[i] = b.jobs[l]
    /\ \A p \in Pools : \A m \in cs[p].wire :
          \/ m \in clients[p].wire
          \/ /\ m[1] \in DOMAIN cs[p].results
             /\ cs[p].results[m[1]].poolId = p
             /\ cs[p].results[m[1]].clientId = clients[p].rpcId

(* A share that is not submitted, and one that is.                          *)
LEMMA ReachedMore ==
    ASSUME NEW cs, NEW b, NEW k \in Nat, Reached(cs, b, k)
    PROVE  Reached(cs, b, k + 1)
  <1>1. \A l \in 1..k : l \in 1..(k + 1)
    OBVIOUS
  <1> QED BY <1>1 DEF Reached

LEMMA ReachedNext ==
    ASSUME SharesAssumption, LoginsDiffer, active \in Users \cup {-1}, NEW b,
           b.jobs \in Seq(Share), JobsApart(b),
           \A p \in Pools : InBatch(b) \cap InNotes(clients[p]) = {},
           NEW k \in 1..Len(b.jobs), NEW written \in BOOLEAN,
           NEW cs, Reached(cs, b, k - 1)
    PROVE  Reached(OnJobResult(cs, b.jobs[k], written), b, k)
  <1> DEFINE s == b.jobs[k]
  <1>1. /\ k - 1 \in Nat /\ k = (k - 1) + 1
        /\ DOMAIN b.jobs = 1..Len(b.jobs) /\ Len(b.jobs) \in Nat /\ s \in Share
    BY ElementOfSeq, LenProperties
  <1>2. Reached(cs, b, k)
    BY <1>1, ReachedMore
  <1>3. CASE OnJobResult(cs, s, written) = cs
    BY <1>2, <1>3
  <1>4. ASSUME NEW q \in Pools, OnJobResult(cs, s, written) = [cs EXCEPT ![q] = SubmitResult(@, s, written)],
               s.clientId \in Logins[q] => s.poolId = q
        PROVE  Reached(OnJobResult(cs, s, written), b, k)
    <2> DEFINE d == SubmitResult(cs[q], s, written)
               cs2 == [cs EXCEPT ![q] = d]
    <2>1. /\ cs \in [Pools -> Client]
          /\ \A p \in Pools : Sound(p, cs[p]) /\ cs[p].rpcId = clients[p].rpcId
          /\ NotesApart(cs)
      BY DEF Reached
    <2>2. ASSUME NEW p \in Pools, NEW i \in DOMAIN cs[p].results PROVE cs[p].results[i].n # s.n
      <3>1. CASE i \in DOMAIN clients[p].results /\ cs[p].results[i] = clients[p].results[i]
        <4>1. cs[p].results[i].n \in InNotes(clients[p])
          BY <3>1 DEF InNotes
        <4>2. s.n \in InBatch(b)
          BY <1>1 DEF InBatch
        <4> QED BY <4>1, <4>2
      <3>2. ASSUME NEW l \in 1..(k - 1), cs[p].results[i] = b.jobs[l]
            PROVE  cs[p].results[i].n # s.n
        <4>1. l \in 1..Len(b.jobs) /\ l # k
          BY <1>1
        <4> QED BY <1>1, <3>2, <4>1 DEF JobsApart
      <3> QED BY <3>1, <3>2 DEF Reached
    <2>3. s.n \notin InNotes(cs[q])
      BY <2>2 DEF InNotes
    <2>4. /\ d \in Client /\ Sound(q, d) /\ d.rpcId = cs[q].rpcId
          /\ \A i \in DOMAIN d.results :
                \/ i \in DOMAIN cs[q].results /\ d.results[i] = cs[q].results[i]
                \/ i = cs[q].sequence /\ d.results[i] = s
          /\ \A m \in d.wire :
                \/ /\ m \in cs[q].wire
                   /\ m[1] \in DOMAIN cs[q].results =>
                         m[1] \in DOMAIN d.results /\ d.results[m[1]] = cs[q].results[m[1]]
                \/ m[1] \in DOMAIN d.results /\ d.results[m[1]] = s /\ s.clientId = cs[q].rpcId
      <3>1. cs[q] \in Client /\ Sound(q, cs[q])
        BY <2>1
      <3> QED BY <1>1, <2>3, <3>1, SubmitFacts, SMTT(30)
    <2> HIDE DEF d, s
    <2>5. /\ cs2 \in [Pools -> Client] /\ cs2[q] = d
          /\ \A p \in Pools : p # q => cs2[p] = cs[p]
      BY <2>1, <2>4
    <2> HIDE DEF cs2
    <2>6. \A p \in Pools : Sound(p, cs2[p]) /\ cs2[p].rpcId = clients[p].rpcId
      BY <2>1, <2>4, <2>5
    <2>7. NotesApart(cs2)
      <3>1. ASSUME NEW p \in Pools, NEW i \in DOMAIN cs2[p].results
            PROVE  \/ i \in DOMAIN cs[p].results /\ cs2[p].results[i] = cs[p].results[i]
                   \/ p = q /\ i = cs[q].sequence /\ cs2[p].results[i] = s
        BY <2>4, <2>5
      <3>2. ASSUME NEW p \in Pools, NEW r \in Pools, NEW i \in DOMAIN cs2[p].results,
                   NEW j \in DOMAIN cs2[r].results, cs2[p].results[i].n = cs2[r].results[j].n
            PROVE  p = r /\ i = j
        <4>1. CASE /\ i \in DOMAIN cs[p].results /\ cs2[p].results[i] = cs[p].results[i]
                   /\ j \in DOMAIN cs[r].results /\ cs2[r].results[j] = cs[r].results[j]
          <5>1. cs[p].results[i].n = cs[r].results[j].n
            BY <3>2, <4>1
          <5>2. NotesApart(cs) /\ i \in DOMAIN cs[p].results /\ j \in DOMAIN cs[r].results
            BY <2>1, <4>1
          <5> QED BY <5>1, <5>2, Zenon DEF NotesApart
        <4>2. CASE /\ p = q /\ i = cs[q].sequence /\ cs2[p].results[i] = s
                   /\ r = q /\ j = cs[q].sequence
          BY <4>2
        <4>3. CASE /\ i \in DOMAIN cs[p].results /\ cs2[p].results[i] = cs[p].results[i]
                   /\ cs2[r].results[j] = s
          BY <2>2, <3>2, <4>3
        <4>4. CASE /\ j \in DOMAIN cs[r].results /\ cs2[r].results[j] = cs[r].results[j]
                   /\ cs2[p].results[i] = s
          BY <2>2, <3>2, <4>4
        <4>5. /\ \/ i \in DOMAIN cs[p].results /\ cs2[p].results[i] = cs[p].results[i]
                 \/ p = q /\ i = cs[q].sequence /\ cs2[p].results[i] = s
              /\ \/ j \in DOMAIN cs[r].results /\ cs2[r].results[j] = cs[r].results[j]
                 \/ r = q /\ j = cs[q].sequence /\ cs2[r].results[j] = s
          BY <3>1
        <4> QED BY <4>1, <4>2, <4>3, <4>4, <4>5
      <3> QED BY <3>2 DEF NotesApart
    <2>8. ASSUME NEW p \in Pools, NEW i \in DOMAIN cs2[p].results
          PROVE  \/ i \in DOMAIN clients[p].results /\ cs2[p].results[i] = clients[p].results[i]
                 \/ \E l \in 1..k : cs2[p].results[i] = b.jobs[l]
      <3>1. CASE i \in DOMAIN cs[p].results /\ cs2[p].results[i] = cs[p].results[i]
        BY <1>2, <3>1 DEF Reached
      <3>2. CASE cs2[p].results[i] = s
        <4>1. k \in 1..k
          BY <1>1
        <4> QED BY <3>2, <4>1 DEF s
      <3> QED BY <2>4, <2>5, <3>1, <3>2
    <2>9. ASSUME NEW p \in Pools, NEW m \in cs2[p].wire
          PROVE  \/ m \in clients[p].wire
                 \/ /\ m[1] \in DOMAIN cs2[p].results
                    /\ cs2[p].results[m[1]].poolId = p
                    /\ cs2[p].results[m[1]].clientId = clients[p].rpcId
      <3>1. CASE p # q
        BY <1>2, <2>5, <3>1 DEF Reached
      <3>2. CASE /\ p = q /\ m \in cs[q].wire
                 /\ m[1] \in DOMAIN cs[q].results =>
                         m[1] \in DOMAIN d.results /\ d.results[m[1]] = cs[q].results[m[1]]
        <4>1. \/ m \in clients[q].wire
              \/ /\ m[1] \in DOMAIN cs[q].results
                 /\ cs[q].results[m[1]].poolId = q
                 /\ cs[q].results[m[1]].clientId = clients[q].rpcId
          BY <1>2, <3>2 DEF Reached
        <4> QED BY <2>5, <3>2, <4>1
      <3>3. CASE p = q /\ m[1] \in DOMAIN d.results /\ d.results[m[1]] = s /\ s.clientId = cs[q].rpcId
        <4>1. s.clientId # 0 /\ cs[q].rpcId \in Logins[q] \cup {0} /\ cs[q].rpcId = clients[q].rpcId
          <5>1. s.clientId \in Logins[s.poolId] /\ s.poolId \in Pools
            BY <1>1, ShareFacts
          <5>2. s.clientId # 0
            BY <5>1, ZenonT(30) DEF SharesAssumption
          <5> QED BY <2>1, <5>2 DEF Sound
        <4>2. s.poolId = q
          BY <1>4, <3>3, <4>1
        <4> QED BY <2>5, <3>3, <4>1, <4>2
      <3> QED BY <2>4, <2>5, <3>1, <3>2, <3>3
    <2>10. Reached(cs2, b, k)
      BY <2>5, <2>6, <2>7, <2>8, <2>9 DEF Reached
    <2> QED BY <1>4, <2>10 DEF cs2, d
  <1>5. CASE s.poolId = -1
    <2>1. -1 \in Pools
      BY <1>1, <1>5, ShareFacts
    <2> QED BY <1>4, <1>5, <2>1 DEF OnJobResult
  <1>6. CASE s.poolId # -1 /\ active = -1
    BY <1>3, <1>6 DEF OnJobResult
  <1>7. CASE s.poolId # -1 /\ active # -1
    <2>1. active \in Users /\ s.poolId \in Users /\ active \in Pools
      BY <1>1, <1>7, ShareFacts DEF Users
    <2>2. s.clientId \in Logins[s.poolId]
      BY <1>1, ShareFacts
    <2>3. s.clientId \in Logins[active] => s.poolId = active
      BY <2>1, <2>2 DEF LoginsDiffer
    <2> QED BY <1>4, <1>7, <2>1, <2>3 DEF OnJobResult
  <1> QED BY <1>5, <1>6, <1>7

(* All the shares of a batch have been submitted.                           *)
LEMMA ReachedEnd ==
    ASSUME SharesAssumption, LoginsDiffer, active \in Users \cup {-1}, NEW b,
           b.jobs \in Seq(Share), JobsApart(b),
           \A p \in Pools : InBatch(b) \cap InNotes(clients[p]) = {},
           NEW written, Reached(clients, b, 0)
    PROVE  Reached(AllSubmitted(b, written), b, Len(b.jobs))
  <1> DEFINE n == Len(b.jobs)
             Then(cs, i) == IF b.jobs[i] \in b.results
                            THEN OnJobResult(cs, b.jobs[i], b.jobs[i] \in written) ELSE cs
             Does(f, k) == f[0] = clients /\ \A i \in 1..k : f[i] = Then(f[i - 1], i)
  <1>1. n \in Nat
    BY LenProperties
  <1>2. ASSUME NEW i \in 1..n, NEW cs, Reached(cs, b, i - 1) PROVE Reached(Then(cs, i), b, i)
    <2>1. CASE b.jobs[i] \in b.results
      <3>1. (b.jobs[i] \in written) \in BOOLEAN
        OBVIOUS
      <3>2. \A w \in BOOLEAN : Reached(OnJobResult(cs, b.jobs[i], w), b, i)
        BY <1>2, ReachedNext
      <3>3. Reached(OnJobResult(cs, b.jobs[i], b.jobs[i] \in written), b, i)
        BY <3>1, <3>2
      <3> QED BY <2>1, <3>3
    <2>2. CASE b.jobs[i] \notin b.results
      <3>1. i - 1 \in Nat /\ i = (i - 1) + 1
        BY <1>1
      <3> QED BY <1>2, <2>2, <3>1, ReachedMore
    <2> QED BY <2>1, <2>2
  <1> HIDE DEF Then
  <1>3. \E f : Does(f, n)
    <2> DEFINE T == {k \in 0..n : \E f : Does(f, k)}
    <2>1. 0 \in T
      <3> DEFINE g == [i \in 0..0 |-> clients]
      <3>1. g[0] = clients /\ \A i \in 1..0 : g[i] = Then(g[i - 1], i)
        OBVIOUS
      <3> HIDE DEF g
      <3> QED BY <1>1, <3>1
    <2>2. ASSUME NEW k \in 1..n, k - 1 \in T PROVE k \in T
      <3>1. PICK f : Does(f, k - 1)
        BY <2>2
      <3> DEFINE g == [i \in 0..k |-> IF i = k THEN Then(f[k - 1], k) ELSE f[i]]
      <3>2. k \in Nat /\ k - 1 \in 0..k /\ k - 1 # k /\ k \in 0..k /\ 0 \in 0..k /\ 0 # k
        BY <1>1
      <3>3. g[0] = clients /\ g[k] = Then(g[k - 1], k)
        BY <3>1, <3>2
      <3>4. ASSUME NEW i \in 1..k, i # k PROVE g[i] = Then(g[i - 1], i)
        <4>1. i \in 1..(k - 1) /\ i \in 0..k /\ i - 1 \in 0..k /\ i - 1 # k
          BY <3>2, <3>4
        <4>2. g[i] = f[i] /\ g[i - 1] = f[i - 1]
          BY <3>4, <4>1
        <4>3. f[i] = Then(f[i - 1], i)
          BY <3>1, <4>1
        <4> QED BY <4>2, <4>3
      <3> HIDE DEF g
      <3>5. Does(g, k)
        BY <3>3, <3>4
      <3> QED BY <1>1, <3>5
    <2>3. \A k \in 1..n : k - 1 \in T => k \in T
      BY <2>2
    <2> HIDE DEF T, n
    <2>4. \A k \in 0..n : k \in T
      BY <1>1, <2>1, <2>3, UpTo
    <2>5. n \in T
      BY <1>1, <2>4
    <2> USE DEF T
    <2> QED BY <2>5
  <1>5. PICK f : Does(f, n)
    BY <1>3
  <1>6. \A i \in 0..n : Reached(f[i], b, i)
    <2> DEFINE T == {i \in 0..n : Reached(f[i], b, i)}
    <2>1. 0 \in T
      BY <1>1, <1>5
    <2>2. ASSUME NEW i \in 1..n, i - 1 \in T PROVE i \in T
      <3>1. i - 1 \in 0..n /\ i \in 0..n /\ Reached(f[i - 1], b, i - 1)
        BY <1>1, <2>2
      <3>2. f[i] = Then(f[i - 1], i)
        BY <1>5, <3>1
      <3>3. Reached(f[i], b, i)
        BY <1>2, <3>1, <3>2
      <3> QED BY <3>1, <3>3
    <2>3. \A i \in 0..n : i \in T
      <3>1. \A i \in 1..n : i - 1 \in T => i \in T
        BY <2>2
      <3> HIDE DEF T
      <3> QED BY <1>1, <2>1, <3>1, UpTo
    <2> QED BY <2>3
  <1>7. \A i \in 1..n : f[i] = Then(f[i - 1], i)
    BY <1>5
  <1> DEFINE After(g) == g = [i \in 0..n |-> IF i = 0 THEN clients ELSE Then(g[i - 1], i)]
             e == [i \in 0..n |-> f[i]]
  <1>8. After(e)
    <2>1. ASSUME NEW i \in 0..n PROVE e[i] = IF i = 0 THEN clients ELSE Then(e[i - 1], i)
      <3>1. CASE i = 0
        BY <1>5, <3>1
      <3>2. CASE i # 0
        <4>1. i \in 1..n /\ i - 1 \in 0..n
          BY <1>1, <3>2
        <4> QED BY <1>7, <3>2, <4>1
      <3> QED BY <3>1, <3>2
    <2> QED BY <2>1
  <1>9. AllSubmitted(b, written) = (CHOOSE g : After(g))[n]
    BY DEF AllSubmitted, Then
  <1>10. ASSUME NEW g, After(g) PROVE g[n] = f[n]
    <2> DEFINE T == {i \in 0..n : g[i] = f[i]}
    <2>1. 0 \in T
      BY <1>1, <1>5, <1>10
    <2>2. \A i \in 1..n : i - 1 \in T => i \in T
      BY <1>1, <1>7, <1>10
    <2>3. n \in T
      <3> HIDE DEF T, n
      <3>1. \A i \in 0..n : i \in T
        BY <1>1, <2>1, <2>2, UpTo
      <3> QED BY <1>1, <3>1
    <2> QED BY <2>3
  <1>11. n \in 0..n
    BY <1>1
  <1> HIDE DEF After
  <1>12. (CHOOSE g : After(g))[n] = f[n]
    BY <1>8, <1>10
  <1> QED BY <1>1, <1>6, <1>9, <1>12

-----------------------------------------------------------------------------
(* Other changes of a Client, which make no note.                           *)

(* The Client d has no note that c does not have.                           *)
Fewer(c, d) ==
    \A i \in DOMAIN d.results : i \in DOMAIN c.results /\ d.results[i] = c.results[i]

(* A connection is lost with the messages under way, not with the notes.    *)
LEMMA DownFacts ==
    ASSUME NEW p \in Pools, NEW c \in Client, Sound(p, c)
    PROVE  Down(c) \in Client /\ Sound(p, Down(c)) /\ Fewer(c, Down(c)) /\ Down(c).wire = {}
  <1> DEFINE d == Down(c)
  <1>1. /\ d.state = "down" /\ d.rpcId = c.rpcId /\ d.sequence = c.sequence
        /\ d.results = c.results /\ d.wire = {} /\ d.given = c.given
    BY DEF Client, Down
  <1>2. d \in Client
    BY DEF Client, Down
  <1> HIDE DEF d
  <1>3. Sound(p, d)
    BY <1>1 DEF Sound
  <1>4. Fewer(c, d)
    BY <1>1 DEF Fewer
  <1> QED BY <1>1, <1>2, <1>3, <1>4 DEF d

(* An answer has been read, of which the pool may send another.             *)
LEMMA HeardFacts ==
    ASSUME NEW p \in Pools, NEW c \in Client, Sound(p, c), NEW m, NEW again \in BOOLEAN
    PROVE  LET d == Heard(c, m, again)
           IN  /\ d \in Client /\ Sound(p, d) /\ Fewer(c, d) /\ d.wire \subseteq c.wire
               /\ d.results = c.results
  <1> DEFINE left == IF again THEN c.wire ELSE c.wire \ {m}
             d == [state |-> c.state, rpcId |-> c.rpcId, sequence |-> c.sequence,
                   results |-> c.results, wire |-> left, given |-> c.given]
  <1>1. Heard(c, m, again) = d
    BY DEF Client, Heard
  <1>2. left \subseteq c.wire /\ c.wire \subseteq Message
    BY ClientFacts
  <1> HIDE DEF left
  <1>3. d \in Client
    BY <1>2 DEF Client
  <1>4. Sound(p, d)
    BY <1>2 DEF Sound
  <1>5. Fewer(c, d)
    BY DEF Fewer
  <1> QED BY <1>1, <1>2, <1>3, <1>4, <1>5

(* A note is erased.                                                        *)
LEMMA ErasedFacts ==
    ASSUME NEW p \in Pools, NEW c \in Client, Sound(p, c), NEW id
    PROVE  LET d == Erased(c, id)
           IN  /\ d \in Client /\ Sound(p, d) /\ Fewer(c, d) /\ d.wire = c.wire
               /\ id \notin DOMAIN d.results
  <1> DEFINE left == [i \in DOMAIN c.results \ {id} |-> c.results[i]]
             d == [state |-> c.state, rpcId |-> c.rpcId, sequence |-> c.sequence,
                   results |-> left, wire |-> c.wire, given |-> c.given]
  <1>1. Erased(c, id) = d
    BY DEF Client, Erased
  <1>2. left \in Notes
    <2>1. DOMAIN c.results \ {id} \in SUBSET (Nat \ {0})
      BY ClientFacts
    <2>2. left \in [DOMAIN c.results \ {id} -> Share]
      BY ClientFacts
    <2> HIDE DEF left
    <2> QED BY <2>1, <2>2, MakesNotes
  <1>3. DOMAIN left = DOMAIN c.results \ {id} /\ \A i \in DOMAIN left : left[i] = c.results[i]
    OBVIOUS
  <1> HIDE DEF left
  <1>4. d \in Client
    BY <1>2 DEF Client
  <1>5. Sound(p, d)
    BY <1>3 DEF Sound
  <1>6. Fewer(c, d)
    BY <1>3 DEF Fewer
  <1> QED BY <1>1, <1>3, <1>4, <1>5, <1>6

(* A Client whose connection is down logs in: no note is left.              *)
LEMMA LoginFacts ==
    ASSUME NEW p \in Pools, NEW c \in Client, Sound(p, c), c.state = "down",
           NEW written \in BOOLEAN
    PROVE  LET d == Send([c EXCEPT !.state = "login", !.results = [i \in {} |-> 0]],
                         1, LoginMessage, written)
           IN  /\ d \in Client /\ Sound(p, d) /\ Fewer(c, d)
               /\ d.wire \subseteq {<<1, LoginMessage>>}
  <1> DEFINE none == [i \in {} |-> 0]
             e == [c EXCEPT !.state = "login", !.results = none]
             d == Send(e, 1, LoginMessage, written)
  <1>1. none \in Notes /\ DOMAIN none = {}
    <2>1. none \in [{} -> Share] /\ {} \in SUBSET (Nat \ {0})
      OBVIOUS
    <2>2. DOMAIN none = {}
      OBVIOUS
    <2> HIDE DEF none
    <2> QED BY <2>1, <2>2, MakesNotes
  <1> HIDE DEF none
  <1>2. e \in Client
    BY <1>1 DEF Client
  <1>3. /\ e.state = "login" /\ e.rpcId = c.rpcId /\ e.sequence = c.sequence
        /\ e.results = none /\ e.wire = c.wire /\ e.given = c.given
    BY DEF Client
  <1>4. c.wire = {}
    BY DEF Sound
  <1>5. /\ d \in Client
        /\ d.rpcId = e.rpcId /\ d.given = e.given /\ d.results = e.results
        /\ \/ d = e /\ e.state = "down"
           \/ /\ e.state # "down" /\ d.state = e.state
              /\ d.sequence = e.sequence + 1 /\ d.wire = e.wire \cup {<<1, LoginMessage>>}
           \/ d.state = "down" /\ d.sequence = e.sequence /\ d.wire = {}
    <2> HIDE DEF e
    <2>1. 1 \in Nat \ {0} /\ LoginMessage \in (1..MaxShares) \cup {LoginMessage, PingMessage}
      OBVIOUS
    <2> QED BY ONLY <1>2, <2>1, written \in BOOLEAN, SendFacts
  <1>6. /\ d.rpcId = c.rpcId /\ d.given = c.given /\ DOMAIN d.results = {}
        /\ \/ d.state = "login" /\ d.sequence = c.sequence + 1 /\ d.wire = {<<1, LoginMessage>>}
           \/ d.state = "down" /\ d.sequence = c.sequence /\ d.wire = {}
    BY <1>1, <1>3, <1>4, <1>5
  <1> HIDE DEF d
  <1>7. c.sequence \in Nat \ {0} /\ (c.rpcId # 0 => c.sequence > 1)
        /\ c.rpcId \in Logins[p] \cup {0} /\ c.given \subseteq Logins[p]
    BY ClientFacts DEF Sound
  <1>8. Sound(p, d)
    <2>1. d.sequence \in Nat /\ d.sequence >= c.sequence
      BY <1>6, <1>7
    <2>2. d.rpcId # 0 => d.sequence > 1
      BY <1>6, <1>7, <2>1
    <2>3. \A m \in d.wire : m[1] < d.sequence
      BY <1>6, <1>7
    <2> QED BY <1>6, <1>7, <2>2, <2>3 DEF Sound
  <1>9. Fewer(c, d)
    BY <1>6 DEF Fewer
  <1> QED BY <1>5, <1>6, <1>8, <1>9 DEF d, none

(* The pool has accepted the login.                                         *)
LEMMA LoggedInFacts ==
    ASSUME SharesAssumption, NEW p \in Pools, NEW c \in Client, Sound(p, c),
           <<1, LoginMessage>> \in c.wire, NEW id \in Logins[p]
    PROVE  LET d == WithLogin(c, id)
           IN  d \in Client /\ Sound(p, d) /\ Fewer(c, d) /\ d.wire \subseteq c.wire
  <1> DEFINE left == c.wire \ {<<1, LoginMessage>>}
             d == WithLogin(c, id)
  <1>1. /\ d.state = "up" /\ d.rpcId = id /\ d.sequence = c.sequence
        /\ d.results = c.results /\ d.wire = left /\ d.given = c.given \cup {id}
    BY DEF Client, WithLogin
  <1>2. left \subseteq c.wire /\ c.wire \subseteq Message /\ c.given \subseteq Ids
    BY ClientFacts
  <1>3. c.state # "down" /\ c.sequence > 1
    BY DEF Sound
  <1>4. id \in Ids
    BY DEF Ids
  <1>5. d \in Client
    <2>1. left \in SUBSET Message /\ c.given \cup {id} \in SUBSET Ids
      BY <1>2, <1>4
    <2> QED BY <1>4, <2>1 DEF Client, WithLogin
  <1> HIDE DEF d
  <1>6. Sound(p, d)
    BY <1>1, <1>2, <1>3 DEF Sound
  <1>7. Fewer(c, d)
    BY <1>1 DEF Fewer
  <1> QED BY <1>1, <1>2, <1>5, <1>6, <1>7 DEF d

(* A ping has the next number, under which nothing is noted.                *)
LEMMA PingFacts ==
    ASSUME NEW p \in Pools, NEW c \in Client, Sound(p, c), c.state = "up",
           NEW written \in BOOLEAN
    PROVE  LET d == Send(c, c.sequence, PingMessage, written)
           IN  /\ d \in Client /\ Sound(p, d) /\ Fewer(c, d)
               /\ d.wire \subseteq c.wire \cup {<<c.sequence, PingMessage>>}
  <1> DEFINE d == Send(c, c.sequence, PingMessage, written)
  <1>1. c.sequence \in Nat \ {0} /\ DOMAIN c.results \subseteq Nat \ {0} /\ c.wire \subseteq Message
    BY ClientFacts
  <1>2. /\ d \in Client
        /\ d.rpcId = c.rpcId /\ d.given = c.given /\ d.results = c.results
        /\ \/ d = c /\ c.state = "down"
           \/ /\ c.state # "down" /\ d.state = c.state
              /\ d.sequence = c.sequence + 1 /\ d.wire = c.wire \cup {<<c.sequence, PingMessage>>}
           \/ d.state = "down" /\ d.sequence = c.sequence /\ d.wire = {}
    <2>1. PingMessage \in (1..MaxShares) \cup {LoginMessage, PingMessage}
      OBVIOUS
    <2> QED BY ONLY <1>1, <2>1, c \in Client, written \in BOOLEAN, SendFacts
  <1> HIDE DEF d
  <1>3. Fewer(c, d)
    BY <1>2 DEF Fewer
  <1>4. CASE d.state = "down" /\ d.sequence = c.sequence /\ d.wire = {}
    BY <1>2, <1>3, <1>4 DEF Sound, d
  <1>5. CASE /\ d.state = c.state /\ d.sequence = c.sequence + 1
             /\ d.wire = c.wire \cup {<<c.sequence, PingMessage>>}
    <2>1. ASSUME NEW m \in d.wire
          PROVE  m[1] < d.sequence /\ (m[1] \in DOMAIN d.results => d.results[m[1]].n = m[2])
      <3>1. CASE m \in c.wire
        <4>1. m[1] \in Nat /\ m[1] < c.sequence
          BY <1>1, <3>1, MessageFacts DEF Sound
        <4>2. m[1] \in DOMAIN c.results => c.results[m[1]].n = m[2]
          BY <3>1 DEF Sound
        <4> QED BY <1>1, <1>2, <1>5, <4>1, <4>2
      <3>2. CASE m = <<c.sequence, PingMessage>>
        <4>1. m[1] = c.sequence /\ c.sequence \notin DOMAIN d.results
          BY <1>1, <1>2, <3>2 DEF Sound
        <4> QED BY <1>1, <1>5, <4>1
      <3> QED BY <1>5, <3>1, <3>2
    <2>2. ASSUME NEW i \in DOMAIN d.results
          PROVE  1 < i /\ i <= d.sequence /\ i < d.sequence
      <3>1. i \in Nat /\ 1 < i /\ i < c.sequence
        BY <1>1, <1>2 DEF Sound
      <3> QED BY <1>1, <1>5, <3>1
    <2>3. d.rpcId # 0 => d.sequence > 1
      BY <1>1, <1>2, <1>5 DEF Sound
    <2>4. Sound(p, d)
      BY <1>2, <1>5, <2>1, <2>2, <2>3 DEF Sound
    <2> QED BY <1>2, <1>3, <1>5, <2>4 DEF d
  <1> QED BY <1>2, <1>4, <1>5

-----------------------------------------------------------------------------
(* The invariant.                                                           *)

(* A baton of the verification, and what the variables hold.                *)
Batch == [jobs : Seq(Share), results : SUBSET Share, verified : BOOLEAN]

Types ==
    /\ found \in 0..MaxShares /\ queue \in Seq(Share)
    /\ unsent \subseteq Threads /\ pending \in BOOLEAN
    /\ batons \subseteq Batch /\ \A b \in batons : b.results \subseteq Range(b.jobs)
    /\ clients \in [Pools -> Client] /\ active \in Users \cup {-1}
    /\ topDiff \in [1..Best -> Levels \cup {0}]
    /\ counted \in [1..MaxShares -> {0, 1}] /\ best \subseteq Share

(* The shares that are in each place.                                       *)
InQueue      == {queue[i].n : i \in DOMAIN queue}
InBatches    == UNION {InBatch(b) : b \in batons}
NotesOf(cs)  == UNION {InNotes(cs[p]) : p \in Pools}
HaveCounted  == {n \in 1..MaxShares : counted[n] = 1}

(* No place has a share twice: the queue, the batches, the notes.           *)
QueueApart   == \A i, j \in DOMAIN queue : queue[i].n = queue[j].n => i = j
BatchesApart ==
    /\ \A b \in batons : JobsApart(b)
    /\ \A b, c \in batons : b # c => InBatch(b) \cap InBatch(c) = {}

(* No two places have the same share, and none has one not yet found.       *)
Disjoint(Q, B, N, C, f) ==
    /\ Q \cap B = {} /\ Q \cap N = {} /\ Q \cap C = {}
    /\ B \cap N = {} /\ B \cap C = {} /\ N \cap C = {}
    /\ Q \cup B \cup N \cup C \subseteq 1..f

Placed ==
    /\ QueueApart /\ BatchesApart /\ NotesApart(clients)
    /\ Disjoint(InQueue, InBatches, NotesOf(clients), HaveCounted, found)

(* Every Client is in order.                                                *)
AllSound == \A p \in Pools : Sound(p, clients[p])

(* The best ones are of the shares that were accepted, all counted.         *)
Ranked ==
    /\ Falling(topDiff) /\ IsFiniteSet(best)
    /\ \A s \in best : counted[s.n] = 1
    /\ \A d \in Levels : Ranks(topDiff, best, d)

(* The inductive invariant.                                                 *)
SharesInv == Types /\ AllSound /\ Placed /\ Ranked

(* The difficulty of a job is not 0, the value of an empty place in the list.*)
LEMMA LevelFacts ==
    ASSUME SharesAssumption
    PROVE  Levels \subseteq Nat \ {0}
  BY DEF Levels, SharesAssumption

(* It holds in the beginning.                                               *)
LEMMA SharesInvInit ==
    ASSUME SharesAssumption, Init
    PROVE  SharesInv
  <1>0. Best \in Nat \ {0} /\ MaxShares \in Nat
    BY DEF SharesAssumption
  <1>1. NewClient \in Client /\ NewClient.rpcId = 0 /\ NewClient.sequence = 1
        /\ NewClient.wire = {} /\ NewClient.given = {} /\ NewClient.state = "down"
        /\ DOMAIN NewClient.results = {}
    <2> DEFINE none == [i \in {} |-> 0]
    <2>1. none \in Notes /\ DOMAIN none = {}
      <3>1. none \in [{} -> Share] /\ {} \in SUBSET (Nat \ {0})
        OBVIOUS
      <3>2. DOMAIN none = {}
        OBVIOUS
      <3> HIDE DEF none
      <3> QED BY <3>1, <3>2, MakesNotes
    <2>2. NewClient = [state |-> "down", rpcId |-> 0, sequence |-> 1, results |-> none,
                       wire |-> {}, given |-> {}]
      BY DEF NewClient
    <2> HIDE DEF none
    <2> QED BY <2>1, <2>2 DEF Client, Numbers
  <1>2. clients \in [Pools -> Client] /\ \A p \in Pools : clients[p] = NewClient
    BY <1>1 DEF Init
  <1>3. Types
    <2>1. queue \in Seq(Share)
      BY EmptySeq DEF Init
    <2>2. topDiff \in [1..Best -> Levels \cup {0}] /\ counted \in [1..MaxShares -> {0, 1}]
      BY DEF Init
    <2>3. found = 0 /\ 0 \in 0..MaxShares
      BY <1>0 DEF Init
    <2>4. unsent = {} /\ batons = {} /\ best = {} /\ active = -1
      BY DEF Init
    <2>5. pending \in BOOLEAN
      BY DEF Init
    <2> QED BY <1>2, <2>1, <2>2, <2>3, <2>4, <2>5 DEF Types
  <1>4. AllSound
    BY <1>1, <1>2 DEF AllSound, Sound
  <1>5. Placed
    <2>1. DOMAIN queue = {} /\ InQueue = {} /\ InBatches = {} /\ HaveCounted = {}
      <3>1. DOMAIN queue = {}
        BY DEF Init
      <3> QED BY <3>1 DEF Init, InQueue, InBatches, HaveCounted
    <2>2. NotesOf(clients) = {} /\ \A p \in Pools : DOMAIN clients[p].results = {}
      BY <1>1, <1>2 DEF NotesOf, InNotes
    <2> QED BY <2>1, <2>2 DEF Init, Placed, QueueApart, BatchesApart, NotesApart, Disjoint
  <1>6. Ranked
    <2>1. Falling(topDiff) /\ best = {} /\ IsFiniteSet(best)
      BY FS_EmptySet DEF Init, Falling
    <2>2. ASSUME NEW d \in Levels PROVE Ranks(topDiff, best, d)
      <3>1. AtLeast(topDiff, d) = {}
        BY LevelFacts DEF AtLeast, Init
      <3>2. {s \in best : s.diff >= d} = {}
        BY <2>1
      <3> QED BY <1>0, <3>1, <3>2, FS_EmptySet DEF Ranks
    <2> QED BY <2>1, <2>2 DEF Ranked
  <1> QED BY <1>3, <1>4, <1>5, <1>6 DEF SharesInv

-----------------------------------------------------------------------------
(* Steps that change the Clients only, and make no note, or none of a share *)
(* that is anywhere else.                                                   *)

(* Fewer notes are still apart.                                             *)
LEMMA FewerNotes ==
    ASSUME NEW cs, NotesApart(clients), \A p \in Pools : Fewer(clients[p], cs[p])
    PROVE  NotesApart(cs) /\ NotesOf(cs) \subseteq NotesOf(clients)
  <1>1. ASSUME NEW p \in Pools, NEW i \in DOMAIN cs[p].results
        PROVE  i \in DOMAIN clients[p].results /\ cs[p].results[i] = clients[p].results[i]
    BY DEF Fewer
  <1>2. NotesApart(cs)
    BY <1>1 DEF NotesApart
  <1>3. NotesOf(cs) \subseteq NotesOf(clients)
    BY <1>1 DEF NotesOf, InNotes
  <1> QED BY <1>2, <1>3

(* A step that changes only the Clients and the active pool.                *)
LEMMA ClientsStep ==
    ASSUME SharesInv, UNCHANGED <<found, queue, unsent, pending, batons, topDiff, counted, best>>,
           clients' \in [Pools -> Client], active' \in Users \cup {-1},
           \A p \in Pools : Sound(p, clients'[p]) /\ Fewer(clients[p], clients'[p])
    PROVE  SharesInv'
  <1>1. Types'
    BY DEF SharesInv, Types
  <1>2. AllSound'
    BY DEF AllSound
  <1>3. NotesApart(clients') /\ NotesOf(clients') \subseteq NotesOf(clients)
    BY FewerNotes DEF SharesInv, Placed
  <1>4. Placed'
    <2>1. QueueApart' /\ BatchesApart' /\ InQueue' = InQueue /\ InBatches' = InBatches
          /\ HaveCounted' = HaveCounted
      BY DEF SharesInv, Placed, QueueApart, BatchesApart, InQueue, InBatches, HaveCounted
    <2> QED BY <1>3, <2>1 DEF SharesInv, Placed, Disjoint
  <1>5. Ranked'
    BY DEF SharesInv, Ranked
  <1> QED BY <1>1, <1>2, <1>4, <1>5 DEF SharesInv

(* One Client becomes c.                                                    *)
LEMMA ClientStep ==
    ASSUME SharesInv, UNCHANGED <<found, queue, unsent, pending, batons, active>>,
           UNCHANGED <<topDiff, counted, best>>,
           NEW p \in Pools, NEW c \in Client, Sound(p, c), Fewer(clients[p], c),
           clients' = [clients EXCEPT ![p] = c]
    PROVE  SharesInv'
  <1>1. clients \in [Pools -> Client] /\ active \in Users \cup {-1}
    BY DEF SharesInv, Types
  <1>2. clients' \in [Pools -> Client] /\ active' \in Users \cup {-1}
    BY <1>1
  <1>3. \A q \in Pools : Sound(q, clients'[q]) /\ Fewer(clients[q], clients'[q])
    <2>1. \A q \in Pools : clients'[q] = IF q = p THEN c ELSE clients[q]
      BY <1>1
    <2>2. \A q \in Pools : Sound(q, clients[q]) /\ Fewer(clients[q], clients[q])
      BY DEF SharesInv, AllSound, Fewer
    <2> QED BY <2>1, <2>2
  <1> QED BY <1>2, <1>3, ClientsStep

-----------------------------------------------------------------------------
(* The queue and the batches.                                               *)

(* Workers::submit(): the share is new, as its number is.                   *)
LEMMA SubmitStep ==
    ASSUME SharesAssumption, SharesInv, NEW t \in Threads, Submit(t)
    PROVE  SharesInv'
  <1>0. PICK p \in Pools : \E d \in Diffs[p], c \in clients[p].given :
           queue' = Append(queue, [n |-> found', poolId |-> p, clientId |-> c, diff |-> d])
    BY DEF Submit
  <1>1. PICK d \in Diffs[p], c \in clients[p].given :
           queue' = Append(queue, [n |-> found', poolId |-> p, clientId |-> c, diff |-> d])
    BY <1>0
  <1> DEFINE s == [n |-> found + 1, poolId |-> p, clientId |-> c, diff |-> d]
  <1>2. found \in Nat /\ found' = found + 1 /\ found' \in 1..MaxShares /\ MaxShares \in Nat
    BY DEF Submit, SharesInv, Types, SharesAssumption
  <1>3. s \in Share
    <2>1. c \in Logins[p]
      BY DEF SharesInv, AllSound, Sound
    <2>2. c \in Ids /\ d \in Levels
      BY <2>1 DEF Ids, Levels
    <2> QED BY <1>2, <2>1, <2>2 DEF Share
  <1>4. queue \in Seq(Share) /\ queue' = Append(queue, s)
    BY <1>1, <1>2 DEF SharesInv, Types
  <1>5. /\ queue' \in Seq(Share) /\ Len(queue) \in Nat
        /\ DOMAIN queue = 1..Len(queue) /\ DOMAIN queue' = 1..(Len(queue) + 1)
        /\ queue'[Len(queue) + 1] = s /\ \A i \in 1..Len(queue) : queue'[i] = queue[i]
    <2> HIDE DEF s
    <2> QED BY <1>3, <1>4, AppendProperties, LenProperties
  <1>6. \A i \in 1..Len(queue) : queue[i].n \in Nat /\ queue[i].n <= found
    <2>1. \A i \in 1..Len(queue) : queue[i].n \in InQueue
      BY <1>5 DEF InQueue
    <2>2. InQueue \subseteq 1..found
      BY DEF SharesInv, Placed, Disjoint
    <2>3. \A x \in 1..found : x \in Nat /\ x <= found
      BY <1>2
    <2> QED BY <2>1, <2>2, <2>3
  <1>7. s.n = found + 1
    OBVIOUS
  <1> HIDE DEF s
  <1>8. Types'
    BY <1>2, <1>5 DEF Submit, SharesInv, Types
  <1>9. AllSound' /\ Ranked'
    BY DEF Submit, SharesInv, AllSound, Ranked
  <1>10. QueueApart'
    <2>1. ASSUME NEW i \in DOMAIN queue', NEW j \in DOMAIN queue', queue'[i].n = queue'[j].n
          PROVE  i = j
      <3>1. CASE i \in 1..Len(queue) /\ j \in 1..Len(queue)
        BY <1>5, <2>1, <3>1 DEF SharesInv, Placed, QueueApart
      <3>2. CASE i = Len(queue) + 1 /\ j = Len(queue) + 1
        BY <3>2
      <3>3. CASE i = Len(queue) + 1 /\ j \in 1..Len(queue)
        BY <1>2, <1>5, <1>6, <1>7, <2>1, <3>3
      <3>4. CASE i \in 1..Len(queue) /\ j = Len(queue) + 1
        BY <1>2, <1>5, <1>6, <1>7, <2>1, <3>4
      <3> QED BY <1>5, <3>1, <3>2, <3>3, <3>4
    <2> QED BY <2>1 DEF QueueApart
  <1>11. InQueue' = InQueue \cup {found + 1}
    <2>1. ASSUME NEW x \in InQueue' PROVE x \in InQueue \cup {found + 1}
      <3>1. PICK i \in DOMAIN queue' : x = queue'[i].n
        BY DEF InQueue
      <3>2. CASE i \in 1..Len(queue)
        BY <1>5, <3>1, <3>2 DEF InQueue
      <3>3. CASE i = Len(queue) + 1
        BY <1>5, <1>7, <3>1, <3>3
      <3> QED BY <1>5, <3>2, <3>3
    <2>2. ASSUME NEW x \in InQueue PROVE x \in InQueue'
      <3>1. PICK i \in DOMAIN queue : x = queue[i].n
        BY DEF InQueue
      <3>2. i \in DOMAIN queue' /\ queue'[i] = queue[i]
        BY <1>5
      <3> QED BY <3>1, <3>2 DEF InQueue
    <2>3. found + 1 \in InQueue'
      <3>1. Len(queue) + 1 \in DOMAIN queue'
        BY <1>5
      <3> QED BY <1>5, <1>7, <3>1 DEF InQueue
    <2> QED BY <2>1, <2>2, <2>3
  <1>12. Placed'
    <2>1. /\ BatchesApart' /\ NotesApart(clients') /\ InBatches' = InBatches
          /\ NotesOf(clients') = NotesOf(clients) /\ HaveCounted' = HaveCounted
      BY DEF Submit, SharesInv, Placed, BatchesApart, InBatches, HaveCounted
    <2>2. Disjoint(InQueue \cup {found + 1}, InBatches, NotesOf(clients), HaveCounted, found + 1)
      <3>1. Disjoint(InQueue, InBatches, NotesOf(clients), HaveCounted, found)
        BY DEF SharesInv, Placed
      <3>2. found + 1 \notin 1..found /\ 1..found \subseteq 1..(found + 1) /\ found + 1 \in 1..(found + 1)
        BY <1>2
      <3> QED BY <3>1, <3>2 DEF Disjoint
    <2> QED BY <1>2, <1>10, <1>11, <2>1, <2>2 DEF Placed
  <1> QED BY <1>8, <1>9, <1>12 DEF SharesInv

(* onResult(): the queue becomes a batch.                                   *)
LEMMA OnResultStep ==
    ASSUME SharesAssumption, SharesInv, OnResult
    PROVE  SharesInv'
  <1> DEFINE b == [jobs |-> queue, results |-> {}, verified |-> FALSE]
  <1>1. b \in Batch /\ b.jobs = queue /\ b.results = {}
    BY DEF Batch, SharesInv, Types
  <1>2. batons' = batons \cup {b} /\ queue' = <<>> /\ DOMAIN queue' = {}
    BY DEF OnResult
  <1>3. InBatch(b) = InQueue /\ JobsApart(b)
    BY <1>1 DEF InBatch, InQueue, JobsApart, SharesInv, Placed, QueueApart
  <1> HIDE DEF b
  <1>4. Types'
    <2>1. queue' \in Seq(Share)
      BY <1>2, EmptySeq
    <2>2. batons' \subseteq Batch /\ \A a \in batons' : a.results \subseteq Range(a.jobs)
      BY <1>1, <1>2 DEF SharesInv, Types
    <2> QED BY <2>1, <2>2 DEF OnResult, SharesInv, Types
  <1>5. AllSound' /\ Ranked'
    BY DEF OnResult, SharesInv, AllSound, Ranked
  <1>6. BatchesApart'
    <2>1. \A a \in batons : InBatch(a) \cap InBatch(b) = {}
      <3>1. \A a \in batons : InBatch(a) \subseteq InBatches
        BY DEF InBatches
      <3>2. InQueue \cap InBatches = {}
        BY DEF SharesInv, Placed, Disjoint
      <3> QED BY <1>3, <3>1, <3>2
    <2>2. \A a \in batons' : JobsApart(a)
      BY <1>2, <1>3 DEF SharesInv, Placed, BatchesApart
    <2>3. \A a, c \in batons' : a # c => InBatch(a) \cap InBatch(c) = {}
      BY <1>2, <2>1 DEF SharesInv, Placed, BatchesApart
    <2> QED BY <2>2, <2>3 DEF BatchesApart
  <1>7. InBatches' = InBatches \cup InQueue /\ InQueue' = {} /\ QueueApart'
    <2>1. InBatches' = InBatches \cup InBatch(b)
      BY <1>2 DEF InBatches
    <2> QED BY <1>2, <1>3, <2>1 DEF InQueue, QueueApart
  <1>8. Placed'
    <2>1. /\ NotesApart(clients') /\ NotesOf(clients') = NotesOf(clients)
          /\ HaveCounted' = HaveCounted /\ found' = found
      BY DEF OnResult, SharesInv, Placed, HaveCounted
    <2>2. Disjoint(InQueue, InBatches, NotesOf(clients), HaveCounted, found)
      BY DEF SharesInv, Placed
    <2>3. Disjoint({}, InBatches \cup InQueue, NotesOf(clients), HaveCounted, found)
      BY <2>2 DEF Disjoint
    <2> QED BY <1>6, <1>7, <2>1, <2>3 DEF Placed
  <1> QED BY <1>4, <1>5, <1>8 DEF SharesInv

(* The work of a batch leaves its jobs as they are.                         *)
LEMMA VerifyStep ==
    ASSUME SharesAssumption, SharesInv, NEW b \in batons, Verify(b)
    PROVE  SharesInv'
  <1>1. PICK right \in SUBSET Range(b.jobs) :
           batons' = (batons \ {b}) \cup {[b EXCEPT !.results = right, !.verified = TRUE]}
    BY DEF Verify
  <1> DEFINE e == [b EXCEPT !.results = right, !.verified = TRUE]
  <1>2. b \in Batch
    BY DEF SharesInv, Types
  <1>3. right \subseteq Share
    <2>1. b.jobs \in Seq(Share)
      BY <1>2 DEF Batch
    <2>2. \A i \in DOMAIN b.jobs : b.jobs[i] \in Share
      BY <2>1, ElementOfSeq, LenProperties
    <2> QED BY <2>2 DEF Range
  <1>4. e \in Batch /\ e.jobs = b.jobs /\ e.results = right
    BY <1>2, <1>3 DEF Batch
  <1>5. InBatch(e) = InBatch(b) /\ (JobsApart(b) => JobsApart(e))
    BY <1>4 DEF InBatch, JobsApart
  <1>6. batons' = (batons \ {b}) \cup {e}
    BY <1>1
  <1> HIDE DEF e
  <1>7. Types'
    <2>1. batons' \subseteq Batch /\ \A a \in batons' : a.results \subseteq Range(a.jobs)
      BY <1>4, <1>6 DEF SharesInv, Types
    <2> QED BY <2>1 DEF Verify, SharesInv, Types
  <1>8. AllSound' /\ Ranked'
    BY DEF Verify, SharesInv, AllSound, Ranked
  <1>9. BatchesApart' /\ InBatches' = InBatches
    <2>1. /\ \A a \in batons : JobsApart(a)
          /\ \A a, c \in batons : a # c => InBatch(a) \cap InBatch(c) = {}
      BY DEF SharesInv, Placed, BatchesApart
    <2>2. \A a \in batons' : JobsApart(a)
      BY <1>5, <1>6, <2>1
    <2>3. \A a, c \in batons' : a # c => InBatch(a) \cap InBatch(c) = {}
      BY <1>5, <1>6, <2>1
    <2>4. InBatches' = InBatches
      BY <1>5, <1>6 DEF InBatches
    <2> QED BY <2>2, <2>3, <2>4 DEF BatchesApart
  <1>10. Placed'
    BY <1>9 DEF Verify, SharesInv, Placed, QueueApart, InQueue, HaveCounted
  <1> QED BY <1>7, <1>8, <1>10 DEF SharesInv

-----------------------------------------------------------------------------
(* The Clients.                                                             *)

(* Every share that a step sends goes to the pool of its job, which knows   *)
(* its login.                                                               *)
SentRight ==
    \A p \in Pools : \A m \in clients'[p].wire \ clients[p].wire :
        m[2] > 0 => LET s == clients'[p].results[m[1]]
                    IN  s.poolId = p /\ s.clientId = clients[p].rpcId

(* The end of a batch: its shares become notes of the Clients, or are lost. *)
LEMMA FinishStep ==
    ASSUME SharesAssumption, LoginsDiffer, SharesInv, NEW b \in batons, Finish(b)
    PROVE  SharesInv' /\ SentRight
  <1>1. PICK written \in SUBSET b.results : clients' = AllSubmitted(b, written)
    BY DEF Finish
  <1>2. b \in Batch /\ b.jobs \in Seq(Share) /\ JobsApart(b)
    BY DEF SharesInv, Types, Batch, Placed, BatchesApart
  <1>3. Len(b.jobs) \in Nat /\ DOMAIN b.jobs = 1..Len(b.jobs)
    BY <1>2, LenProperties
  <1>4. InBatch(b) \subseteq InBatches
    BY DEF InBatches
  <1>5. Disjoint(InQueue, InBatches, NotesOf(clients), HaveCounted, found)
    BY DEF SharesInv, Placed
  <1>6. \A p \in Pools : InBatch(b) \cap InNotes(clients[p]) = {}
    <2>1. \A p \in Pools : InNotes(clients[p]) \subseteq NotesOf(clients)
      BY DEF NotesOf
    <2> QED BY <1>4, <1>5, <2>1 DEF Disjoint
  <1>7. Reached(clients, b, 0)
    BY DEF SharesInv, Types, AllSound, Placed, Reached
  <1>8. active \in Users \cup {-1}
    BY DEF SharesInv, Types
  <1>9. Reached(clients', b, Len(b.jobs))
    <2>1. Reached(AllSubmitted(b, written), b, Len(b.jobs))
      BY <1>2, <1>6, <1>7, <1>8, ReachedEnd
    <2> QED BY <1>1, <2>1
  <1>10. Types'
    <2>1. clients' \in [Pools -> Client]
      BY <1>9 DEF Reached
    <2>2. batons' \subseteq Batch /\ \A a \in batons' : a.results \subseteq Range(a.jobs)
      BY DEF Finish, SharesInv, Types
    <2> QED BY <2>1, <2>2 DEF Finish, SharesInv, Types
  <1>11. AllSound'
    <2>1. \A p \in Pools : Sound(p, clients'[p])
      BY <1>9 DEF Reached
    <2> QED BY <2>1 DEF AllSound
  <1>12. Ranked'
    BY DEF Finish, SharesInv, Ranked
  <1>13. NotesApart(clients')
    BY <1>9 DEF Reached
  <1>14. NotesOf(clients') \subseteq NotesOf(clients) \cup InBatch(b)
    <2>1. ASSUME NEW p \in Pools, NEW i \in DOMAIN clients'[p].results
          PROVE  clients'[p].results[i].n \in NotesOf(clients) \cup InBatch(b)
      <3>1. CASE i \in DOMAIN clients[p].results /\ clients'[p].results[i] = clients[p].results[i]
        <4>1. clients'[p].results[i].n \in InNotes(clients[p])
          BY <3>1 DEF InNotes
        <4> QED BY <4>1 DEF NotesOf
      <3>2. CASE \E l \in 1..Len(b.jobs) : clients'[p].results[i] = b.jobs[l]
        BY <1>3, <3>2 DEF InBatch
      <3> QED BY <1>9, <3>1, <3>2 DEF Reached
    <2> QED BY <2>1 DEF NotesOf, InNotes
  <1>15. BatchesApart' /\ InBatches' \subseteq InBatches /\ InBatches' \cap InBatch(b) = {}
    <2>1. batons' = batons \ {b}
      BY DEF Finish
    <2>2. BatchesApart' /\ InBatches' \subseteq InBatches
      BY <2>1 DEF SharesInv, Placed, BatchesApart, InBatches
    <2>3. \A a \in batons' : InBatch(a) \cap InBatch(b) = {}
      BY <2>1 DEF SharesInv, Placed, BatchesApart
    <2> QED BY <2>2, <2>3 DEF InBatches
  <1>16. Placed'
    <2>1. QueueApart' /\ InQueue' = InQueue /\ HaveCounted' = HaveCounted /\ found' = found
      BY DEF Finish, SharesInv, Placed, QueueApart, InQueue, HaveCounted
    <2>2. Disjoint(InQueue, InBatches', NotesOf(clients'), HaveCounted, found)
      BY <1>4, <1>5, <1>14, <1>15 DEF Disjoint
    <2> QED BY <1>13, <1>15, <2>1, <2>2 DEF Placed
  <1>17. SentRight
    BY <1>9 DEF Reached, SentRight
  <1> QED BY <1>10, <1>11, <1>12, <1>16, <1>17 DEF SharesInv

(* One Client sends a login or a ping, or nothing.                          *)
LEMMA ClientSends ==
    ASSUME SharesInv, NEW p \in Pools, NEW c, clients' = [clients EXCEPT ![p] = c],
           \A m \in c.wire : m \in clients[p].wire \/ m[2] \in {LoginMessage, PingMessage}
    PROVE  SentRight
  <1>1. clients \in [Pools -> Client]
    BY DEF SharesInv, Types
  <1>2. ASSUME NEW q \in Pools, NEW m \in clients'[q].wire \ clients[q].wire
        PROVE  m[2] \in {LoginMessage, PingMessage}
    BY <1>1
  <1>3. \A q \in Pools : \A m \in clients'[q].wire \ clients[q].wire : ~(m[2] > 0)
    BY <1>2 DEF LoginMessage, PingMessage
  <1> QED BY <1>3 DEF SentRight

(* The steps of a connection that change its Client alone.                  *)
LEMMA LoginStep ==
    ASSUME SharesInv, NEW p \in Pools, Login(p)
    PROVE  SharesInv' /\ SentRight
  <1>1. clients[p] \in Client /\ Sound(p, clients[p]) /\ clients[p].state = "down"
    BY DEF Login, SharesInv, Types, AllSound
  <1>2. PICK written \in BOOLEAN :
           clients' = [clients EXCEPT ![p] =
              Send([clients[p] EXCEPT !.state = "login", !.results = [i \in {} |-> 0]],
                   1, LoginMessage, written)]
    BY DEF Login, Becomes
  <1> DEFINE d == Send([clients[p] EXCEPT !.state = "login", !.results = [i \in {} |-> 0]],
                       1, LoginMessage, written)
  <1>3. d \in Client /\ Sound(p, d) /\ Fewer(clients[p], d)
        /\ d.wire \subseteq {<<1, LoginMessage>>}
    BY <1>1, LoginFacts
  <1>4. clients' = [clients EXCEPT ![p] = d]
    BY <1>2
  <1> HIDE DEF d
  <1>5. SharesInv'
    BY <1>3, <1>4, ClientStep DEF Login, Becomes, Uncounted
  <1>6. SentRight
    <2>1. \A m \in d.wire : m[2] = LoginMessage
      BY <1>3
    <2> QED BY <1>4, <2>1, ClientSends
  <1> QED BY <1>5, <1>6

LEMMA PingStep ==
    ASSUME SharesInv, NEW p \in Pools, Ping(p)
    PROVE  SharesInv' /\ SentRight
  <1>1. clients[p] \in Client /\ Sound(p, clients[p]) /\ clients[p].state = "up"
    BY DEF Ping, SharesInv, Types, AllSound
  <1>2. PICK written \in BOOLEAN :
           clients' = [clients EXCEPT ![p] =
              Send(clients[p], clients[p].sequence, PingMessage, written)]
    BY DEF Ping, Becomes
  <1> DEFINE d == Send(clients[p], clients[p].sequence, PingMessage, written)
             ping == <<clients[p].sequence, PingMessage>>
  <1>3. d \in Client /\ Sound(p, d) /\ Fewer(clients[p], d)
        /\ d.wire \subseteq clients[p].wire \cup {ping}
    BY <1>1, PingFacts
  <1>4. clients' = [clients EXCEPT ![p] = d]
    BY <1>2
  <1>5. \A m \in d.wire : m \in clients[p].wire \/ m[2] = PingMessage
    BY <1>3
  <1> HIDE DEF d, ping
  <1>6. SharesInv'
    BY <1>3, <1>4, ClientStep DEF Ping, Becomes, Uncounted
  <1>7. SentRight
    BY <1>4, <1>5, ClientSends
  <1> QED BY <1>6, <1>7

LEMMA LostStep ==
    ASSUME SharesInv, NEW p \in Pools, Lost(p)
    PROVE  SharesInv' /\ SentRight
  <1>1. clients[p] \in Client /\ Sound(p, clients[p])
    BY DEF SharesInv, Types, AllSound
  <1> DEFINE d == Down(clients[p])
  <1>2. d \in Client /\ Sound(p, d) /\ Fewer(clients[p], d) /\ d.wire = {}
    BY <1>1, DownFacts
  <1>3. clients' = [clients EXCEPT ![p] = d]
    BY DEF Lost, Becomes
  <1> HIDE DEF d
  <1>4. SharesInv'
    BY <1>2, <1>3, ClientStep DEF Lost, Becomes, Uncounted
  <1>5. SentRight
    <2>1. clients \in [Pools -> Client]
      BY DEF SharesInv, Types
    <2>2. \A q \in Pools : clients'[q].wire \subseteq clients[q].wire
      BY <1>2, <1>3, <2>1
    <2> QED BY <2>2 DEF SentRight
  <1> QED BY <1>4, <1>5

LEMMA LoggedInStep ==
    ASSUME SharesAssumption, SharesInv, NEW p \in Pools, LoggedIn(p)
    PROVE  SharesInv' /\ SentRight
  <1>1. clients \in [Pools -> Client] /\ \A q \in Pools : Sound(q, clients[q])
        /\ active \in Users \cup {-1}
    BY DEF SharesInv, Types, AllSound
  <1>2. active' \in Users \cup {-1}
    <2>1. p = 0 => p \in Users
      BY DEF Users
    <2> QED BY <1>1, <2>1 DEF LoggedIn
  <1>3. PICK id \in Logins[p] :
           LET new == [clients EXCEPT ![p] = WithLogin(@, id)]
           IN  clients' = IF p = -1 THEN new
                          ELSE [q \in Pools |-> IF q > 0 /\ q # active' THEN Down(new[q])
                                                 ELSE new[q]]
    BY DEF LoggedIn
  <1> DEFINE d == WithLogin(clients[p], id)
             new == [clients EXCEPT ![p] = d]
  <1>4. d \in Client /\ Sound(p, d) /\ Fewer(clients[p], d) /\ d.wire \subseteq clients[p].wire
    <2>1. <<1, LoginMessage>> \in clients[p].wire /\ clients[p] \in Client /\ Sound(p, clients[p])
      BY <1>1 DEF LoggedIn
    <2> QED BY <2>1, LoggedInFacts
  <1>5. clients' = IF p = -1 THEN new
                   ELSE [q \in Pools |-> IF q > 0 /\ q # active' THEN Down(new[q]) ELSE new[q]]
    BY <1>3
  <1> HIDE DEF d
  <1>6. new \in [Pools -> Client] /\ new[p] = d /\ \A q \in Pools : q # p => new[q] = clients[q]
    BY <1>1, <1>4
  <1> HIDE DEF new
  <1>7. ASSUME NEW q \in Pools
        PROVE  /\ new[q] \in Client /\ Sound(q, new[q]) /\ Fewer(clients[q], new[q])
               /\ new[q].wire \subseteq clients[q].wire
    <2>1. CASE q = p
      BY <1>4, <1>6, <2>1
    <2>2. CASE q # p
      BY <1>1, <1>6, <2>2 DEF Fewer
    <2> QED BY <2>1, <2>2
  <1>8. ASSUME NEW q \in Pools
        PROVE  LET e == Down(new[q])
               IN  e \in Client /\ Sound(q, e) /\ Fewer(clients[q], e) /\ e.wire \subseteq clients[q].wire
    <2>1. /\ Down(new[q]) \in Client /\ Sound(q, Down(new[q]))
          /\ Fewer(new[q], Down(new[q])) /\ Down(new[q]).wire = {}
      BY <1>7, DownFacts
    <2> QED BY <1>7, <2>1 DEF Fewer
  <1>9. /\ clients' \in [Pools -> Client]
        /\ \A q \in Pools : clients'[q] = new[q] \/ clients'[q] = Down(new[q])
    BY <1>5, <1>6, <1>8
  <1>10. \A q \in Pools : /\ Sound(q, clients'[q]) /\ Fewer(clients[q], clients'[q])
                          /\ clients'[q].wire \subseteq clients[q].wire
    BY <1>7, <1>8, <1>9
  <1>11. SharesInv'
    BY <1>2, <1>9, <1>10, ClientsStep DEF LoggedIn, Uncounted
  <1>12. SentRight
    BY <1>10 DEF SentRight
  <1> QED BY <1>11, <1>12

(* A note that is erased was the only one of its share.                     *)
LEMMA NoteGone ==
    ASSUME NotesApart(clients), NEW p \in Pools, NEW id \in DOMAIN clients[p].results,
           NEW cs, \A q \in Pools : Fewer(clients[q], cs[q]), id \notin DOMAIN cs[p].results
    PROVE  clients[p].results[id].n \notin NotesOf(cs)
  <1>1. ASSUME NEW q \in Pools, NEW i \in DOMAIN cs[q].results,
               cs[q].results[i].n = clients[p].results[id].n
        PROVE  FALSE
    <2>1. i \in DOMAIN clients[q].results /\ clients[q].results[i].n = clients[p].results[id].n
      BY <1>1 DEF Fewer
    <2>2. q = p /\ i = id
      BY <2>1 DEF NotesApart
    <2> QED BY <1>1, <2>2
  <1> QED BY <1>1 DEF NotesOf, InNotes

(* The answer to a noted share: the share is counted and no longer noted.   *)
LEMMA CountedStep ==
    ASSUME SharesAssumption, SharesInv, NEW p \in Pools, NEW id \in DOMAIN clients[p].results,
           NEW share, share = clients[p].results[id],
           UNCHANGED <<found, queue, unsent, pending, batons, active>>,
           NEW d \in Client, Sound(p, d), Fewer(clients[p], d), id \notin DOMAIN d.results,
           clients' = [clients EXCEPT ![p] = d],
           counted' = [counted EXCEPT ![share.n] = @ + 1],
           \/ UNCHANGED <<topDiff, best>>
           \/ topDiff' = Record(share.diff) /\ best' = best \cup {share}
    PROVE  SharesInv'
  <1>1. /\ clients \in [Pools -> Client] /\ counted \in [1..MaxShares -> {0, 1}]
        /\ topDiff \in [1..Best -> Levels \cup {0}] /\ best \subseteq Share
        /\ MaxShares \in Nat
    BY DEF SharesInv, Types, SharesAssumption
  <1>2. share \in Share /\ share.n \in 1..MaxShares /\ share.diff \in Levels
    BY <1>1, ClientFacts, ShareFacts
  <1>3. share.n \in InNotes(clients[p]) /\ share.n \in NotesOf(clients)
    <2>1. share.n \in InNotes(clients[p])
      BY DEF InNotes
    <2> QED BY <2>1 DEF NotesOf
  <1>4. Disjoint(InQueue, InBatches, NotesOf(clients), HaveCounted, found)
    BY DEF SharesInv, Placed
  <1>5. counted[share.n] = 0
    <2>1. share.n \notin HaveCounted
      BY <1>3, <1>4 DEF Disjoint
    <2> QED BY <1>1, <1>2, <2>1 DEF HaveCounted
  <1>6. /\ counted' \in [1..MaxShares -> {0, 1}] /\ counted'[share.n] = 1
        /\ \A n \in 1..MaxShares : n # share.n => counted'[n] = counted[n]
    BY <1>1, <1>2, <1>5
  <1>7. /\ clients' \in [Pools -> Client] /\ clients'[p] = d
        /\ \A q \in Pools : q # p => clients'[q] = clients[q]
    BY <1>1
  <1>8. \A q \in Pools : Sound(q, clients'[q]) /\ Fewer(clients[q], clients'[q])
    BY <1>7 DEF SharesInv, AllSound, Fewer
  <1>9. Levels \cup {0} \in SUBSET Nat /\ Falling(topDiff) /\ share.diff \in Levels \cup {0}
    BY <1>2, LevelFacts DEF SharesInv, Ranked
  <1>10. topDiff' \in [1..Best -> Levels \cup {0}] /\ Falling(topDiff') /\ best' \subseteq Share
    <2>1. Record(share.diff) \in [1..Best -> Levels \cup {0}] /\ Falling(Record(share.diff))
      BY <1>1, <1>9, RecordFalls
    <2>2. topDiff' = topDiff \/ topDiff' = Record(share.diff)
      OBVIOUS
    <2>3. best' = best \/ best' = best \cup {share}
      OBVIOUS
    <2> QED BY <1>1, <1>2, <1>9, <2>1, <2>2, <2>3
  <1>11. Types'
    BY <1>6, <1>7, <1>10 DEF SharesInv, Types
  <1>12. AllSound'
    BY <1>8 DEF AllSound
  <1>13. NotesApart(clients') /\ NotesOf(clients') \subseteq NotesOf(clients)
    BY <1>8, FewerNotes DEF SharesInv, Placed
  <1>14. share.n \notin NotesOf(clients')
    <2>1. NotesApart(clients) /\ id \notin DOMAIN clients'[p].results
      BY <1>7 DEF SharesInv, Placed
    <2> QED BY ONLY p \in Pools, id \in DOMAIN clients[p].results, share = clients[p].results[id],
                    <1>8, <2>1, NoteGone
  <1>15. HaveCounted' = HaveCounted \cup {share.n}
    BY <1>2, <1>6 DEF HaveCounted
  <1>16. Placed'
    <2>1. QueueApart' /\ BatchesApart' /\ InQueue' = InQueue /\ InBatches' = InBatches
          /\ found' = found
      BY DEF SharesInv, Placed, QueueApart, BatchesApart, InQueue, InBatches
    <2>2. Disjoint(InQueue, InBatches, NotesOf(clients'), HaveCounted \cup {share.n}, found)
      BY ONLY <1>3, <1>4, <1>13, <1>14 DEF Disjoint
    <2> QED BY <1>13, <1>15, <2>1, <2>2 DEF Placed
  <1>17. \A s \in best : s \in Share /\ s.n \in 1..MaxShares /\ counted[s.n] = 1
    BY <1>1, ShareFacts DEF SharesInv, Ranked
  <1>18. share \notin best
    BY <1>5, <1>17
  <1>19. \A s \in best' : counted'[s.n] = 1
    <2>1. \A s \in best : counted'[s.n] = 1
      BY <1>5, <1>6, <1>17
    <2>2. \A s \in best' : s \in best \/ s = share
      OBVIOUS
    <2> QED BY <1>6, <2>1, <2>2
  <1>20. IsFiniteSet(best')
    <2>1. IsFiniteSet(best)
      BY DEF SharesInv, Ranked
    <2>2. best' = best \/ best' = best \cup {share}
      OBVIOUS
    <2> QED BY ONLY <2>1, <2>2, FS_AddElement
  <1>21. ASSUME NEW v \in Levels PROVE Ranks(topDiff', best', v)
    <2>1. Ranks(topDiff, best, v) /\ IsFiniteSet(best)
      BY DEF SharesInv, Ranked
    <2>2. Ranks(Record(share.diff), best \cup {share}, v)
      <3>1. v \in Nat /\ share.diff \in Nat
        BY <1>2, LevelFacts
      <3>2. topDiff \in [1..Best -> Nat]
        BY <1>1, <1>9
      <3> QED BY <1>9, <1>18, <2>1, <3>1, <3>2, RecordRanks
    <2> QED BY <2>1, <2>2
  <1>22. Ranked'
    BY <1>10, <1>19, <1>20, <1>21 DEF Ranked
  <1> QED BY <1>11, <1>12, <1>16, <1>22 DEF SharesInv

(* The answer to a message: of a noted share, or of none.                   *)
LEMMA AnsweredStep ==
    ASSUME SharesAssumption, SharesInv, NEW p \in Pools, Answered(p)
    PROVE  SharesInv' /\ SentRight
  <1>1. clients[p] \in Client /\ Sound(p, clients[p]) /\ clients \in [Pools -> Client]
    BY DEF SharesInv, Types, AllSound
  <1>2. PICK m \in clients[p].wire, again \in BOOLEAN, answer \in {"OK", "error", "critical"} :
           LET id     == m[1]
               c      == Heard(clients[p], m, again)
               noted  == id \in DOMAIN c.results
               share  == c.results[id]
               erased == IF noted THEN Erased(c, id) ELSE c
           IN  /\ m[2] # LoginMessage
               /\ Becomes(p, IF answer = "critical" THEN Down(erased) ELSE erased)
               /\ counted' = IF noted THEN [counted EXCEPT ![share.n] = @ + 1] ELSE counted
               /\ IF noted /\ answer = "OK"
                  THEN topDiff' = Record(share.diff) /\ best' = best \cup {share}
                  ELSE UNCHANGED <<topDiff, best>>
    BY Zenon DEF Answered
  <1> DEFINE id == m[1]
             c == Heard(clients[p], m, again)
             noted == id \in DOMAIN clients[p].results
             share == clients[p].results[id]
             erased == IF noted THEN Erased(c, id) ELSE c
             d == IF answer = "critical" THEN Down(erased) ELSE erased
  <1>3. /\ c \in Client /\ Sound(p, c) /\ Fewer(clients[p], c) /\ c.wire \subseteq clients[p].wire
        /\ c.results = clients[p].results
    BY ONLY <1>1, HeardFacts, p \in Pools, again \in BOOLEAN DEF c
  <1>4. /\ Becomes(p, d)
        /\ counted' = IF noted THEN [counted EXCEPT ![share.n] = @ + 1] ELSE counted
        /\ IF noted /\ answer = "OK"
           THEN topDiff' = Record(share.diff) /\ best' = best \cup {share}
           ELSE UNCHANGED <<topDiff, best>>
    BY <1>2, <1>3
  <1> HIDE DEF c
  <1>5. /\ erased \in Client /\ Sound(p, erased) /\ Fewer(clients[p], erased)
        /\ erased.wire \subseteq clients[p].wire /\ id \notin DOMAIN erased.results
    <2>1. CASE noted
      <3>1. /\ Erased(c, id) \in Client /\ Sound(p, Erased(c, id)) /\ Fewer(c, Erased(c, id))
            /\ Erased(c, id).wire = c.wire /\ id \notin DOMAIN Erased(c, id).results
        BY <1>3, ErasedFacts
      <3> QED BY <1>3, <2>1, <3>1 DEF Fewer
    <2>2. CASE ~noted
      BY <1>3, <2>2
    <2> QED BY <2>1, <2>2
  <1> HIDE DEF erased
  <1>6. /\ d \in Client /\ Sound(p, d) /\ Fewer(clients[p], d)
        /\ d.wire \subseteq clients[p].wire /\ id \notin DOMAIN d.results
    <2>1. /\ Down(erased) \in Client /\ Sound(p, Down(erased)) /\ Fewer(erased, Down(erased))
          /\ Down(erased).wire = {}
      BY <1>5, DownFacts
    <2>2. Fewer(clients[p], Down(erased)) /\ id \notin DOMAIN Down(erased).results
      BY <1>5, <2>1 DEF Fewer
    <2> QED BY <1>5, <2>1, <2>2
  <1> HIDE DEF d
  <1>7. clients' = [clients EXCEPT ![p] = d]
        /\ UNCHANGED <<found, queue, unsent, pending, batons, active>>
    BY <1>4 DEF Becomes
  <1>8. SharesInv'
    <2>1. CASE noted
      <3>1. counted' = [counted EXCEPT ![share.n] = @ + 1]
        BY <1>4, <2>1
      <3>2. \/ UNCHANGED <<topDiff, best>>
            \/ topDiff' = Record(share.diff) /\ best' = best \cup {share}
        BY <1>4
      <3> HIDE DEF share
      <3>3. share = clients[p].results[id]
        BY DEF share
      <3> HIDE DEF id
      <3> QED BY <1>6, <1>7, <2>1, <3>1, <3>2, <3>3, CountedStep
    <2>2. CASE ~noted
      <3>1. UNCHANGED <<topDiff, counted, best>>
        BY <1>4, <2>2
      <3> QED BY <1>6, <1>7, <3>1, ClientStep
    <2> QED BY <2>1, <2>2
  <1>9. SentRight
    <2>1. \A q \in Pools : clients'[q].wire \subseteq clients[q].wire
      BY <1>1, <1>6, <1>7
    <2> QED BY <2>1 DEF SentRight
  <1> QED BY <1>8, <1>9

(* The strategy has no active pool any longer; and a step of nothing.       *)
LEMMA ClosedStep ==
    ASSUME SharesInv, Closed
    PROVE  SharesInv' /\ SentRight
  <1>1. clients' = clients /\ active' \in Users \cup {-1}
    BY DEF Closed
  <1>2. \A p \in Pools : Sound(p, clients'[p]) /\ Fewer(clients[p], clients'[p])
    BY <1>1 DEF SharesInv, AllSound, Fewer
  <1>3. clients' \in [Pools -> Client]
    BY <1>1 DEF SharesInv, Types
  <1>4. SharesInv'
    BY <1>1, <1>2, <1>3, ClientsStep DEF Closed, Uncounted
  <1> QED BY <1>1, <1>4 DEF SentRight

LEMMA SharesStutter ==
    ASSUME SharesInv, UNCHANGED vars
    PROVE  SharesInv' /\ SentRight
  <1>1. clients' = clients /\ clients' \in [Pools -> Client] /\ active' \in Users \cup {-1}
    BY DEF vars, SharesInv, Types
  <1>2. \A p \in Pools : Sound(p, clients'[p]) /\ Fewer(clients[p], clients'[p])
    BY <1>1 DEF SharesInv, AllSound, Fewer
  <1>3. SharesInv'
    BY <1>1, <1>2, ClientsStep DEF vars
  <1> QED BY <1>1, <1>3 DEF SentRight

(* Every step of the program.                                               *)
LEMMA SharesNext ==
    ASSUME SharesAssumption, LoginsDiffer, SharesInv, [Next]_vars
    PROVE  SharesInv' /\ SentRight
  <1> USE DEF SentRight
  <1>1. ASSUME NEW t \in Threads, Submit(t) PROVE SharesInv' /\ SentRight
    BY <1>1, SubmitStep DEF Submit
  <1>2. ASSUME NEW t \in Threads, AsyncSend(t) PROVE SharesInv' /\ SentRight
    <2>1. clients' = clients /\ clients' \in [Pools -> Client] /\ active' \in Users \cup {-1}
      BY <1>2 DEF AsyncSend, SharesInv, Types
    <2>2. Types'
      BY <1>2 DEF AsyncSend, SharesInv, Types
    <2>3. AllSound' /\ Placed' /\ Ranked'
      BY <1>2 DEF AsyncSend, SharesInv, AllSound, Placed, QueueApart, BatchesApart, InQueue,
                  InBatches, HaveCounted, Ranked
    <2> QED BY <2>1, <2>2, <2>3 DEF SharesInv
  <1>3. CASE OnResult
    BY <1>3, OnResultStep DEF OnResult
  <1>4. ASSUME NEW b \in batons, Verify(b) PROVE SharesInv' /\ SentRight
    BY <1>4, VerifyStep DEF Verify
  <1>5. ASSUME NEW b \in batons, Finish(b) PROVE SharesInv' /\ SentRight
    BY <1>5, FinishStep
  <1>6. ASSUME NEW p \in Pools, Login(p) \/ LoggedIn(p) \/ Ping(p) \/ Answered(p) \/ Lost(p)
        PROVE  SharesInv' /\ SentRight
    BY <1>6, LoginStep, LoggedInStep, PingStep, AnsweredStep, LostStep
  <1>7. CASE Closed
    BY <1>7, ClosedStep
  <1>8. CASE Ended \/ UNCHANGED vars
    BY <1>8, SharesStutter DEF Ended
  <1> QED BY <1>1, <1>2, <1>3, <1>4, <1>5, <1>6, <1>7, <1>8 DEF Next, Work

(* No two places have the same share: the counts of OnePlace add up to one. *)
LEMMA SharesInvImplies ==
    ASSUME SharesAssumption, SharesInv
    PROVE  CountedOnce
  <1>1. MaxShares \in Nat /\ Best \in Nat \ {0}
    BY DEF SharesAssumption
  <1>2. TypeOK
    <2>1. \A b \in batons : b.jobs \in Seq(Share) /\ b.results \subseteq Range(b.jobs)
                            /\ b.verified \in BOOLEAN
      BY DEF SharesInv, Types, Batch
    <2>2. ASSUME NEW p \in Pools
          PROVE  /\ clients[p].state \in {"down", "login", "up"}
                 /\ clients[p].rpcId \in Logins[p] \cup {0}
                 /\ clients[p].given \subseteq Logins[p]
                 /\ clients[p].sequence \in Numbers
                 /\ DOMAIN clients[p].results \subseteq Numbers
                 /\ Range(clients[p].results) \subseteq Share
                 /\ clients[p].wire \subseteq
                       Numbers \X ((1..MaxShares) \cup {LoginMessage, PingMessage})
      <3>1. clients[p] \in Client /\ Sound(p, clients[p])
        BY DEF SharesInv, Types, AllSound
      <3>2. DOMAIN clients[p].results \subseteq Numbers /\ Range(clients[p].results) \subseteq Share
        <4>1. /\ DOMAIN clients[p].results \subseteq Nat \ {0}
              /\ \A i \in DOMAIN clients[p].results : clients[p].results[i] \in Share
          BY <3>1, ClientFacts
        <4> QED BY <4>1 DEF Range, Numbers
      <3> QED BY <3>1, <3>2 DEF Client, Sound, Message
    <2>3. counted \in [1..MaxShares -> Nat]
      BY DEF SharesInv, Types
    <2> QED BY <2>1, <2>2, <2>3 DEF SharesInv, Types, TypeOK
  <1>3. Disjoint(InQueue, InBatches, NotesOf(clients), HaveCounted, found)
    BY DEF SharesInv, Placed
  <1>4. ASSUME NEW n \in 1..MaxShares
        PROVE  Cardinality(Queued(n)) + Cardinality(Batched(n)) + Cardinality(Noted(n))
                   + counted[n] <= 1
    <2>1. /\ Queued(n) # {} => n \in InQueue
          /\ Batched(n) # {} => n \in InBatches
          /\ Noted(n) # {} => n \in NotesOf(clients)
          /\ counted[n] # 0 => n \in HaveCounted
      <3>1. Queued(n) # {} => n \in InQueue
        BY DEF Queued, InQueue
      <3>2. Batched(n) # {} => n \in InBatches
        BY DEF Batched, InBatches, InBatch
      <3>3. Noted(n) # {} => n \in NotesOf(clients)
        <4>1. ASSUME NEW at \in Noted(n) PROVE n \in NotesOf(clients)
          <5>1. PICK p \in Pools : at \in {p} \X DOMAIN clients[p].results
            BY DEF Noted
          <5>2. at[1] = p /\ at[2] \in DOMAIN clients[p].results
            BY <5>1
          <5>3. n \in InNotes(clients[p])
            BY <5>2 DEF Noted, InNotes
          <5> QED BY <5>3 DEF NotesOf
        <4> QED BY <4>1
      <3>4. counted[n] # 0 => n \in HaveCounted
        BY DEF HaveCounted, SharesInv, Types
      <3> QED BY <3>1, <3>2, <3>3, <3>4
    <2>2. /\ \A i, j \in Queued(n) : i = j
          /\ \A b, c \in Batched(n) : b = c
          /\ \A a, e \in Noted(n) : a = e
      <3>1. \A i, j \in Queued(n) : i = j
        BY DEF Queued, SharesInv, Placed, QueueApart
      <3>2. \A b, c \in Batched(n) : b = c
        BY DEF Batched, InBatch, SharesInv, Placed, BatchesApart
      <3>3. ASSUME NEW a \in Noted(n), NEW e \in Noted(n) PROVE a = e
        <4>1. PICK p \in Pools : a \in {p} \X DOMAIN clients[p].results
          BY DEF Noted
        <4>2. PICK q \in Pools : e \in {q} \X DOMAIN clients[q].results
          BY DEF Noted
        <4>3. /\ a = <<p, a[2]>> /\ a[1] = p /\ a[2] \in DOMAIN clients[p].results
              /\ e = <<q, e[2]>> /\ e[1] = q /\ e[2] \in DOMAIN clients[q].results
          BY <4>1, <4>2
        <4>4. clients[p].results[a[2]].n = n /\ clients[q].results[e[2]].n = n
          BY <4>3 DEF Noted
        <4>5. p = q /\ a[2] = e[2]
          BY <4>3, <4>4 DEF SharesInv, Placed, NotesApart
        <4> QED BY <4>3, <4>5
      <3> QED BY <3>1, <3>2, <3>3
    <2>3. ASSUME NEW S, \A x, y \in S : x = y
          PROVE  Cardinality(S) = IF S = {} THEN 0 ELSE 1
      <3>1. CASE S = {}
        BY <3>1, FS_EmptySet
      <3>2. CASE S # {}
        <4>1. PICK x \in S : TRUE
          BY <3>2
        <4>2. S = {x}
          BY <2>3, <4>1
        <4> QED BY <3>2, <4>2, FS_Singleton
      <3> QED BY <3>1, <3>2
    <2>4. /\ Cardinality(Queued(n)) = IF Queued(n) = {} THEN 0 ELSE 1
          /\ Cardinality(Batched(n)) = IF Batched(n) = {} THEN 0 ELSE 1
          /\ Cardinality(Noted(n)) = IF Noted(n) = {} THEN 0 ELSE 1
      BY <2>2, <2>3
    <2>5. counted[n] \in {0, 1}
      BY DEF SharesInv, Types
    <2> QED BY <1>3, <2>1, <2>4, <2>5 DEF Disjoint
  <1>5. Credited
    BY DEF Credited, SharesInv, AllSound, Sound
  <1>6. TopIsBest
    BY DEF TopIsBest, SharesInv, Ranked, Ranks, AtLeast
  <1> QED BY <1>2, <1>4, <1>5, <1>6 DEF CountedOnce, OnePlace

-----------------------------------------------------------------------------
(* The theorems.                                                            *)

(* A share that a card found is in one place of its way from the queue of   *)
(* Workers to the results of a Client, the numbers of what is under way are *)
(* those that were used, and the statistics rank what was accepted.         *)
THEOREM SharesInvariance == Spec => []SharesInv
  <1>1. Init => SharesInv
    BY SharesAssumption, SharesInvInit
  <1>2. SharesInv /\ [Next]_vars => SharesInv'
    BY SharesAssumption, LoginsDiffer, SharesNext
  <1> QED BY <1>1, <1>2, PTL DEF Spec

(* Workers and Client count a share at most once, for what it is, whatever  *)
(* the pool repeats, loses or answers after a new login, and NetworkState   *)
(* keeps the best ones: for any pools, threads, logins and difficulties.    *)
THEOREM CountsOnce == Spec => []CountedOnce
  <1>1. SharesInv => CountedOnce
    BY SharesAssumption, SharesInvImplies
  <1> QED BY <1>1, SharesInvariance, PTL

(* Network::onJobResult() and Client::submit() send a share to the pool of  *)
(* its job only, and only while that pool knows the login it was found for. *)
THEOREM SendsToItsLogin == Spec => SentToItsLogin
  <1>1. SharesInv /\ [Next]_vars => SentRight
    BY SharesAssumption, LoginsDiffer, SharesNext
  <1>2. SharesInv /\ [Next]_vars =>
          [\A p \in Pools : \A m \in clients'[p].wire \ clients[p].wire :
              m[2] > 0 => LET s == clients'[p].results[m[1]]
                          IN  s.poolId = p /\ s.clientId = clients[p].rpcId]_vars
    BY <1>1 DEF SentRight
  <1> QED BY <1>2, SharesInvariance, PTL DEF Spec, SentToItsLogin
=============================================================================
