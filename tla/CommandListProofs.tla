------------------------- MODULE CommandListProofs -------------------------
(***************************************************************************)
(* Theorems about the command list, for every set of messages: the place   *)
(* addMessage remembers is one of the list, the place it chooses too, its  *)
(* search for a duplicate never drops a message that is not there, and the *)
(* commands in the list are an ordered set.                                *)
(***************************************************************************)
EXTENDS CommandList, SequenceTheorems, WellFoundedInduction, TLAPS

-----------------------------------------------------------------------------
(* Sequences. *)

LEMMA InsertFacts ==
    ASSUME NEW S, NEW s \in Seq(S), NEW i \in 1 .. Len(s) + 1, NEW e \in S
    PROVE  /\ InsertAt(s, i, e) \in Seq(S)
           /\ Len(InsertAt(s, i, e)) = Len(s) + 1
           /\ InsertAt(s, i, e)[i] = e
           /\ \A k \in 1 .. i - 1 : InsertAt(s, i, e)[k] = s[k]
           /\ \A k \in i .. Len(s) : InsertAt(s, i, e)[k + 1] = s[k]
           /\ e \in ToSet(InsertAt(s, i, e))
           /\ ToSet(s) \subseteq ToSet(InsertAt(s, i, e))
<1> DEFINE front == SubSeq(s, 1, i - 1)
           back == SubSeq(s, i, Len(s))
           first == front \o <<e>>
           t == InsertAt(s, i, e)
<1>1. Len(s) \in Nat /\ i \in Nat /\ \A k \in 1 .. Len(s) : s[k] \in S
  OBVIOUS
<1>2. /\ front \in Seq(S) /\ Len(front) = i - 1
      /\ \A k \in 1 .. i - 1 : front[k] = s[k]
  BY <1>1
<1>3. /\ back \in Seq(S) /\ Len(back) = Len(s) - i + 1
      /\ \A k \in 1 .. Len(s) - i + 1 : back[k] = s[k + i - 1]
  BY <1>1
<1>4. t = first \o back
  BY DEF InsertAt
<1> HIDE DEF front, back
<1>10. /\ <<e>> \in Seq(S) /\ Len(<<e>>) = 1 /\ <<e>>[1] = e
  OBVIOUS
<1>11. /\ first \in Seq(S) /\ Len(first) = i
       /\ \A k \in 1 .. i : first[k] = IF k <= i - 1 THEN front[k] ELSE <<e>>[k - (i - 1)]
  BY <1>1, <1>2, <1>10, ConcatProperties
<1>12. first[i] = e /\ \A k \in 1 .. i - 1 : first[k] = front[k]
  BY <1>1, <1>10, <1>11
<1> HIDE DEF first, t
<1>13. /\ t \in Seq(S) /\ Len(t) = Len(s) + 1
       /\ \A k \in 1 .. Len(s) + 1 : t[k] = IF k <= i THEN first[k] ELSE back[k - i]
  BY <1>1, <1>3, <1>4, <1>11, ConcatProperties
<1>14. ASSUME NEW k \in 1 .. Len(s) - i + 1 PROVE t[k + i] = back[k]
  <2>1. k + i \in 1 .. Len(s) + 1 /\ ~(k + i <= i) /\ (k + i) - i = k
    BY <1>1
  <2> QED
    BY <1>13, <2>1
<1>5. /\ t \in Seq(S) /\ Len(t) = Len(s) + 1
      /\ t[i] = e
      /\ \A k \in 1 .. i - 1 : t[k] = front[k]
      /\ \A k \in 1 .. Len(s) - i + 1 : t[k + i] = back[k]
  BY <1>1, <1>12, <1>13, <1>14
<1>6. DOMAIN t = 1 .. Len(s) + 1 /\ DOMAIN s = 1 .. Len(s)
  BY <1>5
<1>7. e \in ToSet(t)
  BY <1>1, <1>5, <1>6 DEF ToSet
<1>8. ASSUME NEW k \in 1 .. Len(s) PROVE s[k] \in ToSet(t)
  <2>1. CASE k < i
    <3>1. t[k] = s[k] /\ k \in DOMAIN t
      BY <1>1, <1>2, <1>5, <1>6, <2>1
    <3> QED
      BY <3>1 DEF ToSet
  <2>2. CASE k >= i
    <3>1. k - i + 1 \in 1 .. Len(s) - i + 1
      BY <1>1, <2>2
    <3>2. (k - i + 1) + i = k + 1 /\ (k - i + 1) + i - 1 = k
      BY <1>1
    <3>4. t[(k - i + 1) + i] = back[k - i + 1] /\ back[k - i + 1] = s[(k - i + 1) + i - 1]
      BY <1>3, <1>5, <3>1
    <3>3. t[k + 1] = s[k] /\ k + 1 \in DOMAIN t
      BY <1>1, <1>6, <3>2, <3>4
    <3> QED
      BY <3>3 DEF ToSet
  <2> QED
    BY <1>1, <2>1, <2>2
<1>9. ToSet(s) \subseteq ToSet(t)
  BY <1>6, <1>8 DEF ToSet
<1>15. \A k \in 1 .. i - 1 : t[k] = s[k]
  BY <1>2, <1>5
<1>16. ASSUME NEW k \in i .. Len(s) PROVE t[k + 1] = s[k]
  <2>1. k - i + 1 \in 1 .. Len(s) - i + 1
    BY <1>1
  <2>2. t[(k - i + 1) + i] = back[k - i + 1] /\ back[k - i + 1] = s[(k - i + 1) + i - 1]
    BY <1>3, <1>5, <2>1
  <2>3. (k - i + 1) + i = k + 1 /\ (k - i + 1) + i - 1 = k
    BY <1>1
  <2> QED
    BY <2>2, <2>3
<1> QED
  BY <1>5, <1>7, <1>9, <1>15, <1>16 DEF t

LEMMA RemoveFacts ==
    ASSUME NEW S, NEW s \in Seq(S), NEW i \in 1 .. Len(s)
    PROVE  /\ RemoveAt(s, i) \in Seq(S)
           /\ Len(RemoveAt(s, i)) = Len(s) - 1
           /\ \A k \in 1 .. i - 1 : RemoveAt(s, i)[k] = s[k]
           /\ \A k \in i .. Len(s) - 1 : RemoveAt(s, i)[k] = s[k + 1]
           /\ ToSet(s) \ {s[i]} \subseteq ToSet(RemoveAt(s, i))
<1> DEFINE front == SubSeq(s, 1, i - 1)
           back == SubSeq(s, i + 1, Len(s))
           t == RemoveAt(s, i)
<1>1. Len(s) \in Nat /\ i \in Nat /\ \A k \in 1 .. Len(s) : s[k] \in S
  OBVIOUS
<1>2. /\ front \in Seq(S) /\ Len(front) = i - 1
      /\ \A k \in 1 .. i - 1 : front[k] = s[k]
  BY <1>1
<1>3. /\ back \in Seq(S) /\ Len(back) = Len(s) - i
      /\ \A k \in 1 .. Len(s) - i : back[k] = s[k + i]
  BY <1>1
<1>4. t = front \o back
  BY DEF RemoveAt
<1> HIDE DEF front, back, t
<1>10. /\ t \in Seq(S) /\ Len(t) = Len(s) - 1
       /\ \A k \in 1 .. Len(s) - 1 : t[k] = IF k <= i - 1 THEN front[k] ELSE back[k - (i - 1)]
  <2>1. /\ t \in Seq(S) /\ Len(t) = Len(front) + Len(back)
        /\ \A k \in 1 .. Len(front) + Len(back) :
              t[k] = IF k <= Len(front) THEN front[k] ELSE back[k - Len(front)]
    BY <1>2, <1>3, <1>4, ConcatProperties
  <2>2. Len(front) + Len(back) = Len(s) - 1
    BY <1>1, <1>2, <1>3
  <2> QED
    BY <1>2, <2>1, <2>2
<1>11. ASSUME NEW k \in 1 .. Len(s) - i PROVE t[k + i - 1] = back[k]
  <2>1. /\ k + i - 1 \in 1 .. Len(s) - 1 /\ ~(k + i - 1 <= i - 1)
        /\ (k + i - 1) - (i - 1) = k
    BY <1>1
  <2> QED
    BY <1>10, <2>1
<1>5. /\ t \in Seq(S) /\ Len(t) = Len(s) - 1
      /\ \A k \in 1 .. i - 1 : t[k] = front[k]
      /\ \A k \in 1 .. Len(s) - i : t[k + i - 1] = back[k]
  BY <1>1, <1>10, <1>11
<1>6. DOMAIN t = 1 .. Len(s) - 1 /\ DOMAIN s = 1 .. Len(s)
  BY <1>5
<1>7. ASSUME NEW k \in 1 .. Len(s), k # i PROVE s[k] \in ToSet(t)
  <2>1. CASE k < i
    <3>1. t[k] = s[k] /\ k \in DOMAIN t
      BY <1>1, <1>2, <1>5, <1>6, <2>1
    <3> QED
      BY <3>1 DEF ToSet
  <2>2. CASE k > i
    <3>1. k - i \in 1 .. Len(s) - i
      BY <1>1, <2>2
    <3>2. (k - i) + i = k /\ (k - i) + i - 1 = k - 1
      BY <1>1
    <3>3. t[(k - i) + i - 1] = back[k - i]
      BY <1>11, <3>1
    <3>4. back[k - i] = s[(k - i) + i]
      BY <1>3, <3>1
    <3>5. t[k - 1] = s[k]
      BY <3>2, <3>3, <3>4
    <3>6. k - 1 \in DOMAIN t
      BY <1>1, <1>6, <2>2
    <3> QED
      BY <3>5, <3>6 DEF ToSet
  <2> QED
    BY <1>1, <1>7, <2>1, <2>2
<1>8. ToSet(s) \ {s[i]} \subseteq ToSet(t)
  BY <1>6, <1>7 DEF ToSet
<1>9. \A k \in 1 .. i - 1 : t[k] = s[k]
  BY <1>2, <1>5
<1>12. ASSUME NEW k \in i .. Len(s) - 1 PROVE t[k] = s[k + 1]
  <2>1. k - i + 1 \in 1 .. Len(s) - i
    BY <1>1
  <2>2. t[(k - i + 1) + i - 1] = back[k - i + 1] /\ back[k - i + 1] = s[(k - i + 1) + i]
    BY <1>3, <1>5, <2>1
  <2>3. (k - i + 1) + i - 1 = k /\ (k - i + 1) + i = k + 1
    BY <1>1
  <2> QED
    BY <2>2, <2>3
<1> QED
  BY <1>5, <1>8, <1>9, <1>12 DEF t

-----------------------------------------------------------------------------
(* The three search loops: each stops on a position of the list, or behind  *)
(* it, and the next one starts from there.                                  *)

LEMMA FirstFrom ==
    ASSUME NEW n \in Nat, NEW i \in 1 .. n + 1, NEW T \in SUBSET (1 .. n)
    PROVE  \E j \in i .. n + 1 : /\ \A k \in i .. j - 1 : k \in T
                                 /\ j <= n => j \notin T
<1> DEFINE Stops == {j \in i .. n + 1 : j \notin T}
<1>1. n + 1 \in Stops /\ Stops \subseteq Nat
  OBVIOUS
<1>2. \E q \in Stops : \A r \in Stops : ~(<<r, q>> \in OpToRel(<, Nat))
  BY <1>1, WFMin, NatLessThanWellFounded, Zenon
<1>3. \A q, r \in Stops : ~(<<r, q>> \in OpToRel(<, Nat)) => ~(r < q)
  BY <1>1, Zenon DEF OpToRel
<1>4. PICK q \in Stops : \A r \in Stops : ~(r < q)
  BY <1>2, <1>3
<1>5. q \in i .. n + 1 /\ (q <= n => q \notin T)
  BY <1>4
<1>6. \A k \in i .. q - 1 : k \in T
  BY <1>4
<1> QED
  BY <1>5, <1>6

AfterTypes(m) == SkipWhile(1, LAMBDA x : x.type < m.type)
AfterPlayers(m, i) == SkipWhile(i, LAMBDA x : x.type = m.type /\ x.player < m.player)
AfterNumbers(m, i) == SkipWhile(i, LAMBDA x : SameSection(m, x) /\ x.sort < m.sort)

(* i is where the loop over types stops, j the one over players.            *)
SearchedFrom(m, i, j) ==
    LET position == SearchPosition(m)
    IN  /\ \A k \in 1 .. i - 1 : list[k].type < m.type
        /\ i <= Len(list) => ~(list[i].type < m.type)
        /\ \A k \in i .. j - 1 : list[k].type = m.type /\ list[k].player < m.player
        /\ j <= Len(list) => ~(list[j].type = m.type /\ list[j].player < m.player)
        /\ position \in j .. Len(list) + 1
        /\ \A k \in j .. position - 1 : SameSection(m, list[k]) /\ list[k].sort < m.sort
        /\ position <= Len(list) =>
              ~(SameSection(m, list[position]) /\ list[position].sort < m.sort)

LEMMA SearchStops ==
    ASSUME NEW m \in Messages, list \in Seq(Messages)
    PROVE  \E i \in 1 .. Len(list) + 1 : \E j \in i .. Len(list) + 1 : SearchedFrom(m, i, j)
<1> DEFINE n == Len(list)
<1>1. n \in Nat
  OBVIOUS
<1>2. /\ AfterTypes(m) \in 1 .. n + 1
      /\ \A k \in 1 .. AfterTypes(m) - 1 : list[k].type < m.type
      /\ AfterTypes(m) <= n => ~(list[AfterTypes(m)].type < m.type)
  <2> DEFINE T == {k \in 1 .. n : list[k].type < m.type}
  <2>3. T \in SUBSET (1 .. n) /\ 1 \in 1 .. n + 1
    BY <1>1
  <2> HIDE DEF T
  <2>1. \E j \in 1 .. n + 1 : /\ \A k \in 1 .. j - 1 : k \in T
                              /\ j <= n => j \notin T
    BY <1>1, <2>3, FirstFrom
  <2> USE DEF T
  <2>2. \E j \in 1 .. n + 1 : /\ \A k \in 1 .. j - 1 : list[k].type < m.type
                              /\ j <= n => ~(list[j].type < m.type)
    BY <1>1, <2>1
  <2> QED
    BY <2>2, Zenon DEF AfterTypes, SkipWhile
<1>3. ASSUME NEW i \in 1 .. n + 1
      PROVE  /\ AfterPlayers(m, i) \in i .. n + 1
             /\ \A k \in i .. AfterPlayers(m, i) - 1 :
                   list[k].type = m.type /\ list[k].player < m.player
             /\ AfterPlayers(m, i) <= n =>
                   ~(/\ list[AfterPlayers(m, i)].type = m.type
                     /\ list[AfterPlayers(m, i)].player < m.player)
  <2> DEFINE T == {k \in 1 .. n : list[k].type = m.type /\ list[k].player < m.player}
  <2>1. \E j \in i .. n + 1 : /\ \A k \in i .. j - 1 : k \in T
                              /\ j <= n => j \notin T
    BY <1>1, FirstFrom
  <2>2. \E j \in i .. n + 1 :
           /\ \A k \in i .. j - 1 : list[k].type = m.type /\ list[k].player < m.player
           /\ j <= n => ~(list[j].type = m.type /\ list[j].player < m.player)
    BY <1>1, <2>1
  <2> QED
    BY <2>2, Zenon DEF AfterPlayers, SkipWhile
<1>4. ASSUME NEW i \in 1 .. n + 1
      PROVE  /\ AfterNumbers(m, i) \in i .. n + 1
             /\ \A k \in i .. AfterNumbers(m, i) - 1 :
                   SameSection(m, list[k]) /\ list[k].sort < m.sort
             /\ AfterNumbers(m, i) <= n =>
                   ~(/\ SameSection(m, list[AfterNumbers(m, i)])
                     /\ list[AfterNumbers(m, i)].sort < m.sort)
  <2> DEFINE T == {k \in 1 .. n : SameSection(m, list[k]) /\ list[k].sort < m.sort}
  <2>1. \E j \in i .. n + 1 : /\ \A k \in i .. j - 1 : k \in T
                              /\ j <= n => j \notin T
    BY <1>1, FirstFrom
  <2>2. \E j \in i .. n + 1 :
           /\ \A k \in i .. j - 1 : SameSection(m, list[k]) /\ list[k].sort < m.sort
           /\ j <= n => ~(SameSection(m, list[j]) /\ list[j].sort < m.sort)
    BY <1>1, <2>1
  <2> QED
    BY <2>2, Zenon DEF AfterNumbers, SkipWhile
<1>5. SearchPosition(m) = AfterNumbers(m, AfterPlayers(m, AfterTypes(m)))
  BY DEF SearchPosition, AfterNumbers, AfterPlayers, AfterTypes
<1> DEFINE i == AfterTypes(m)
           j == AfterPlayers(m, i)
<1>6. i \in 1 .. n + 1 /\ j \in i .. n + 1 /\ j \in 1 .. n + 1
  BY <1>1, <1>2, <1>3
<1>7. SearchedFrom(m, i, j)
  <2>1. SearchPosition(m) = AfterNumbers(m, j)
    BY <1>5
  <2> HIDE DEF j
  <2>2. /\ SearchPosition(m) \in j .. n + 1
        /\ \A k \in j .. SearchPosition(m) - 1 :
              SameSection(m, list[k]) /\ list[k].sort < m.sort
        /\ SearchPosition(m) <= n =>
              ~(/\ SameSection(m, list[SearchPosition(m)])
                /\ list[SearchPosition(m)].sort < m.sort)
    BY <1>4, <1>6, <2>1
  <2> QED
    BY <1>2, <1>3, <1>6, <2>2 DEF SearchedFrom, j
<1> QED
  BY <1>6, <1>7

(* The chosen place is a place of the list, and so is the neighbour.        *)
LEMMA InsertPositionFacts ==
    ASSUME TypeOK, list # <<>>, NEW m \in Messages
    PROVE  /\ InsertPosition(m) \in 1 .. Len(list) + 1
           /\ Neighbour(m) \in 1 .. Len(list)
<1>1. Len(list) \in Nat /\ Len(list) > 0 /\ list \in Seq(Messages)
  BY DEF TypeOK
<1>2. FollowsLast(m) => lastMessageInserted \in 1 .. Len(list)
  BY <1>1 DEF FollowsLast, TypeOK
<1>3. SearchPosition(m) \in 1 .. Len(list) + 1
  <2>1. PICK i \in 1 .. Len(list) + 1 : \E j \in i .. Len(list) + 1 : SearchedFrom(m, i, j)
    BY <1>1, SearchStops
  <2> QED
    BY <1>1, <2>1 DEF SearchedFrom
<1>4. InsertPosition(m) \in 1 .. Len(list) + 1
  BY <1>1, <1>2, <1>3 DEF InsertPosition
<1> QED
  BY <1>1, <1>2, <1>4 DEF Neighbour

-----------------------------------------------------------------------------
(* Two messages that addMessage takes for equal are equal. *)
LEMMA EqualAreSame ==
    ASSUME NEW m \in Messages, NEW n \in Messages, IsEqualCommandMsg(m, n)
    PROVE  m = n
<1>1. /\ m \in [type : Nat, player : Nat, id : Nat, sort : Nat, orig : Nat]
      /\ n \in [type : Nat, player : Nat, id : Nat, sort : Nat, orig : Nat]
  BY MessagesAssumption
<1>2. CASE RequiresID(m)
  BY <1>2, MessagesAssumption DEF IsEqualCommandMsg
<1>3. CASE ~RequiresID(m)
  <2>1. m.id = 0 /\ n.id = 0
    BY <1>3, MessagesAssumption DEF IsEqualCommandMsg
  <2>2. /\ m.type = n.type /\ m.player = n.player /\ m.sort = n.sort
        /\ m.orig = n.orig
    BY <1>3 DEF IsEqualCommandMsg
  <2> QED
    BY <1>1, <2>1, <2>2
<1> QED
  BY <1>2, <1>3

LEMMA AlreadyThereIsThere ==
    ASSUME TypeOK, NEW m \in Messages, AlreadyThere(m)
    PROVE  m \in ToSet(list)
<1>1. list # <<>> /\ IsEqualCommandMsg(list[Neighbour(m)], m)
  BY DEF AlreadyThere
<1>2. Neighbour(m) \in 1 .. Len(list) /\ list \in Seq(Messages)
  BY <1>1, InsertPositionFacts DEF TypeOK
<1>3. list[Neighbour(m)] \in Messages /\ Neighbour(m) \in DOMAIN list
  BY <1>2
<1>4. list[Neighbour(m)] = m
  BY <1>1, <1>3, EqualAreSame
<1> QED
  BY <1>3, <1>4 DEF ToSet

-----------------------------------------------------------------------------
ListInv == TypeOK /\ NothingLost

LEMMA ListInit == Init => ListInv
BY DEF Init, ListInv, TypeOK, NothingLost

LEMMA ListAddMessage ==
    ASSUME ListInv, NEW m \in Messages, AddMessage(m)
    PROVE  ListInv'
<1>1. /\ TypeOK /\ content \subseteq ToSet(list) /\ list \in Seq(Messages)
      /\ content' = content \cup {m} /\ content' \in SUBSET Messages
  BY DEF ListInv, TypeOK, NothingLost, AddMessage
<1>2. CASE AlreadyThere(m)
  <2>1. list' = list /\ lastMessageInserted' = lastMessageInserted
    BY <1>2 DEF AddMessage
  <2>2. m \in ToSet(list)
    BY <1>1, <1>2, AlreadyThereIsThere
  <2> QED
    BY <1>1, <2>1, <2>2 DEF ListInv, TypeOK, NothingLost
<1>3. CASE ~AlreadyThere(m)
  <2> DEFINE i == IF list = <<>> THEN 1 ELSE InsertPosition(m)
  <2>1. list' = InsertAt(list, i, m) /\ lastMessageInserted' = i
    BY <1>3 DEF AddMessage
  <2>2. i \in 1 .. Len(list) + 1
    BY <1>1, InsertPositionFacts
  <2> HIDE DEF i
  <2>3. /\ list' \in Seq(Messages) /\ Len(list') = Len(list) + 1
        /\ m \in ToSet(list') /\ ToSet(list) \subseteq ToSet(list')
    BY <1>1, <2>1, <2>2, InsertFacts
  <2>4. lastMessageInserted' \in 0 .. Len(list')
    BY <1>1, <2>1, <2>2, <2>3
  <2>5. content' \subseteq ToSet(list')
    BY <1>1, <2>3
  <2>6. NothingLost'
    BY <2>5 DEF NothingLost, ToSet
  <2> QED
    BY <1>1, <2>3, <2>4, <2>6 DEF ListInv, TypeOK
<1> QED
  BY <1>2, <1>3

LEMMA ListRemoveMessage ==
    ASSUME ListInv, NEW i \in 1 .. Len(list), RemoveMessage(i)
    PROVE  ListInv'
<1>1. /\ list \in Seq(Messages) /\ Len(list) \in Nat
      /\ lastMessageInserted \in 0 .. Len(list)
      /\ content \subseteq ToSet(list) /\ content \in SUBSET Messages
  BY DEF ListInv, TypeOK, NothingLost
<1>2. /\ list' = RemoveAt(list, i) /\ content' = content \ {list[i]}
      /\ lastMessageInserted' =
            CASE lastMessageInserted > i -> lastMessageInserted - 1
              [] lastMessageInserted = i /\ i = Len(list) -> 0
              [] OTHER -> lastMessageInserted
  BY DEF RemoveMessage
<1>3. /\ list' \in Seq(Messages) /\ Len(list') = Len(list) - 1
      /\ ToSet(list) \ {list[i]} \subseteq ToSet(list')
  BY <1>1, <1>2, RemoveFacts
<1>4. lastMessageInserted' \in 0 .. Len(list) - 1
  BY <1>1, <1>2
<1>5. content' \subseteq ToSet(list')
  BY <1>1, <1>2, <1>3
<1>6. NothingLost'
  BY <1>5 DEF NothingLost, ToSet
<1> QED
  BY <1>1, <1>2, <1>3, <1>4, <1>6 DEF ListInv, TypeOK

LEMMA ListStep == ListInv /\ [Next]_vars => ListInv'
<1> SUFFICES ASSUME ListInv, [Next]_vars PROVE ListInv'
  OBVIOUS
<1>1. ASSUME NEW m \in Messages, AddMessage(m) PROVE ListInv'
  BY <1>1, ListAddMessage
<1>2. ASSUME NEW i \in 1 .. Len(list), RemoveMessage(i) PROVE ListInv'
  BY <1>2, ListRemoveMessage
<1>3. CASE Reset
  BY <1>3 DEF Reset, ListInv, TypeOK, NothingLost
<1>4. CASE UNCHANGED vars
  BY <1>4 DEF vars, ListInv, TypeOK, NothingLost, ToSet
<1> QED
  BY <1>1, <1>2, <1>3, <1>4 DEF Next

(* The place addMessage remembers never dangles, whatever is removed in     *)
(* between (NetCommandList.cpp, removeMessage).                             *)
THEOREM LastInsertedValid == Spec => []TypeOK
<1>1. ListInv => TypeOK
  BY DEF ListInv
<1> QED
  BY <1>1, ListInit, ListStep, PTL DEF Spec

(* The comparison with one neighbour drops no message that is not in the    *)
(* list already (NetCommandList.cpp, addMessage).                           *)
THEOREM AddedStays == Spec => []NothingLost
<1>1. ListInv => NothingLost
  BY DEF ListInv
<1> QED
  BY <1>1, ListInit, ListStep, PTL DEF Spec

-----------------------------------------------------------------------------
(* The order of the list.  Commands are in it once; acks may be repeated.   *)

Below(a, b) ==
    \/ a.type < b.type
    \/ a.type = b.type /\ a.player < b.player
    \/ SameSection(a, b) /\ a.sort < b.sort

InOrder(a, b) ==
    \/ Below(a, b)
    \/ ~RequiresID(a) /\ SameSection(a, b) /\ a.sort = b.sort

Sorted ==
    \A i \in 1 .. Len(list) : \A j \in 1 .. Len(list) : i < j => InOrder(list[i], list[j])

OrderInv == ListInv /\ Sorted

LEMMA MessageTypes ==
    ASSUME NEW m \in Messages
    PROVE  /\ m.type \in Nat /\ m.player \in Nat /\ m.id \in Nat /\ m.sort \in Nat
           /\ RequiresID(m) <=> m.type > 2
           /\ RequiresID(m) => m.sort = m.id
           /\ ~RequiresID(m) => m.id = 0
BY MessagesAssumption DEF RequiresID, AckTypes

LEMMA InOrderTransitive ==
    ASSUME NEW a \in Messages, NEW b \in Messages, NEW c \in Messages,
           InOrder(a, b), InOrder(b, c)
    PROVE  InOrder(a, c)
BY MessageTypes DEF InOrder, Below, SameSection

LEMMA EitherInOrder ==
    ASSUME NEW a \in Messages, NEW b \in Messages, ~Below(a, b)
    PROVE  InOrder(b, a) \/ IsEqualCommandMsg(a, b)
<1>1. /\ a.type \in Nat /\ a.player \in Nat /\ a.sort \in Nat
      /\ b.type \in Nat /\ b.player \in Nat /\ b.sort \in Nat
  BY MessageTypes
<1>2. Below(b, a) \/ (SameSection(a, b) /\ a.sort = b.sort)
  BY <1>1 DEF Below, SameSection
<1>3. CASE SameSection(a, b) /\ a.sort = b.sort
  <2>1. RequiresID(a) <=> RequiresID(b)
    BY <1>3 DEF SameSection, RequiresID
  <2>2. CASE RequiresID(a)
    <3>1. a.id = b.id
      BY <1>3, <2>1, <2>2, MessageTypes
    <3> QED
      BY <1>3, <2>1, <2>2, <3>1 DEF IsEqualCommandMsg, SameSection
  <2>3. CASE ~RequiresID(a)
    BY <1>3, <2>1, <2>3 DEF InOrder, SameSection
  <2> QED
    BY <2>2, <2>3
<1> QED
  BY <1>2, <1>3 DEF InOrder

(* A place for m: nothing before it belongs behind m, and what is on it or  *)
(* behind does.                                                             *)
Fits(m, i) ==
    /\ \A k \in 1 .. i - 1 : InOrder(list[k], m)
    /\ \A k \in i .. Len(list) : InOrder(m, list[k])

(* It is enough to look at the two neighbours of the place. *)
LEMMA NeighboursEnough ==
    ASSUME list \in Seq(Messages), Sorted, NEW m \in Messages,
           NEW i \in 1 .. Len(list) + 1,
           i > 1 => InOrder(list[i - 1], m),
           i <= Len(list) => InOrder(m, list[i])
    PROVE  Fits(m, i)
<1>1. Len(list) \in Nat /\ \A k \in 1 .. Len(list) : list[k] \in Messages
  OBVIOUS
<1>2. ASSUME NEW k \in 1 .. i - 1 PROVE InOrder(list[k], m)
  <2>1. k \in 1 .. Len(list) /\ i - 1 \in 1 .. Len(list) /\ i > 1
    BY <1>1
  <2>2. CASE k = i - 1
    BY <2>1, <2>2
  <2>3. CASE k < i - 1
    <3>1. InOrder(list[k], list[i - 1])
      BY <2>1, <2>3 DEF Sorted
    <3> QED
      BY <1>1, <2>1, <3>1, InOrderTransitive
  <2> QED
    BY <1>1, <2>2, <2>3
<1>3. ASSUME NEW k \in i .. Len(list) PROVE InOrder(m, list[k])
  <2>1. k \in 1 .. Len(list) /\ i \in 1 .. Len(list) /\ i <= Len(list)
    BY <1>1
  <2>2. CASE k = i
    BY <2>1, <2>2
  <2>3. CASE i < k
    <3>1. InOrder(list[i], list[k])
      BY <2>1, <2>3 DEF Sorted
    <3> QED
      BY <1>1, <2>1, <3>1, InOrderTransitive
  <2> QED
    BY <1>1, <2>2, <2>3
<1> QED
  BY <1>2, <1>3 DEF Fits

(* The fast path finds such a place... *)
LEMMA FollowsLastFits ==
    ASSUME TypeOK, Sorted, NEW m \in Messages, FollowsLast(m)
    PROVE  Fits(m, lastMessageInserted + 1)
<1> DEFINE l == lastMessageInserted
<1>1. /\ list \in Seq(Messages) /\ Len(list) \in Nat
      /\ l \in 1 .. Len(list) /\ l + 1 \in 1 .. Len(list) + 1
      /\ \A k \in 1 .. Len(list) : list[k] \in Messages
  BY DEF TypeOK, FollowsLast
<1>2. list[l] \in Messages /\ SameSection(list[l], m) /\ list[l].id < m.id
  BY <1>1 DEF FollowsLast
<1>3. RequiresID(m) /\ Below(list[l], m)
  BY <1>2, MessageTypes DEF Below, SameSection
<1>4. ASSUME l + 1 <= Len(list) PROVE InOrder(m, list[l + 1])
  <2>1. /\ list[l + 1] \in Messages
        /\ \/ list[l + 1].type > m.type
           \/ list[l + 1].player > m.player
           \/ list[l + 1].id > m.id
    BY <1>1, <1>4 DEF FollowsLast
  <2>2. InOrder(list[l], list[l + 1])
    BY <1>1, <1>4 DEF Sorted
  <2> QED
    BY <1>2, <1>3, <2>1, <2>2, MessageTypes DEF InOrder, Below, SameSection
<1>5. InOrder(list[(l + 1) - 1], m)
  BY <1>1, <1>3 DEF InOrder
<1> QED
  BY <1>1, <1>4, <1>5, NeighboursEnough

(* ... and so does the slow one, unless it finds m itself. *)
LEMMA SearchFits ==
    ASSUME TypeOK, Sorted, NEW m \in Messages
    PROVE  \/ Fits(m, SearchPosition(m))
           \/ /\ SearchPosition(m) \in 1 .. Len(list)
              /\ IsEqualCommandMsg(list[SearchPosition(m)], m)
<1> DEFINE n == Len(list)
           pos == SearchPosition(m)
<1>1. /\ list \in Seq(Messages) /\ n \in Nat
      /\ \A k \in 1 .. n : list[k] \in Messages
  BY DEF TypeOK
<1>2. PICK i \in 1 .. n + 1 : \E j \in i .. n + 1 : SearchedFrom(m, i, j)
  BY <1>1, SearchStops
<1>3. PICK j \in i .. n + 1 : SearchedFrom(m, i, j)
  BY <1>2
<1>4. pos \in j .. n + 1 /\ pos \in 1 .. n + 1
  BY <1>1, <1>2, <1>3 DEF SearchedFrom
<1>5. ASSUME NEW k \in 1 .. pos - 1 PROVE InOrder(list[k], m)
  <2>1. k \in 1 .. n
    BY <1>1, <1>4
  <2>2. CASE k < i
    BY <1>3, <2>2 DEF SearchedFrom, InOrder, Below
  <2>3. CASE k >= i /\ k < j
    BY <1>3, <2>3 DEF SearchedFrom, InOrder, Below
  <2>4. CASE k >= j
    <3>1. SameSection(m, list[k]) /\ list[k].sort < m.sort
      <4>1. k \in j .. pos - 1
        BY <1>1, <1>2, <1>3, <1>4, <2>1, <2>4
      <4> QED
        BY <1>3, <4>1 DEF SearchedFrom
    <3> QED
      BY <3>1 DEF InOrder, Below, SameSection
  <2> QED
    BY <1>1, <1>2, <1>3, <2>1, <2>2, <2>3, <2>4
<1>6. ASSUME pos <= n PROVE ~Below(list[pos], m)
  <2> SUFFICES ASSUME Below(list[pos], m) PROVE FALSE
    OBVIOUS
  <2>1. pos \in 1 .. n /\ list[pos] \in Messages /\ j \in 1 .. n /\ i \in 1 .. n
    BY <1>1, <1>2, <1>3, <1>4, <1>6
  <2>2. /\ list[i] \in Messages /\ list[j] \in Messages
        /\ ~(list[i].type < m.type)
        /\ ~(list[j].type = m.type /\ list[j].player < m.player)
        /\ ~(SameSection(m, list[pos]) /\ list[pos].sort < m.sort)
    BY <1>1, <1>3, <1>6, <2>1 DEF SearchedFrom
  <2>3. i = j \/ InOrder(list[i], list[j])
    BY <1>3, <2>1 DEF Sorted
  <2>4. j = pos \/ InOrder(list[j], list[pos])
    BY <1>4, <2>1 DEF Sorted
  <2>5. list[i].type <= list[j].type /\ list[j].type <= list[pos].type
    BY <2>1, <2>2, <2>3, <2>4, MessageTypes DEF InOrder, Below, SameSection
  <2>6. list[pos].type = m.type /\ list[j].type = m.type
    <3>1. /\ m.type \in Nat /\ list[i].type \in Nat
          /\ list[j].type \in Nat /\ list[pos].type \in Nat
      BY <2>1, <2>2, MessageTypes
    <3>2. list[pos].type <= m.type
      BY <3>1 DEF Below, SameSection
    <3> QED
      BY <2>2, <2>5, <3>1, <3>2
  <2>7. list[j].player <= list[pos].player
    BY <2>1, <2>2, <2>4, <2>6, MessageTypes DEF InOrder, Below, SameSection
  <2> QED
    BY <2>1, <2>2, <2>6, <2>7, MessageTypes DEF Below, SameSection
<1> HIDE DEF pos
<1>7. CASE pos <= n => InOrder(m, list[pos])
  <2>1. pos > 1 => InOrder(list[pos - 1], m)
    BY <1>1, <1>4, <1>5
  <2> QED
    BY <1>1, <1>4, <1>7, <2>1, NeighboursEnough DEF pos
<1>8. CASE pos <= n /\ ~InOrder(m, list[pos])
  <2>1. pos \in 1 .. n /\ list[pos] \in Messages /\ ~Below(list[pos], m)
    BY <1>1, <1>4, <1>6, <1>8
  <2> QED
    BY <1>8, <2>1, EitherInOrder DEF pos
<1> QED
  BY <1>7, <1>8

LEMMA InsertPositionFits ==
    ASSUME TypeOK, Sorted, list # <<>>, NEW m \in Messages, ~AlreadyThere(m)
    PROVE  Fits(m, InsertPosition(m))
<1>1. /\ list \in Seq(Messages) /\ Len(list) \in Nat /\ Len(list) >= 1
      /\ \A k \in 1 .. Len(list) : list[k] \in Messages
      /\ Last(list) = list[Len(list)] /\ Head(list) = list[1]
  BY DEF TypeOK, Last
<1>2. CASE FollowsLast(m)
  BY <1>2, FollowsLastFits DEF InsertPosition
<1>3. CASE ~FollowsLast(m) /\ m.type > Last(list).type
  <2>1. InsertPosition(m) = Len(list) + 1
    BY <1>3 DEF InsertPosition
  <2>2. InOrder(list[Len(list)], m)
    BY <1>1, <1>3, MessageTypes DEF InOrder, Below
  <2>3. (Len(list) + 1) - 1 = Len(list) /\ Len(list) + 1 \in 1 .. Len(list) + 1
        /\ ~(Len(list) + 1 <= Len(list))
    BY <1>1
  <2> QED
    BY <1>1, <2>1, <2>2, <2>3, NeighboursEnough
<1>4. CASE /\ ~FollowsLast(m) /\ ~(m.type > Last(list).type)
           /\ m.type < Head(list).type
  <2>1. InsertPosition(m) = 1
    BY <1>4 DEF InsertPosition
  <2>2. InOrder(m, list[1])
    BY <1>1, <1>4 DEF InOrder, Below
  <2> QED
    BY <1>1, <2>1, <2>2, NeighboursEnough
<1>5. CASE /\ ~FollowsLast(m) /\ ~(m.type > Last(list).type)
           /\ ~(m.type < Head(list).type)
  <2>1. InsertPosition(m) = SearchPosition(m)
    BY <1>5 DEF InsertPosition
  <2>2. ASSUME SearchPosition(m) \in 1 .. Len(list),
               IsEqualCommandMsg(list[SearchPosition(m)], m)
        PROVE  FALSE
    <3>1. Neighbour(m) = SearchPosition(m)
      BY <1>1, <1>5, <2>1, <2>2 DEF Neighbour
    <3> QED
      BY <2>2, <3>1 DEF AlreadyThere
  <2> QED
    BY <2>1, <2>2, SearchFits
<1> QED
  BY <1>2, <1>3, <1>4, <1>5

LEMMA AddKeepsOrder ==
    ASSUME OrderInv, NEW m \in Messages, AddMessage(m)
    PROVE  Sorted'
<1>1. /\ TypeOK /\ Sorted /\ list \in Seq(Messages) /\ Len(list) \in Nat
      /\ \A k \in 1 .. Len(list) : list[k] \in Messages
  BY DEF OrderInv, ListInv, TypeOK
<1>2. CASE AlreadyThere(m)
  BY <1>1, <1>2 DEF AddMessage, Sorted
<1>3. CASE ~AlreadyThere(m)
  <2> DEFINE i == IF list = <<>> THEN 1 ELSE InsertPosition(m)
             n == Len(list)
  <2>1. list' = InsertAt(list, i, m)
    BY <1>3 DEF AddMessage
  <2>2. i \in 1 .. n + 1
    BY <1>1, InsertPositionFacts
  <2>3. Fits(m, i)
    <3>1. CASE list = <<>>
      BY <3>1 DEF Fits
    <3>2. CASE list # <<>>
      BY <1>1, <1>3, <3>2, InsertPositionFits
    <3> QED
      BY <3>1, <3>2
  <2> HIDE DEF i
  <2>4. /\ Len(list') = n + 1 /\ list'[i] = m
        /\ \A k \in 1 .. i - 1 : list'[k] = list[k]
        /\ \A k \in i .. n : list'[k + 1] = list[k]
    BY <1>1, <2>1, <2>2, InsertFacts
  <2>5. ASSUME NEW k \in 1 .. n + 1
        PROVE  \/ k \in 1 .. i - 1 /\ list'[k] = list[k]
               \/ k = i /\ list'[k] = m
               \/ k - 1 \in i .. n /\ list'[k] = list[k - 1]
    <3>1. CASE k > i
      <4>1. k - 1 \in i .. n /\ (k - 1) + 1 = k
        BY <1>1, <2>2, <3>1
      <4> QED
        BY <2>4, <4>1
    <3> QED
      BY <1>1, <2>2, <2>4, <3>1
  <2>6. ASSUME NEW k \in 1 .. n + 1, NEW l \in 1 .. n + 1, k < l
        PROVE  InOrder(list'[k], list'[l])
    <3>1. CASE k \in 1 .. i - 1 /\ list'[k] = list[k]
      <4>1. CASE l \in 1 .. i - 1 /\ list'[l] = list[l]
        BY <1>1, <2>2, <2>6, <3>1, <4>1 DEF Sorted
      <4>2. CASE l = i /\ list'[l] = m
        BY <2>3, <3>1, <4>2 DEF Fits
      <4>3. CASE l - 1 \in i .. n /\ list'[l] = list[l - 1]
        <5>1. k \in 1 .. n /\ l - 1 \in 1 .. n /\ k < l - 1
          BY <1>1, <2>2, <3>1, <4>3
        <5> QED
          BY <1>1, <3>1, <4>3, <5>1 DEF Sorted
      <4> QED
        BY <2>5, <4>1, <4>2, <4>3
    <3>2. CASE k = i /\ list'[k] = m
      <4>1. l - 1 \in i .. n /\ list'[l] = list[l - 1]
        BY <1>1, <2>2, <2>5, <2>6, <3>2
      <4> QED
        BY <2>3, <3>2, <4>1 DEF Fits
    <3>3. CASE k - 1 \in i .. n /\ list'[k] = list[k - 1]
      <4>1. l - 1 \in i .. n /\ list'[l] = list[l - 1]
        BY <1>1, <2>2, <2>5, <2>6, <3>3
      <4>2. k - 1 \in 1 .. n /\ l - 1 \in 1 .. n /\ k - 1 < l - 1
        BY <1>1, <2>2, <2>6, <3>3, <4>1
      <4> QED
        BY <1>1, <3>3, <4>1, <4>2 DEF Sorted
    <3> QED
      BY <2>5, <3>1, <3>2, <3>3
  <2> QED
    BY <2>4, <2>6 DEF Sorted
<1> QED
  BY <1>2, <1>3

LEMMA RemoveKeepsOrder ==
    ASSUME OrderInv, NEW i \in 1 .. Len(list), RemoveMessage(i)
    PROVE  Sorted'
<1> DEFINE n == Len(list)
<1>1. Sorted /\ list \in Seq(Messages) /\ n \in Nat /\ list' = RemoveAt(list, i)
  BY DEF OrderInv, ListInv, TypeOK, RemoveMessage
<1>2. /\ Len(list') = n - 1
      /\ \A k \in 1 .. i - 1 : list'[k] = list[k]
      /\ \A k \in i .. n - 1 : list'[k] = list[k + 1]
  BY <1>1, RemoveFacts
<1>3. ASSUME NEW k \in 1 .. n - 1, NEW l \in 1 .. n - 1, k < l
      PROVE  InOrder(list'[k], list'[l])
  <2>1. /\ k \in 1 .. n /\ k + 1 \in 1 .. n /\ l \in 1 .. n /\ l + 1 \in 1 .. n
        /\ k < l + 1 /\ k + 1 < l + 1
    BY <1>1, <1>3
  <2>2. (k \in 1 .. i - 1 \/ k \in i .. n - 1) /\ (l \in 1 .. i - 1 \/ l \in i .. n - 1)
    BY <1>1
  <2>3. CASE k \in i .. n - 1
    <3>1. l \in i .. n - 1
      BY <1>1, <1>3, <2>3
    <3> QED
      BY <1>1, <1>2, <2>1, <2>3, <3>1 DEF Sorted
  <2>4. CASE k \in 1 .. i - 1
    BY <1>1, <1>2, <1>3, <2>1, <2>2, <2>4 DEF Sorted
  <2> QED
    BY <2>2, <2>3, <2>4
<1> QED
  BY <1>2, <1>3 DEF Sorted

LEMMA OrderInvariant == Spec => []OrderInv
<1>1. Init => OrderInv
  BY ListInit DEF Init, OrderInv, Sorted
<1>2. OrderInv /\ [Next]_vars => OrderInv'
  <2> SUFFICES ASSUME OrderInv, [Next]_vars PROVE OrderInv'
    OBVIOUS
  <2>1. ListInv'
    BY ListStep DEF OrderInv
  <2>2. ASSUME NEW m \in Messages, AddMessage(m) PROVE Sorted'
    BY <2>2, AddKeepsOrder
  <2>3. ASSUME NEW i \in 1 .. Len(list), RemoveMessage(i) PROVE Sorted'
    BY <2>3, RemoveKeepsOrder
  <2>4. CASE Reset
    BY <2>1, <2>4 DEF Reset, Sorted, OrderInv
  <2>5. CASE UNCHANGED vars
    BY <2>1, <2>5 DEF vars, OrderInv, Sorted
  <2> QED
    BY <2>1, <2>2, <2>3, <2>4, <2>5 DEF Next, OrderInv
<1> QED
  BY <1>1, <1>2, PTL DEF Spec

-----------------------------------------------------------------------------
(* The commands with an ID are the end of the list, and an ordered set.     *)

IsCommandOf(l, c) == \E k \in 1 .. Len(l) : l[k] = c /\ RequiresID(c)

EndIsOrdered ==
    LET q == CommandsWithID
    IN  /\ q \in Seq(Messages)
        /\ \A c : (\E k \in 1 .. Len(q) : q[k] = c) <=> IsCommandOf(list, c)
        /\ \A k \in 1 .. Len(q) - 1 : Ordered!Before(q[k], q[k + 1])

LEMMA EndOrdered == OrderInv => EndIsOrdered
<1> SUFFICES ASSUME OrderInv PROVE EndIsOrdered
  OBVIOUS
<1> DEFINE n == Len(list)
           f == FirstWithID
           q == CommandsWithID
<1>1. /\ Sorted /\ list \in Seq(Messages) /\ n \in Nat
      /\ \A k \in 1 .. n : list[k] \in Messages
  BY DEF OrderInv, ListInv, TypeOK
<1>2. /\ f \in 1 .. n + 1
      /\ \A k \in 1 .. f - 1 : ~RequiresID(list[k])
      /\ f <= n => RequiresID(list[f])
  <2> DEFINE T == {k \in 1 .. n : ~RequiresID(list[k])}
  <2>1. T \in SUBSET (1 .. n) /\ 1 \in 1 .. n + 1
    BY <1>1
  <2> HIDE DEF T
  <2>2. \E j \in 1 .. n + 1 : /\ \A k \in 1 .. j - 1 : k \in T
                              /\ j <= n => j \notin T
    BY <1>1, <2>1, FirstFrom
  <2> USE DEF T
  <2>3. \E j \in 1 .. n + 1 : /\ \A k \in 1 .. j - 1 : ~RequiresID(list[k])
                              /\ j <= n => ~~RequiresID(list[j])
    BY <1>1, <2>2
  <2> HIDE DEF T
  <2>4. /\ f \in 1 .. n + 1
        /\ \A k \in 1 .. f - 1 : ~RequiresID(list[k])
        /\ f <= n => ~~RequiresID(list[f])
    BY <2>3, Zenon DEF FirstWithID, SkipWhile
  <2> QED
    BY <2>4
<1>3. ASSUME NEW k \in f .. n PROVE RequiresID(list[k])
  <2>1. f \in 1 .. n /\ k \in 1 .. n /\ RequiresID(list[f])
    BY <1>1, <1>2
  <2>2. f = k \/ InOrder(list[f], list[k])
    BY <1>1, <2>1 DEF Sorted
  <2> QED
    BY <1>1, <2>1, <2>2, MessageTypes DEF InOrder, Below, SameSection
<1>4. q = SubSeq(list, f, n)
  BY DEF CommandsWithID
<1> HIDE DEF q, f
<1>5. /\ q \in Seq(Messages) /\ Len(q) = n - f + 1
      /\ \A k \in 1 .. n - f + 1 : q[k] = list[f + k - 1]
  BY <1>1, <1>2, <1>4
<1>6. ASSUME NEW c PROVE (\E k \in 1 .. Len(q) : q[k] = c) <=> IsCommandOf(list, c)
  <2>1. ASSUME NEW k \in 1 .. Len(q), q[k] = c PROVE IsCommandOf(list, c)
    <3>1. f + k - 1 \in f .. n /\ f + k - 1 \in 1 .. n /\ list[f + k - 1] = c
      BY <1>1, <1>2, <1>5, <2>1
    <3> QED
      BY <1>3, <3>1 DEF IsCommandOf
  <2>2. ASSUME NEW k \in 1 .. n, list[k] = c, RequiresID(c)
        PROVE  \E l \in 1 .. Len(q) : q[l] = c
    <3>1. ~(k \in 1 .. f - 1)
      BY <1>2, <2>2
    <3>2. k - f + 1 \in 1 .. n - f + 1 /\ f + (k - f + 1) - 1 = k
      BY <1>1, <1>2, <3>1
    <3>3. q[k - f + 1] = c
      BY <1>5, <2>2, <3>2
    <3> QED
      BY <1>5, <3>2, <3>3
  <2> QED
    BY <2>1, <2>2 DEF IsCommandOf
<1>7. ASSUME NEW k \in 1 .. Len(q) - 1 PROVE Ordered!Before(q[k], q[k + 1])
  <2> DEFINE i == f + k - 1
  <2>1. /\ i \in 1 .. n /\ i + 1 \in 1 .. n /\ i < i + 1
        /\ i \in f .. n /\ i + 1 \in f .. n
        /\ k \in 1 .. n - f + 1 /\ k + 1 \in 1 .. n - f + 1 /\ f + (k + 1) - 1 = i + 1
    <3>1. n \in Nat /\ f \in 1 .. n + 1 /\ k \in 1 .. (n - f + 1) - 1
      BY <1>1, <1>2, <1>5
    <3> HIDE DEF n
    <3> QED
      BY <3>1
  <2>2. q[k] = list[i] /\ q[k + 1] = list[i + 1]
    BY <1>5, <2>1
  <2> HIDE DEF i
  <2>3. /\ list[i] \in Messages /\ list[i + 1] \in Messages
        /\ RequiresID(list[i]) /\ RequiresID(list[i + 1])
        /\ InOrder(list[i], list[i + 1])
    BY <1>1, <1>3, <2>1 DEF Sorted
  <2>4. Below(list[i], list[i + 1])
    BY <2>3 DEF InOrder
  <2>5. list[i].sort = list[i].id /\ list[i + 1].sort = list[i + 1].id
    BY <2>3, MessageTypes
  <2> QED
    BY <2>2, <2>4, <2>5 DEF Below, SameSection, Ordered!Before
<1> QED
  BY <1>5, <1>6, <1>7 DEF EndIsOrdered, q

(* What a step that leads to the commands of S looks like from above. *)
LEMMA Puts ==
    ASSUME EndIsOrdered, EndIsOrdered', NEW c,
           \A d : IsCommandOf(list, d)' <=> (IsCommandOf(list, d) \/ d = c)
    PROVE  Ordered!Put(c)
<1> DEFINE q == CommandsWithID
<1>1. /\ q \in Seq(Messages)
      /\ \A d : (\E k \in 1 .. Len(q) : q[k] = d) <=> IsCommandOf(list, d)
  BY DEF EndIsOrdered
<1>2. /\ q' \in Seq(Messages)
      /\ \A d : (\E k \in 1 .. Len(q') : q'[k] = d) <=> IsCommandOf(list, d)'
      /\ \A k \in 1 .. Len(q') - 1 : Ordered!Before(q'[k], q'[k + 1])
  BY DEF EndIsOrdered
<1> HIDE DEF q
<1>3. DOMAIN q = 1 .. Len(q) /\ DOMAIN q' = 1 .. Len(q')
  BY <1>1, <1>2
<1>4. Ordered!ToSet(q') = Ordered!ToSet(q) \cup {c}
  BY <1>1, <1>2, <1>3 DEF Ordered!ToSet
<1> QED
  BY <1>2, <1>4 DEF Ordered!Put, Ordered!IsOrdering, q

LEMMA Takes ==
    ASSUME EndIsOrdered, EndIsOrdered', NEW c,
           \A d : IsCommandOf(list, d)' <=> (IsCommandOf(list, d) /\ d # c)
    PROVE  Ordered!Take(c)
<1> DEFINE q == CommandsWithID
<1>1. /\ q \in Seq(Messages)
      /\ \A d : (\E k \in 1 .. Len(q) : q[k] = d) <=> IsCommandOf(list, d)
  BY DEF EndIsOrdered
<1>2. /\ q' \in Seq(Messages)
      /\ \A d : (\E k \in 1 .. Len(q') : q'[k] = d) <=> IsCommandOf(list, d)'
      /\ \A k \in 1 .. Len(q') - 1 : Ordered!Before(q'[k], q'[k + 1])
  BY DEF EndIsOrdered
<1> HIDE DEF q
<1>3. DOMAIN q = 1 .. Len(q) /\ DOMAIN q' = 1 .. Len(q')
  BY <1>1, <1>2
<1>4. Ordered!ToSet(q') = Ordered!ToSet(q) \ {c}
  BY <1>1, <1>2, <1>3 DEF Ordered!ToSet
<1> QED
  BY <1>2, <1>4 DEF Ordered!Take, Ordered!IsOrdering, q

LEMMA OrderedStep ==
    OrderInv /\ OrderInv' /\ EndIsOrdered /\ EndIsOrdered' /\ [Next]_vars
      => [Ordered!Next]_CommandsWithID
<1> SUFFICES ASSUME OrderInv, OrderInv', EndIsOrdered, EndIsOrdered', [Next]_vars
             PROVE  [Ordered!Next]_CommandsWithID
  OBVIOUS
<1>1. /\ TypeOK /\ Sorted /\ Sorted' /\ list \in Seq(Messages) /\ Len(list) \in Nat
      /\ \A k \in 1 .. Len(list) : list[k] \in Messages
  BY DEF OrderInv, ListInv, TypeOK
(* An ack, or a command that is there: nothing changes for the commands.    *)
<1>2. ASSUME \A d : IsCommandOf(list, d)' <=> IsCommandOf(list, d)
      PROVE  [Ordered!Next]_CommandsWithID
  <2>1. CASE \E c : IsCommandOf(list, c)
    <3>1. PICK c : IsCommandOf(list, c)
      BY <2>1
    <3>2. Ordered!Put(c)
      BY <1>2, <3>1, Puts
    <3>3. c \in {m \in Messages : RequiresID(m)}
      BY <1>1, <3>1 DEF IsCommandOf
    <3> QED
      BY <3>2, <3>3 DEF Ordered!Next
  <2>2. CASE ~\E c : IsCommandOf(list, c)
    <3> DEFINE q == CommandsWithID
    <3>1. q' \in Seq(Messages) /\ ~\E c : \E k \in 1 .. Len(q') : q'[k] = c
      BY <1>2, <2>2 DEF EndIsOrdered
    <3> HIDE DEF q
    <3>2. q' = <<>>
      BY <3>1
    <3> QED
      BY <3>2 DEF Ordered!Next, Ordered!Clear, q
  <2> QED
    BY <2>1, <2>2
<1>3. ASSUME NEW m \in Messages, AddMessage(m) PROVE [Ordered!Next]_CommandsWithID
  <2>1. CASE AlreadyThere(m)
    <3>1. list' = list
      BY <1>3, <2>1 DEF AddMessage
    <3> QED
      BY <1>2, <3>1 DEF IsCommandOf
  <2>2. CASE ~AlreadyThere(m)
    <3> DEFINE i == IF list = <<>> THEN 1 ELSE InsertPosition(m)
               n == Len(list)
    <3>1. list' = InsertAt(list, i, m) /\ i \in 1 .. n + 1
      BY <1>1, <1>3, <2>2, InsertPositionFacts DEF AddMessage
    <3> HIDE DEF i
    <3>2. /\ Len(list') = n + 1 /\ list'[i] = m
          /\ \A k \in 1 .. i - 1 : list'[k] = list[k]
          /\ \A k \in i .. n : list'[k + 1] = list[k]
      BY <1>1, <3>1, InsertFacts
    <3>3. ASSUME NEW d
          PROVE  (\E k \in 1 .. n + 1 : list'[k] = d) <=> (\E k \in 1 .. n : list[k] = d) \/ d = m
      <4>1. ASSUME NEW k \in 1 .. n + 1, list'[k] = d, d # m
            PROVE  \E l \in 1 .. n : list[l] = d
        <5>1. CASE k < i
          BY <1>1, <3>1, <3>2, <4>1, <5>1
        <5>2. CASE k > i
          <6>1. k - 1 \in i .. n /\ k - 1 \in 1 .. n /\ (k - 1) + 1 = k
            BY <1>1, <3>1, <5>2
          <6> QED
            BY <3>2, <4>1, <6>1
        <5> QED
          BY <1>1, <3>1, <3>2, <4>1, <5>1, <5>2
      <4>2. ASSUME NEW k \in 1 .. n, list[k] = d
            PROVE  \E l \in 1 .. n + 1 : list'[l] = d
        <5>1. k \in 1 .. i - 1 \/ k \in i .. n
          BY <1>1, <3>1
        <5>2. k \in 1 .. n + 1 /\ k + 1 \in 1 .. n + 1
          BY <1>1
        <5> QED
          BY <3>2, <4>2, <5>1, <5>2
      <4> QED
        BY <3>1, <3>2, <4>1, <4>2
    <3>4. \A d : IsCommandOf(list, d)' <=> (IsCommandOf(list, d) \/ (d = m /\ RequiresID(d)))
      BY <3>2, <3>3 DEF IsCommandOf
    <3>5. CASE RequiresID(m)
      BY <3>4, <3>5, Puts DEF Ordered!Next
    <3>6. CASE ~RequiresID(m)
      BY <1>2, <3>4, <3>6
    <3> QED
      BY <3>5, <3>6
  <2> QED
    BY <2>1, <2>2
<1>4. ASSUME NEW i \in 1 .. Len(list), RemoveMessage(i)
      PROVE  [Ordered!Next]_CommandsWithID
  <2> DEFINE n == Len(list)
             m == list[i]
  <2>1. /\ Len(list') = n - 1 /\ m \in Messages
        /\ \A k \in 1 .. i - 1 : list'[k] = list[k]
        /\ \A k \in i .. n - 1 : list'[k] = list[k + 1]
    BY <1>1, <1>4, RemoveFacts DEF RemoveMessage
  <2>2. ASSUME NEW d
        PROVE  (\E k \in 1 .. n - 1 : list'[k] = d) <=> (\E k \in 1 .. n : k # i /\ list[k] = d)
    <3>1. ASSUME NEW k \in 1 .. n - 1, list'[k] = d
          PROVE  \E l \in 1 .. n : l # i /\ list[l] = d
      <4>1. /\ k \in 1 .. n /\ k + 1 \in 1 .. n
            /\ (k \in 1 .. i - 1 /\ k # i) \/ (k \in i .. n - 1 /\ k + 1 # i)
        BY <1>1
      <4> QED
        BY <2>1, <3>1, <4>1
    <3>2. ASSUME NEW k \in 1 .. n, k # i, list[k] = d
          PROVE  \E l \in 1 .. n - 1 : list'[l] = d
      <4>1. CASE k < i
        BY <1>1, <2>1, <3>2, <4>1
      <4>2. CASE k > i
        <5>1. k - 1 \in i .. n - 1 /\ k - 1 \in 1 .. n - 1 /\ (k - 1) + 1 = k
          BY <1>1, <4>2
        <5> QED
          BY <2>1, <3>2, <5>1
      <4> QED
        BY <1>1, <3>2, <4>1, <4>2
    <3> QED
      BY <3>1, <3>2
  <2>3. CASE RequiresID(m)
    <3>1. ASSUME NEW k \in 1 .. n, k # i PROVE list[k] # m
      <4>1. InOrder(list[k], m) \/ InOrder(m, list[k])
        BY <1>1, <3>1 DEF Sorted
      <4> QED
        BY <1>1, <2>1, <2>3, <4>1, MessageTypes DEF InOrder, Below, SameSection
    <3>2. \A d : IsCommandOf(list, d)' <=> (IsCommandOf(list, d) /\ d # m)
      BY <2>1, <2>2, <2>3, <3>1 DEF IsCommandOf
    <3> QED
      BY <2>1, <2>3, <3>2, Takes DEF Ordered!Next
  <2>4. CASE ~RequiresID(m)
    <3>1. \A d : IsCommandOf(list, d)' <=> IsCommandOf(list, d)
      BY <2>1, <2>2, <2>4 DEF IsCommandOf
    <3> QED
      BY <1>2, <3>1
  <2> QED
    BY <2>3, <2>4
<1>5. CASE Reset
  <2> DEFINE q == CommandsWithID
  <2>1. q' \in Seq(Messages) /\ ~\E c : \E k \in 1 .. Len(q') : q'[k] = c
    <3>1. list' = <<>> /\ Len(<<>>) = 0
      BY <1>5 DEF Reset
    <3>2. \A c : ~IsCommandOf(list, c)'
      BY <3>1 DEF IsCommandOf
    <3> QED
      BY <3>2 DEF EndIsOrdered
  <2> HIDE DEF q
  <2>2. q' = <<>>
    BY <2>1
  <2> QED
    BY <2>2 DEF Ordered!Next, Ordered!Clear, q
<1>6. CASE UNCHANGED vars
  BY <1>2, <1>6 DEF vars, IsCommandOf
<1> QED
  BY <1>3, <1>4, <1>5, <1>6 DEF Next

(* Whatever is added, removed and repeated, and in whatever order, the      *)
(* commands in the list are an ordered set (NetCommandList.cpp, addMessage  *)
(* and removeMessage): every player runs those of a frame in one order.     *)
THEOREM OrderIsCanonicalAlways == Spec => OrderIsCanonical
<1>1. Init => Ordered!Init
  <2> SUFFICES ASSUME Init PROVE Ordered!Init
    OBVIOUS
  <2>1. OrderInv
    BY ListInit DEF Init, OrderInv, Sorted
  <2> DEFINE q == CommandsWithID
  <2>2. q \in Seq(Messages) /\ ~\E c : \E k \in 1 .. Len(q) : q[k] = c
    BY <2>1, EndOrdered DEF Init, EndIsOrdered, IsCommandOf
  <2> HIDE DEF q
  <2>3. q = <<>>
    BY <2>2
  <2> QED
    BY <2>3 DEF Ordered!Init, q
<1>2. Spec => [](OrderInv /\ EndIsOrdered)
  BY OrderInvariant, EndOrdered, PTL
<1> QED
  BY <1>1, <1>2, OrderedStep, PTL DEF Spec, OrderIsCanonical, Ordered!Spec

=============================================================================
