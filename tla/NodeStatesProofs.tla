-------------------------- MODULE NodeStatesProofs --------------------------
(***************************************************************************)
(* Every edit of the graph keeps the tables, the indexes, the ports and    *)
(* the edges in agreement, whatever the paths, the types and the limits,   *)
(* and marks the nodes whose feeds it changes.  First the invariant, as    *)
(* predicates of the record of NodeStates, and the methods that change one *)
(* slot table: they keep it, with the owners read off the table again and  *)
(* the edges following their slots.  Then the methods that change edges,   *)
(* nodes and orders, and the edits made of them.                           *)
(***************************************************************************)
EXTENDS NodeStates, VecProofs

(* r is q with x put in at position i.                                     *)
InsertedInto(r, q, i, x) ==
  \A k \in 1..(Len(q) + 1) : r[k] = IF k < i THEN q[k] ELSE IF k = i THEN x ELSE q[k - 1]

LEMMA InsertAtIsInsertion ==
  ASSUME NEW S, NEW q \in Seq(S), NEW i \in 1..(Len(q) + 1), NEW x \in S
  PROVE  /\ InsertAt(q, i, x) \in Seq(S)
         /\ Len(InsertAt(q, i, x)) = Len(q) + 1
         /\ DOMAIN InsertAt(q, i, x) = 1..(Len(q) + 1)
         /\ InsertedInto(InsertAt(q, i, x), q, i, x)
<1> DEFINE a == SubSeq(q, 1, i - 1)
           b == SubSeq(q, i, Len(q))
<1>1. a \in Seq(S) /\ Len(a) = i - 1 /\ \A k \in 1..(i - 1) : a[k] = q[k]
  OBVIOUS
<1>2. b \in Seq(S) /\ Len(b) = Len(q) + 1 - i /\ \A k \in 1..(Len(q) + 1 - i) : b[k] = q[k + i - 1]
  OBVIOUS
<1>3. InsertAt(q, i, x) = (a \o <<x>>) \o b
  BY DEF InsertAt
<1> HIDE DEF a, b
<1> DEFINE c == a \o <<x>>
<1>4. c \in Seq(S) /\ Len(c) = i /\ \A k \in 1..i : c[k] = IF k < i THEN q[k] ELSE x
  BY <1>1
<1> HIDE DEF c
<1>5. InsertAt(q, i, x) = c \o b
  BY <1>3 DEF c
<1> DEFINE n == Len(q)
<1>6. n \in Nat /\ i \in Nat /\ i >= 1 /\ i <= n + 1
  OBVIOUS
<1> HIDE DEF n
<1>7. /\ c \o b \in Seq(S) /\ Len(c \o b) = n + 1
      /\ \A k \in 1..(n + 1) : (c \o b)[k] = IF k <= i THEN c[k] ELSE b[k - i]
  BY <1>2, <1>4, <1>6 DEF n
<1>8. \A k \in 1..(n + 1) : (c \o b)[k] = IF k < i THEN q[k] ELSE IF k = i THEN x ELSE q[k - 1]
  BY <1>2, <1>4, <1>6, <1>7 DEF n
<1>9. InsertedInto(c \o b, q, i, x)
  BY <1>8 DEF InsertedInto, n
<1> QED
  BY <1>5, <1>7, <1>9 DEF n

LEMMA InsertAtFacts ==
  ASSUME NEW S, NEW q \in Seq(S), NEW i \in 1..(Len(q) + 1), NEW x \in S
  PROVE  /\ InsertAt(q, i, x) \in Seq(S)
         /\ Len(InsertAt(q, i, x)) = Len(q) + 1
         /\ DOMAIN InsertAt(q, i, x) = 1..(Len(q) + 1)
         /\ \A k \in 1..(Len(q) + 1) :
              InsertAt(q, i, x)[k] = IF k < i THEN q[k] ELSE IF k = i THEN x ELSE q[k - 1]
<1> DEFINE r == InsertAt(q, i, x)
<1>1. r \in Seq(S) /\ Len(r) = Len(q) + 1 /\ DOMAIN r = 1..(Len(q) + 1) /\ InsertedInto(r, q, i, x)
  BY InsertAtIsInsertion
<1> HIDE DEF r
<1> QED
  BY <1>1 DEF InsertedInto, r

LEMMA RemoveAtFacts ==
  ASSUME NEW S, NEW q \in Seq(S), NEW i \in 1..Len(q)
  PROVE  /\ RemoveAt(q, i) \in Seq(S)
         /\ Len(RemoveAt(q, i)) = Len(q) - 1
         /\ DOMAIN RemoveAt(q, i) = 1..(Len(q) - 1)
         /\ \A k \in 1..(Len(q) - 1) : RemoveAt(q, i)[k] = IF k < i THEN q[k] ELSE q[k + 1]
<1> DEFINE a == SubSeq(q, 1, i - 1)
           b == SubSeq(q, i + 1, Len(q))
<1>1. a \in Seq(S) /\ Len(a) = i - 1 /\ \A k \in 1..(i - 1) : a[k] = q[k]
  OBVIOUS
<1>2. b \in Seq(S) /\ Len(b) = Len(q) - i /\ \A k \in 1..(Len(q) - i) : b[k] = q[k + i]
  OBVIOUS
<1>3. RemoveAt(q, i) = a \o b
  BY DEF RemoveAt
<1> HIDE DEF a, b
<1> DEFINE n == Len(q)
<1>4. n \in Nat /\ i \in Nat /\ i >= 1 /\ i <= n
  OBVIOUS
<1> HIDE DEF n
<1>5. /\ a \o b \in Seq(S) /\ Len(a \o b) = n - 1
      /\ \A k \in 1..(n - 1) : (a \o b)[k] = IF k <= i - 1 THEN a[k] ELSE b[k - (i - 1)]
  <2>1. /\ a \o b \in Seq(S) /\ Len(a \o b) = Len(a) + Len(b)
        /\ \A k \in 1..(Len(a) + Len(b)) : (a \o b)[k] = IF k <= Len(a) THEN a[k] ELSE b[k - Len(a)]
    <3>1. a \in Seq(S) /\ b \in Seq(S)
      BY <1>1, <1>2
    <3> QED
      BY <3>1
  <2>2. Len(a) = i - 1 /\ Len(a) + Len(b) = n - 1
    BY <1>1, <1>2, <1>4 DEF n
  <2> QED
    BY <2>1, <2>2
<1>6. \A k \in 1..(n - 1) : (a \o b)[k] = IF k < i THEN q[k] ELSE q[k + 1]
  <2> SUFFICES ASSUME NEW k \in 1..(n - 1)
               PROVE  (a \o b)[k] = IF k < i THEN q[k] ELSE q[k + 1]
    OBVIOUS
  <2>1. CASE k < i
    BY <1>1, <1>4, <1>5, <2>1
  <2>2. CASE ~ (k < i)
    <3>1. k - (i - 1) \in 1..(n - i) /\ (k - (i - 1)) + i = k + 1
      BY <1>4, <2>2
    <3>2. b[k - (i - 1)] = q[k + 1]
      BY <1>2, <3>1 DEF n
    <3> QED
      BY <1>4, <1>5, <2>2, <3>2
  <2> QED
    BY <2>1, <2>2
<1> QED
  BY <1>3, <1>5, <1>6 DEF n

-----------------------------------------------------------------------------
(* The invariant, as a predicate of a record: the methods of NodeStates    *)
(* keep it, one after the other, within an action.                         *)

(* q holds every element of D, once.                                       *)
Once(q, D) ==
  /\ \A k \in DOMAIN q : q[k] \in D
  /\ \A e \in D : \E k \in DOMAIN q : q[k] = e
  /\ \A k, l \in DOMAIN q : q[k] = q[l] => k = l

Filed(s) ==
  \A d \in Side :
    /\ \A i \in SlotId : Once(s.conn[d][i], {e \in EdgesOf(s) : s.edges[e][d].slot = i})
    /\ \A p \in Path : Once(s.touching[d][p], {e \in EdgesOf(s) : s.edges[e][d].node = p})

Owned(s) ==
  \A d \in Side :
    /\ \A i \in SlotId : s.owner[d][i] # None =>
         \E p \in Path : \E k \in DOMAIN s.slots[d][p] :
           s.owner[d][i] = <<p, k>> /\ s.slots[d][p][k].id = i
    /\ \A p \in Path : \A k \in DOMAIN s.slots[d][p] :
         /\ s.slots[d][p][k].id \in Ids[p]
         /\ s.owner[d][s.slots[d][p][k].id] = <<p, k>>

(* Every end of an edge is a slot of a live node, and not of a SubGraph.   *)
Resolves(s, d, x) ==
  /\ x.node \in s.nodes /\ x.node \notin SubGraph
  /\ x.index \in DOMAIN s.slots[d][x.node]
  /\ s.slots[d][x.node][x.index].id = x.slot

Attached(s) == \A e \in EdgesOf(s) : \A d \in Side : Resolves(s, d, s.edges[e][d])

SlotAt(s, d, e) == s.slots[d][s.edges[e][d].node][s.edges[e][d].index]

SameTypes(s) == \A e \in EdgesOf(s) : SlotAt(s, "in", e).type = SlotAt(s, "out", e).type

Limited(s) ==
  \A p \in Path : \A k \in DOMAIN s.slots["in"][p] :
    LET slot == s.slots["in"][p][k]
    IN  slot.max # None => Len(s.conn["in"][slot.id]) <= slot.max

Sound(s) ==
  /\ s \in States
  /\ Filed(s) /\ Owned(s) /\ Attached(s) /\ SameTypes(s) /\ Limited(s)

-----------------------------------------------------------------------------
(* A change of one slot table.                                             *)

(* From s to t the table of p on side d changes, and what restates it      *)
(* follows: slots keep what they are and new ones have ids that nothing    *)
(* uses, the owners are those of the new table, and an edge follows the    *)
(* slot it is filed under.                                                 *)
OneTable(s, t, d, p) ==
  /\ t \in States
  /\ t.nodes = s.nodes /\ t.conn = s.conn /\ t.touching = s.touching
  /\ t.changed = s.changed
  /\ \A c \in Side : \A a \in Path : c # d \/ a # p => t.slots[c][a] = s.slots[c][a]
  /\ \A c \in Side : c # d => t.owner[c] = s.owner[c]

SlotsFollow(s, t, d, p) ==
  LET q == s.slots[d][p]
      r == t.slots[d][p]
  IN  /\ \A k \in DOMAIN r : t.owner[d][r[k].id] = <<p, k>>
      /\ \A i \in SlotId : (\A k \in DOMAIN r : r[k].id # i) =>
           t.owner[d][i] = IF \E k \in DOMAIN q : q[k].id = i THEN None ELSE s.owner[d][i]
      /\ \A k \in DOMAIN r : \/ \E j \in DOMAIN q : r[k] = q[j]
                             \/ r[k].id \in Ids[p] /\ s.conn[d][r[k].id] = <<>>

EdgesFollow(s, t, d, p) ==
  LET q == s.slots[d][p]
      r == t.slots[d][p]
  IN  /\ EdgesOf(t) = EdgesOf(s)
      /\ \A e \in EdgesOf(s) : \A c \in Side :
           LET x == s.edges[e][c]
               y == t.edges[e][c]
           IN  /\ y.node = x.node /\ y.slot = x.slot
               /\ c # d \/ x.node # p => y.index = x.index
               /\ c = d /\ x.node = p => y.index \in DOMAIN r /\ r[y.index] = q[x.index]

LEMMA TableChange ==
  ASSUME NEW s, NEW t, NEW d \in Side, NEW p \in Path,
         Sound(s), OneTable(s, t, d, p), SlotsFollow(s, t, d, p), EdgesFollow(s, t, d, p)
  PROVE  Sound(t)
<1> USE DEF Sound
<1>1. Filed(t)
  <2>1. ASSUME NEW c \in Side, NEW i \in SlotId
        PROVE  {e \in EdgesOf(t) : t.edges[e][c].slot = i} = {e \in EdgesOf(s) : s.edges[e][c].slot = i}
    BY DEF EdgesFollow
  <2>2. ASSUME NEW c \in Side, NEW a \in Path
        PROVE  {e \in EdgesOf(t) : t.edges[e][c].node = a} = {e \in EdgesOf(s) : s.edges[e][c].node = a}
    BY DEF EdgesFollow
  <2> QED
    BY <2>1, <2>2 DEF OneTable, Filed
<1>2. Owned(t)
  <2>1. ASSUME NEW k \in DOMAIN t.slots[d][p]
        PROVE  t.slots[d][p][k].id \in Ids[p] /\ t.owner[d][t.slots[d][p][k].id] = <<p, k>>
    BY DEF SlotsFollow, Owned
  <2>2. ASSUME NEW a \in Path, NEW k \in DOMAIN t.slots[d][a], a # p
        PROVE  t.slots[d][a][k].id \in Ids[a] /\ t.owner[d][t.slots[d][a][k].id] = <<a, k>>
    <3>1. t.slots[d][a] = s.slots[d][a]
      BY <2>2 DEF OneTable
    <3>2. PICK i : i = s.slots[d][a][k].id
      OBVIOUS
    <3>3. i \in Ids[a] /\ s.owner[d][i] = <<a, k>>
      BY <3>1, <3>2 DEF Owned
    <3>4. i \in SlotId
      BY <3>3 DEF SlotId
    <3>5. i \notin Ids[p]
      BY <2>2, <3>3, SlotAssumption
    <3>6. \A j \in DOMAIN t.slots[d][p] : t.slots[d][p][j].id # i
      BY <2>1, <3>5
    <3>7. \A j \in DOMAIN s.slots[d][p] : s.slots[d][p][j].id # i
      <4>1. \A j \in DOMAIN s.slots[d][p] : s.slots[d][p][j].id \in Ids[p]
        BY DEF Owned
      <4> QED
        BY <3>5, <4>1
    <3>8. t.owner[d][i] = s.owner[d][i]
      BY <3>4, <3>6, <3>7 DEF SlotsFollow
    <3> QED
      BY <3>1, <3>2, <3>3, <3>8
  <2>3. ASSUME NEW i \in SlotId, t.owner[d][i] # None
        PROVE  \E a \in Path : \E k \in DOMAIN t.slots[d][a] :
                 t.owner[d][i] = <<a, k>> /\ t.slots[d][a][k].id = i
    <3>1. CASE \E k \in DOMAIN t.slots[d][p] : t.slots[d][p][k].id = i
      BY <2>1, <3>1
    <3>2. CASE \A k \in DOMAIN t.slots[d][p] : t.slots[d][p][k].id # i
      <4>1. t.owner[d][i] = s.owner[d][i] /\ \A k \in DOMAIN s.slots[d][p] : s.slots[d][p][k].id # i
        BY <2>3, <3>2 DEF SlotsFollow
      <4>2. PICK a \in Path : \E k \in DOMAIN s.slots[d][a] :
                s.owner[d][i] = <<a, k>> /\ s.slots[d][a][k].id = i
        BY <2>3, <4>1 DEF Owned
      <4>3. t.slots[d][a] = s.slots[d][a]
        BY <4>1, <4>2 DEF OneTable
      <4> QED
        BY <4>1, <4>2, <4>3
    <3> QED
      BY <3>1, <3>2
  <2>4. ASSUME NEW c \in Side, c # d
        PROVE  /\ t.owner[c] = s.owner[c]
               /\ \A a \in Path : t.slots[c][a] = s.slots[c][a]
    BY <2>4 DEF OneTable
  <2>5. ASSUME NEW c \in Side, NEW a \in Path, NEW k \in DOMAIN t.slots[c][a]
        PROVE  t.slots[c][a][k].id \in Ids[a] /\ t.owner[c][t.slots[c][a][k].id] = <<a, k>>
    <3>1. CASE c = d
      BY <2>1, <2>2, <3>1
    <3>2. CASE c # d
      <4>1. t.slots[c][a] = s.slots[c][a] /\ t.owner[c] = s.owner[c]
        BY <2>4, <3>2
      <4>2. k \in DOMAIN s.slots[c][a]
        BY <4>1
      <4>3. s.slots[c][a][k].id \in Ids[a] /\ s.owner[c][s.slots[c][a][k].id] = <<a, k>>
        BY <4>2 DEF Owned
      <4> QED
        BY <4>1, <4>3
    <3> QED
      BY <3>1, <3>2
  <2>6. ASSUME NEW c \in Side, NEW i \in SlotId, t.owner[c][i] # None
        PROVE  \E a \in Path : \E k \in DOMAIN t.slots[c][a] :
                 t.owner[c][i] = <<a, k>> /\ t.slots[c][a][k].id = i
    <3>1. CASE c = d
      BY <2>3, <2>6, <3>1
    <3>2. CASE c # d
      BY <2>4, <2>6, <3>2, SMTT(60) DEF Owned
    <3> QED
      BY <3>1, <3>2
  <2> QED
    BY <2>5, <2>6 DEF Owned
<1>3. ASSUME NEW e \in EdgesOf(t), NEW c \in Side
      PROVE  /\ e \in EdgesOf(s)
             /\ t.edges[e][c].node = s.edges[e][c].node
             /\ t.edges[e][c].slot = s.edges[e][c].slot
             /\ t.edges[e][c].index \in DOMAIN t.slots[c][t.edges[e][c].node]
             /\ SlotAt(t, c, e) = SlotAt(s, c, e)
  <2>1. e \in EdgesOf(s)
    BY DEF EdgesFollow
  <2>2. s.edges[e][c].node \in Path
    BY <2>1 DEF Attached, Resolves, States
  <2> DEFINE x == s.edges[e][c]
             y == t.edges[e][c]
  <2>3. x.node \in Path /\ x.index \in DOMAIN s.slots[c][x.node]
    BY <2>1, <2>2 DEF Attached, Resolves
  <2>4. /\ y.node = x.node /\ y.slot = x.slot
        /\ c # d \/ x.node # p => y.index = x.index
        /\ c = d /\ x.node = p => /\ y.index \in DOMAIN t.slots[d][p]
                                 /\ t.slots[d][p][y.index] = s.slots[d][p][x.index]
    BY <2>1 DEF EdgesFollow
  <2>5. SlotAt(t, c, e) = t.slots[c][y.node][y.index] /\ SlotAt(s, c, e) = s.slots[c][x.node][x.index]
    BY DEF SlotAt
  <2>6. c # d \/ x.node # p => t.slots[c][x.node] = s.slots[c][x.node]
    BY <2>3 DEF OneTable
  <2> HIDE DEF x, y
  <2>7. y.index \in DOMAIN t.slots[c][y.node] /\ SlotAt(t, c, e) = SlotAt(s, c, e)
    <3>1. CASE c = d /\ x.node = p
      BY <2>4, <2>5, <3>1
    <3>2. CASE ~ (c = d /\ x.node = p)
      BY <2>3, <2>4, <2>5, <2>6, <3>2
    <3> QED
      BY <3>1, <3>2
  <2> QED
    BY <2>1, <2>4, <2>7 DEF x, y
<1>4. Attached(t)
  <2> SUFFICES ASSUME NEW e \in EdgesOf(t), NEW c \in Side
               PROVE  LET x == t.edges[e][c]
                      IN  /\ x.node \in t.nodes /\ x.node \notin SubGraph
                          /\ x.index \in DOMAIN t.slots[c][x.node]
                          /\ t.slots[c][x.node][x.index].id = x.slot
    BY DEF Attached, Resolves
  <2>1. LET x == s.edges[e][c]
        IN  x.node \in s.nodes /\ x.node \notin SubGraph /\ SlotAt(s, c, e).id = x.slot
    BY <1>3 DEF Attached, Resolves, SlotAt
  <2>2. SlotAt(t, c, e) = t.slots[c][t.edges[e][c].node][t.edges[e][c].index]
    BY DEF SlotAt
  <2> QED
    BY <1>3, <2>1, <2>2 DEF OneTable
<1>5. SameTypes(t)
  <2> SUFFICES ASSUME NEW e \in EdgesOf(t)
               PROVE  SlotAt(t, "in", e).type = SlotAt(t, "out", e).type
    BY DEF SameTypes
  <2>1. "in" \in Side /\ "out" \in Side
    BY DEF Side
  <2> QED
    BY <1>3, <2>1 DEF SameTypes
<1>6. Limited(t)
  <2> SUFFICES ASSUME NEW a \in Path, NEW k \in DOMAIN t.slots["in"][a],
                      t.slots["in"][a][k].max # None
               PROVE  Len(t.conn["in"][t.slots["in"][a][k].id]) <= t.slots["in"][a][k].max
    BY DEF Limited
  <2>1. "in" \in Side /\ t.conn = s.conn
    BY DEF Side, OneTable
  <2>2. CASE \E j \in DOMAIN s.slots["in"][a] : t.slots["in"][a][k] = s.slots["in"][a][j]
    BY <2>1, <2>2 DEF Limited
  <2>3. CASE ~ \E j \in DOMAIN s.slots["in"][a] : t.slots["in"][a][k] = s.slots["in"][a][j]
    <3>1. "in" = d /\ a = p
      BY <2>1, <2>3 DEF OneTable
    <3>2. s.conn["in"][t.slots["in"][a][k].id] = <<>>
      BY <2>3, <3>1 DEF SlotsFollow
    <3>3. t.slots["in"][a][k].max \in Nat
      <4>1. t.slots["in"][a] \in Seq(Slot)
        BY <2>1 DEF OneTable, States
      <4>2. t.slots["in"][a][k] \in Slot
        BY <4>1
      <4> QED
        BY <4>2 DEF Slot
    <3> QED
      BY <2>1, <3>2, <3>3
  <2> QED
    BY <2>2, <2>3
<1> QED
  BY <1>1, <1>2, <1>4, <1>5, <1>6 DEF OneTable

-----------------------------------------------------------------------------
(* The methods that change one slot table.                                 *)

Distinct(q) == \A k, l \in DOMAIN q : q[k].id = q[l].id => k = l

LEMMA SlotsAreDistinct ==
  ASSUME NEW s, Owned(s), NEW d \in Side, NEW p \in Path
  PROVE  Distinct(s.slots[d][p])
<1> SUFFICES ASSUME NEW k \in DOMAIN s.slots[d][p], NEW l \in DOMAIN s.slots[d][p],
                    s.slots[d][p][k].id = s.slots[d][p][l].id
             PROVE  k = l
  BY DEF Distinct
<1>1. s.owner[d][s.slots[d][p][k].id] = <<p, k>>
  BY DEF Owned
<1>2. s.owner[d][s.slots[d][p][l].id] = <<p, l>>
  BY DEF Owned
<1>3. <<p, k>> = <<p, l>>
  BY <1>1, <1>2
<1> QED
  BY <1>3

LEMMA SlotsHaveIds ==
  ASSUME NEW q \in Seq(Slot)
  PROVE  DOMAIN q \subseteq Nat /\ \A k \in DOMAIN q : q[k].id \in SlotId
<1>1. \A k \in DOMAIN q : q[k] \in Slot
  OBVIOUS
<1> QED
  BY <1>1 DEF Slot

Reindexed(s, t, d, p, from) ==
  /\ t \in States
  /\ t.nodes = s.nodes /\ t.slots = s.slots /\ t.edges = s.edges
  /\ t.conn = s.conn /\ t.touching = s.touching /\ t.changed = s.changed
  /\ \A c \in Side : c # d => t.owner[c] = s.owner[c]
  /\ \A k \in DOMAIN s.slots[d][p] : k >= from => t.owner[d][s.slots[d][p][k].id] = <<p, k>>
  /\ \A i \in SlotId : (\A k \in DOMAIN s.slots[d][p] : k >= from => s.slots[d][p][k].id # i)
                         => t.owner[d][i] = s.owner[d][i]

LEMMA ReindexFacts ==
  ASSUME NEW s \in States, NEW d \in Side, NEW p \in Path, NEW from \in Nat,
         Distinct(s.slots[d][p])
  PROVE  Reindexed(s, Reindex(s, d, p, from), d, p, from)
<1> DEFINE t == Reindex(s, d, p, from)
<1> DEFINE q == s.slots[d][p]
           at(i) == {k \in DOMAIN q : k >= from /\ q[k].id = i}
           o == [i \in SlotId |-> IF at(i) = {} THEN s.owner[d][i]
                                  ELSE <<p, CHOOSE k \in at(i) : TRUE>>]
<1>1. t = [s EXCEPT !.owner[d] = o]
  BY DEF Reindex
<1>2. q \in Seq(Slot)
  BY DEF States
<1>3. DOMAIN q \subseteq Nat /\ \A k \in DOMAIN q : q[k].id \in SlotId
  BY <1>2, SlotsHaveIds
<1>4. \A k \in DOMAIN q : k >= from => at(q[k].id) = {k}
  BY DEF Distinct
<1>5. \A k \in DOMAIN q : k >= from => o[q[k].id] = <<p, k>>
  <2> SUFFICES ASSUME NEW k \in DOMAIN q, k >= from
               PROVE  o[q[k].id] = <<p, k>>
    OBVIOUS
  <2>1. at(q[k].id) = {k}
    BY <1>4
  <2>2. (CHOOSE l \in at(q[k].id) : TRUE) = k
    BY <2>1
  <2>3. o[q[k].id] = <<p, CHOOSE l \in at(q[k].id) : TRUE>>
    BY <1>3, <2>1
  <2> QED
    BY <2>2, <2>3
<1>6. \A i \in SlotId : (\A k \in DOMAIN q : k >= from => q[k].id # i) => o[i] = s.owner[d][i]
  <2> SUFFICES ASSUME NEW i \in SlotId, \A k \in DOMAIN q : k >= from => q[k].id # i
               PROVE  o[i] = s.owner[d][i]
    OBVIOUS
  <2>1. at(i) = {}
    OBVIOUS
  <2> QED
    BY <2>1
<1>7. o \in [SlotId -> (Path \X Nat) \cup {None}]
  <2> SUFFICES ASSUME NEW i \in SlotId
               PROVE  o[i] \in (Path \X Nat) \cup {None}
    OBVIOUS
  <2>1. CASE at(i) = {}
    BY <2>1 DEF States
  <2>2. CASE at(i) # {}
    <3>1. (CHOOSE k \in at(i) : TRUE) \in at(i)
      BY <2>2
    <3>2. (CHOOSE k \in at(i) : TRUE) \in Nat
      BY <1>3, <3>1
    <3>3. PICK v \in Nat : v = CHOOSE k \in at(i) : TRUE
      BY <3>2
    <3>4. o[i] = <<p, v>>
      BY <2>2, <3>3
    <3> QED
      BY <3>4, SMTT(60)
  <2> QED
    BY <2>1, <2>2
<1> HIDE DEF o, t
<1>8. /\ t \in States /\ t.owner = [s.owner EXCEPT ![d] = o]
      /\ t.nodes = s.nodes /\ t.slots = s.slots /\ t.edges = s.edges
      /\ t.conn = s.conn /\ t.touching = s.touching /\ t.changed = s.changed
  <2> DEFINE u == [s.owner EXCEPT ![d] = o]
  <2>1. u \in [Side -> [SlotId -> (Path \X Nat) \cup {None}]]
    BY <1>7 DEF States
  <2>2. t = [s EXCEPT !.owner = u]
    BY <1>1
  <2> HIDE DEF u
  <2>3. /\ t \in States /\ t.owner = u
        /\ t.nodes = s.nodes /\ t.slots = s.slots /\ t.edges = s.edges
        /\ t.conn = s.conn /\ t.touching = s.touching /\ t.changed = s.changed
    BY <2>1, <2>2 DEF States
  <2> QED
    BY <2>3 DEF u
<1>9. t.owner[d] = o /\ \A c \in Side : c # d => t.owner[c] = s.owner[c]
  <2> HIDE DEF t
  <2> QED
    BY <1>8 DEF States
<1> HIDE DEF t
<1> QED
  BY <1>5, <1>6, <1>8, <1>9 DEF Reindexed, t

Renumbered(s, t, d, p, from, by) ==
  /\ t \in States
  /\ t.nodes = s.nodes /\ t.slots = s.slots /\ t.owner = s.owner
  /\ t.conn = s.conn /\ t.touching = s.touching /\ t.changed = s.changed
  /\ EdgesOf(t) = EdgesOf(s)
  /\ \A e \in EdgesOf(s) : \A c \in Side :
       /\ t.edges[e][c].node = s.edges[e][c].node
       /\ t.edges[e][c].slot = s.edges[e][c].slot
       /\ t.edges[e][c].index =
            IF c = d /\ s.edges[e][d].node = p /\ s.edges[e][d].index >= from
            THEN s.edges[e][d].index + by ELSE s.edges[e][c].index

LEMMA RenumberFacts ==
  ASSUME NEW s \in States, NEW d \in Side, NEW p \in Path, NEW from \in Nat, NEW by \in Int,
         from + by >= 1
  PROVE  Renumbered(s, Renumber(s, d, p, from, by), d, p, from, by)
<1> DEFINE t == Renumber(s, d, p, from, by)
<1> DEFINE moved(e) == s.edges[e][d].node = p /\ s.edges[e][d].index >= from
           g == [e \in EdgeId |->
                   IF e \in EdgesOf(s) /\ moved(e)
                   THEN [s.edges[e] EXCEPT ![d].index = @ + by] ELSE s.edges[e]]
<1>1. t = [s EXCEPT !.edges = g]
  BY DEF Renumber
<1> HIDE DEF t
<1>2. ASSUME NEW e \in EdgesOf(s)
      PROVE  /\ g[e] \in Edge
             /\ \A c \in Side :
                  /\ g[e][c].node = s.edges[e][c].node
                  /\ g[e][c].slot = s.edges[e][c].slot
                  /\ g[e][c].index = IF c = d /\ moved(e) THEN s.edges[e][d].index + by
                                     ELSE s.edges[e][c].index
  <2>1. s.edges[e] \in Edge /\ e \in EdgeId
    BY DEF States, EdgesOf
  <2>2. s.edges[e][d].index \in Nat /\ s.edges[e][d] \in End
    BY <2>1 DEF Edge, End
  <2>3. CASE moved(e)
    <3>1. g[e] = [s.edges[e] EXCEPT ![d].index = @ + by]
      BY <2>1, <2>3
    <3>2. s.edges[e][d].index + by \in Nat \ {0}
      BY <2>2, <2>3
    <3>3. [s.edges[e][d] EXCEPT !.index = @ + by] \in End
      BY <2>2, <3>2 DEF End
    <3> QED
      BY <2>1, <2>2, <2>3, <3>1, <3>3 DEF Edge, End
  <2>4. CASE ~ moved(e)
    BY <2>1, <2>4
  <2> QED
    BY <2>3, <2>4
<1>3. \A e \in EdgeId : e \notin EdgesOf(s) => g[e] = None
  BY DEF EdgesOf
<1>4. g \in [EdgeId -> Edge \cup {None}]
  <2>1. \A e \in EdgeId : g[e] \in Edge \cup {None}
    BY <1>2, <1>3
  <2> QED
    BY <2>1
<1> HIDE DEF g
<1>5. /\ t \in States /\ t.edges = g
      /\ t.nodes = s.nodes /\ t.slots = s.slots /\ t.owner = s.owner
      /\ t.conn = s.conn /\ t.touching = s.touching /\ t.changed = s.changed
  BY <1>1, <1>4 DEF States
<1>6. EdgesOf(t) = EdgesOf(s)
  BY <1>2, <1>3, <1>5, NoneAssumption DEF EdgesOf
<1> QED
  BY <1>2, <1>5, <1>6 DEF Renumbered, t

(* Unused ids are ids of p, and nothing is filed under them.               *)
LEMMA UnusedFacts ==
  ASSUME NEW s, NEW d, NEW p \in Path
  PROVE  /\ Unused(s, d, p) \subseteq Ids[p] /\ Unused(s, d, p) \subseteq SlotId
         /\ Unused(s, d, p) \in SUBSET Nat /\ IsFiniteSet(Unused(s, d, p))
         /\ Cardinality(Unused(s, d, p)) \in Nat
         /\ \A i \in Unused(s, d, p) :
              /\ s.conn[d][i] = <<>> /\ s.owner[d][i] = None
              /\ \A e \in EdgesOf(s) : s.edges[e][d].slot # i
              /\ \A q \in Path : \A k \in DOMAIN s.slots[d][q] : s.slots[d][q][k].id # i
<1>1. Unused(s, d, p) \subseteq Ids[p]
  BY DEF Unused
<1>2. Ids[p] \in SUBSET Nat /\ IsFiniteSet(Ids[p])
  BY SlotAssumption
<1>3. Unused(s, d, p) \subseteq SlotId
  BY <1>1 DEF SlotId
<1>4. IsFiniteSet(Unused(s, d, p))
  BY <1>1, <1>2, FS_Subset
<1> QED
  BY <1>1, <1>2, <1>3, <1>4, FS_CardinalityType DEF Unused, IdsOf

LEMMA InsertKeepsDistinct ==
  ASSUME NEW q \in Seq(Slot), NEW at \in 1..(Len(q) + 1), NEW slot \in Slot,
         Distinct(q), \A k \in DOMAIN q : q[k].id # slot.id
  PROVE  Distinct(InsertAt(q, at, slot))
<1> DEFINE r == InsertAt(q, at, slot)
           n == Len(q)
<1>1. n \in Nat /\ at \in Nat /\ DOMAIN q = 1..n
  OBVIOUS
<1>2. /\ DOMAIN r = 1..(n + 1)
      /\ \A k \in 1..(n + 1) : r[k] = IF k < at THEN q[k] ELSE IF k = at THEN slot ELSE q[k - 1]
  BY InsertAtFacts
<1> DEFINE old(k) == IF k < at THEN k ELSE k - 1
<1> HIDE DEF r, n
<1>3. \A k \in 1..(n + 1) : k # at => old(k) \in 1..n /\ r[k] = q[old(k)]
  BY <1>1, <1>2
<1>4. \A k \in 1..(n + 1) : k # at => r[k].id # slot.id
  BY <1>1, <1>3
<1>5. r[at] = slot
  BY <1>1, <1>2 DEF n
<1> SUFFICES ASSUME NEW k \in 1..(n + 1), NEW l \in 1..(n + 1), r[k].id = r[l].id
             PROVE  k = l
  BY <1>2 DEF Distinct, r
<1>6. CASE k = at \/ l = at
  BY <1>4, <1>5, <1>6
<1>7. CASE k # at /\ l # at
  <2>1. old(k) \in DOMAIN q /\ old(l) \in DOMAIN q /\ q[old(k)].id = q[old(l)].id
    BY <1>1, <1>3, <1>7
  <2>2. old(k) = old(l)
    BY <2>1 DEF Distinct
  <2> QED
    BY <1>1, <1>7, <2>2
<1> QED
  BY <1>6, <1>7

InsertedAt(q, i) == IF i <= Len(q) THEN i ELSE Len(q) + 1

LEMMA InsertSlotIsSound ==
  ASSUME NEW s, Sound(s), NEW d \in Side, NEW p \in Path, NEW i \in Nat \ {0},
         NEW type \in Type, NEW max \in Nat \cup {None},
         Cardinality(Unused(s, d, p)) >= 1,
         NEW t, t = InsertSlot(s, d, p, i, type, max)
  PROVE  /\ Sound(t) /\ OneTable(s, t, d, p) /\ EdgesFollow(s, t, d, p)
         /\ \E slot \in Slot : /\ slot.type = type
                               /\ t.slots[d][p] = InsertAt(s.slots[d][p], InsertedAt(s.slots[d][p], i), slot)
<1> DEFINE q == s.slots[d][p]
           id == Mint(s, d, p)
           at == IF i <= Len(q) THEN i ELSE Len(q) + 1
           slot == [id |-> id, type |-> type, max |-> max]
           r == InsertAt(q, at, slot)
           u == [s EXCEPT !.slots[d][p] = r]
           v == Reindex(u, d, p, at)
<1>1. q \in Seq(Slot) /\ Len(q) \in Nat /\ s \in States
  BY DEF Sound, States
<1>2. id \in Unused(s, d, p)
  BY UnusedFacts, NthInSet DEF Mint
<1>3. /\ id \in Ids[p] /\ id \in SlotId /\ s.conn[d][id] = <<>> /\ s.owner[d][id] = None
      /\ \A k \in DOMAIN q : q[k].id # id
  BY <1>2, UnusedFacts
<1>4. slot \in Slot /\ slot.id = id /\ slot.type = type
  BY <1>3 DEF Slot
<1>5. at \in 1..(Len(q) + 1) /\ at \in Nat
  BY <1>1
<1>6. t = Renumber(v, d, p, at, 1)
  BY DEF InsertSlot
<1> HIDE DEF slot, id, at
<1>7. /\ r \in Seq(Slot) /\ DOMAIN r = 1..(Len(q) + 1)
      /\ \A k \in 1..(Len(q) + 1) :
           r[k] = IF k < at THEN q[k] ELSE IF k = at THEN slot ELSE q[k - 1]
  <2> HIDE DEF q
  <2> QED
    BY <1>1, <1>4, <1>5, InsertAtFacts
<1> HIDE DEF r
<1>8. /\ u \in States /\ u.nodes = s.nodes /\ u.edges = s.edges /\ u.owner = s.owner
      /\ u.conn = s.conn /\ u.touching = s.touching /\ u.changed = s.changed
      /\ u.slots[d][p] = r
      /\ \A c \in Side : \A a \in Path : c # d \/ a # p => u.slots[c][a] = s.slots[c][a]
  BY <1>1, <1>7 DEF States
<1>9. Distinct(r)
  <2>1. Distinct(q)
    BY SlotsAreDistinct DEF Sound
  <2> HIDE DEF q
  <2> QED
    BY <1>1, <1>3, <1>4, <1>5, <2>1, InsertKeepsDistinct DEF r
<1> HIDE DEF u
<1>10. v = Reindex(u, d, p, at) /\ Distinct(u.slots[d][p])
  BY <1>8, <1>9
<1> HIDE DEF v
<1>11. Reindexed(u, v, d, p, at)
  BY <1>5, <1>8, <1>10, ReindexFacts
<1>12. v \in States /\ Renumbered(v, t, d, p, at, 1)
  BY <1>5, <1>6, <1>11, RenumberFacts DEF Reindexed
<1> USE DEF Reindexed, Renumbered
<1>13. EdgesOf(t) = EdgesOf(s)
  BY <1>8, <1>11, <1>12 DEF EdgesOf
<1>14. OneTable(s, t, d, p) /\ t.slots[d][p] = r
  BY <1>8, <1>11, <1>12 DEF OneTable
<1>15. SlotsFollow(s, t, d, p)
  <2>1. \A k \in DOMAIN q : q[k].id \in SlotId /\ s.owner[d][q[k].id] = <<p, k>>
    BY <1>1, SlotsHaveIds DEF Sound, Owned
  <2>2. DOMAIN q = 1..Len(q)
    BY <1>1
  <2> HIDE DEF q
  <2>3. ASSUME NEW k \in DOMAIN r
        PROVE  t.owner[d][r[k].id] = <<p, k>>
    <3>1. CASE k >= at
      BY <1>8, <1>11, <1>12, <3>1
    <3>2. CASE ~ (k >= at)
      <4>1. k \in DOMAIN q /\ r[k] = q[k]
        BY <1>1, <1>5, <1>7, <2>2, <3>2
      <4>2. \A l \in DOMAIN r : l >= at => r[l].id # r[k].id
        BY <1>5, <1>7, <1>9, <3>2 DEF Distinct
      <4>3. v.owner[d][r[k].id] = s.owner[d][r[k].id]
        BY <1>8, <1>11, <2>1, <4>1, <4>2
      <4> QED
        BY <1>12, <2>1, <4>1, <4>3
    <3> QED
      BY <3>1, <3>2
  <2>4. ASSUME NEW j \in SlotId, \A k \in DOMAIN r : r[k].id # j
        PROVE  t.owner[d][j] = IF \E k \in DOMAIN q : q[k].id = j THEN None ELSE s.owner[d][j]
    <3>1. \A k \in DOMAIN q : q[k].id # j
      <4> SUFFICES ASSUME NEW k \in DOMAIN q
                   PROVE  q[k].id # j
        OBVIOUS
      <4>1. CASE k < at
        BY <1>1, <1>7, <2>2, <2>4, <4>1
      <4>2. CASE ~ (k < at)
        <5>1. k + 1 \in 1..(Len(q) + 1) /\ ~ (k + 1 < at) /\ k + 1 # at /\ (k + 1) - 1 = k
          BY <1>1, <1>5, <2>2, <4>2
        <5>2. r[k + 1] = q[k]
          BY <1>7, <5>1
        <5> QED
          BY <1>7, <2>4, <5>1, <5>2
      <4> QED
        BY <4>1, <4>2
    <3> QED
      BY <1>8, <1>11, <1>12, <2>4, <3>1
  <2>5. ASSUME NEW k \in DOMAIN r
        PROVE  \/ \E j \in DOMAIN q : r[k] = q[j]
               \/ r[k].id \in Ids[p] /\ s.conn[d][r[k].id] = <<>>
    <3>1. CASE k = at
      BY <1>3, <1>4, <1>5, <1>7, <3>1
    <3>2. CASE k < at
      BY <1>1, <1>5, <1>7, <2>2, <3>2
    <3>3. CASE k > at
      <4>1. k - 1 \in DOMAIN q /\ r[k] = q[k - 1]
        BY <1>1, <1>5, <1>7, <2>2, <3>3
      <4> QED
        BY <4>1
    <3> QED
      BY <1>5, <1>7, <3>1, <3>2, <3>3
  <2> QED
    BY <1>14, <2>3, <2>4, <2>5 DEF SlotsFollow, q
<1>16. EdgesFollow(s, t, d, p)
  <2>1. ASSUME NEW e \in EdgesOf(s), NEW c \in Side
        PROVE  LET x == s.edges[e][c]
                   y == t.edges[e][c]
               IN  /\ y.node = x.node /\ y.slot = x.slot
                   /\ c # d \/ x.node # p => y.index = x.index
                   /\ c = d /\ x.node = p => y.index \in DOMAIN r /\ r[y.index] = q[x.index]
    <3> DEFINE x == s.edges[e][c]
               y == t.edges[e][c]
    <3>1. /\ y.node = x.node /\ y.slot = x.slot
          /\ y.index = IF c = d /\ x.node = p /\ x.index >= at THEN x.index + 1 ELSE x.index
      BY <1>8, <1>11, <1>12, <1>13
    <3>2. c = d /\ x.node = p => x.index \in DOMAIN q
      BY DEF Sound, Attached, Resolves
    <3> HIDE DEF x, y, q
    <3>3. c = d /\ x.node = p => y.index \in DOMAIN r /\ r[y.index] = q[x.index]
      <4> SUFFICES ASSUME c = d, x.node = p
                   PROVE  y.index \in DOMAIN r /\ r[y.index] = q[x.index]
        OBVIOUS
      <4>1. x.index \in 1..Len(q)
        BY <1>1, <3>2
      <4>2. CASE x.index >= at
        <5>1. y.index = x.index + 1
          BY <3>1, <4>2
        <5>2. /\ x.index + 1 \in 1..(Len(q) + 1) /\ ~ (x.index + 1 < at)
              /\ x.index + 1 # at /\ (x.index + 1) - 1 = x.index
          BY <1>1, <1>5, <4>1, <4>2
        <5> QED
          BY <1>7, <5>1, <5>2
      <4>3. CASE ~ (x.index >= at)
        BY <1>1, <1>5, <1>7, <3>1, <4>1, <4>3
      <4> QED
        BY <4>2, <4>3
    <3> QED
      BY <3>1, <3>3 DEF x, y
  <2> QED
    BY <1>13, <1>14, <2>1 DEF EdgesFollow
<1>17. Sound(t)
  BY <1>14, <1>15, <1>16, TableChange
<1>18. t.slots[d][p] = InsertAt(q, InsertedAt(q, i), slot)
  BY <1>14 DEF InsertedAt, r, at
<1> QED
  BY <1>4, <1>14, <1>16, <1>17, <1>18

LEMMA AddSlotIsInsert ==
  ASSUME NEW s, Sound(s), NEW d \in Side, NEW p \in Path,
         NEW type \in Type, NEW max \in Nat \cup {None},
         Cardinality(Unused(s, d, p)) >= 1
  PROVE  AddSlot(s, d, p, type, max) = InsertSlot(s, d, p, Len(s.slots[d][p]) + 1, type, max)
<1> DEFINE q == s.slots[d][p]
           n == Len(q)
           slot == [id |-> Mint(s, d, p), type |-> type, max |-> max]
           u == [s EXCEPT !.slots[d][p] = Append(q, slot)]
           v == Reindex(u, d, p, n + 1)
<1>1. q \in Seq(Slot) /\ n \in Nat /\ s \in States
  BY DEF Sound, States
<1>2. Mint(s, d, p) \in Unused(s, d, p)
  BY UnusedFacts, NthInSet DEF Mint
<1>3. slot \in Slot /\ \A k \in DOMAIN q : q[k].id # slot.id
  BY <1>2, UnusedFacts DEF Slot
<1>4. AddSlot(s, d, p, type, max) = Reindex(u, d, p, Len(u.slots[d][p]))
  BY DEF AddSlot
<1>5. InsertSlot(s, d, p, n + 1, type, max) =
        Renumber(Reindex([s EXCEPT !.slots[d][p] = InsertAt(q, n + 1, slot)], d, p, n + 1), d, p, n + 1, 1)
  <2>1. ~ (n + 1 <= n)
    BY <1>1
  <2> QED
    BY <2>1 DEF InsertSlot
<1> HIDE DEF slot
<1>6. InsertAt(q, n + 1, slot) = Append(q, slot)
  <2> HIDE DEF q
  <2> DEFINE r == InsertAt(q, n + 1, slot)
  <2>1. /\ r \in Seq(Slot) /\ Len(r) = n + 1
        /\ \A k \in 1..(n + 1) : r[k] = IF k < n + 1 THEN q[k] ELSE IF k = n + 1 THEN slot ELSE q[k - 1]
    <3>1. n + 1 \in 1..(Len(q) + 1)
      BY <1>1
    <3>2. r \in Seq(Slot) /\ Len(r) = Len(q) + 1 /\ InsertedInto(r, q, n + 1, slot)
      BY <1>1, <1>3, <3>1, InsertAtIsInsertion
    <3> QED
      BY <3>2 DEF InsertedInto
  <2> HIDE DEF r
  <2>2. \A k \in 1..(n + 1) : r[k] = Append(q, slot)[k]
    BY <1>1, <1>3, <2>1
  <2>3. r = Append(q, slot)
    BY <1>1, <1>3, <2>1, <2>2
  <2> QED
    BY <2>3 DEF r
<1>7. Append(q, slot) \in Seq(Slot) /\ Len(Append(q, slot)) = n + 1
  BY <1>1, <1>3
<1>8. u \in States /\ u.slots[d][p] = Append(q, slot) /\ u.edges = s.edges
  BY <1>1, <1>7 DEF States
<1>9. Distinct(u.slots[d][p])
  <2>1. Distinct(q)
    BY SlotsAreDistinct DEF Sound
  <2> HIDE DEF q, u
  <2>2. n + 1 \in 1..(Len(q) + 1)
    BY <1>1
  <2>3. Distinct(InsertAt(q, n + 1, slot))
    BY <1>1, <1>3, <2>1, <2>2, InsertKeepsDistinct
  <2> QED
    BY <1>6, <1>8, <2>3
<1> HIDE DEF u
<1>10. v \in States /\ v.edges = s.edges
  <2>1. n + 1 \in Nat
    BY <1>1
  <2>2. Reindexed(u, v, d, p, n + 1)
    BY <1>8, <1>9, <2>1, ReindexFacts
  <2> QED
    BY <1>8, <2>2 DEF Reindexed
<1> HIDE DEF v
<1>11. \A e \in EdgesOf(v) : ~ (v.edges[e][d].node = p /\ v.edges[e][d].index >= n + 1)
  <2> SUFFICES ASSUME NEW e \in EdgesOf(s), s.edges[e][d].node = p
               PROVE  ~ (s.edges[e][d].index >= n + 1)
    BY <1>10 DEF EdgesOf
  <2>1. s.edges[e][d].index \in 1..n
    <3>1. s.edges[e][d].index \in DOMAIN q
      BY DEF Sound, Attached, Resolves
    <3> QED
      BY <1>1, <3>1
  <2> QED
    BY <1>1, <2>1
<1>12. Renumber(v, d, p, n + 1, 1) = v
  <2>1. [e \in EdgeId |->
          IF e \in EdgesOf(v) /\ v.edges[e][d].node = p /\ v.edges[e][d].index >= n + 1
          THEN [v.edges[e] EXCEPT ![d].index = @ + 1] ELSE v.edges[e]] = v.edges
    BY <1>10, <1>11 DEF States
  <2>2. [v EXCEPT !.edges = v.edges] = v
    BY <1>10 DEF States
  <2> QED
    BY <2>1, <2>2 DEF Renumber
<1>13. AddSlot(s, d, p, type, max) = v
  BY <1>4, <1>7, <1>8 DEF v
<1>14. InsertSlot(s, d, p, n + 1, type, max) = v
  BY <1>5, <1>6, <1>12 DEF u, v
<1> QED
  BY <1>13, <1>14

LEMMA RemoveKeepsDistinct ==
  ASSUME NEW q \in Seq(Slot), NEW i \in 1..Len(q), Distinct(q)
  PROVE  /\ Distinct(RemoveAt(q, i))
         /\ \A k \in DOMAIN RemoveAt(q, i) :
              /\ RemoveAt(q, i)[k].id # q[i].id
              /\ \E l \in DOMAIN q : RemoveAt(q, i)[k] = q[l]
         /\ \A l \in DOMAIN q : l # i => \E k \in DOMAIN RemoveAt(q, i) : RemoveAt(q, i)[k] = q[l]
<1> DEFINE r == RemoveAt(q, i)
           n == Len(q)
           old(k) == IF k < i THEN k ELSE k + 1
<1>1. n \in Nat /\ i \in 1..n /\ DOMAIN q = 1..n
  OBVIOUS
<1>2. DOMAIN r = 1..(n - 1) /\ \A k \in 1..(n - 1) : r[k] = IF k < i THEN q[k] ELSE q[k + 1]
  BY RemoveAtFacts
<1> HIDE DEF r, n
<1>3. \A k \in 1..(n - 1) : old(k) \in 1..n /\ old(k) # i /\ r[k] = q[old(k)]
  BY <1>1, <1>2
<1>4. Distinct(r)
  <2> SUFFICES ASSUME NEW k \in 1..(n - 1), NEW l \in 1..(n - 1), r[k].id = r[l].id
               PROVE  k = l
    BY <1>2 DEF Distinct
  <2>1. old(k) \in DOMAIN q /\ old(l) \in DOMAIN q /\ q[old(k)].id = q[old(l)].id
    BY <1>1, <1>3
  <2>2. old(k) = old(l)
    BY <2>1 DEF Distinct
  <2> QED
    BY <1>1, <2>2
<1>5. \A k \in DOMAIN r : r[k].id # q[i].id
  <2> SUFFICES ASSUME NEW k \in DOMAIN r, r[k].id = q[i].id
               PROVE  FALSE
    OBVIOUS
  <2>1. old(k) \in DOMAIN q /\ old(k) # i /\ q[old(k)].id = q[i].id
    BY <1>1, <1>2, <1>3
  <2> HIDE DEF old
  <2> QED
    BY <1>1, <2>1 DEF Distinct
<1>6. \A k \in DOMAIN r : \E l \in DOMAIN q : r[k] = q[l]
  BY <1>1, <1>2, <1>3
<1>7. ASSUME NEW l \in DOMAIN q, l # i
      PROVE  \E k \in DOMAIN r : r[k] = q[l]
  <2>1. CASE l < i
    BY <1>1, <1>2, <1>7, <2>1
  <2>2. CASE l > i
    <3>1. l - 1 \in 1..(n - 1) /\ ~ (l - 1 < i) /\ (l - 1) + 1 = l
      BY <1>1, <2>2
    <3>2. r[l - 1] = q[l]
      BY <1>2, <3>1
    <3> QED
      BY <1>2, <3>1, <3>2
  <2> QED
    BY <1>1, <1>7, <2>1, <2>2
<1> QED
  BY <1>4, <1>5, <1>6, <1>7 DEF r

(* A slot that no edge is at goes away.                                    *)
LEMMA RemoveSlotIsSound ==
  ASSUME NEW s, Sound(s), NEW d \in Side, NEW p \in Path, NEW i \in Nat \ {0},
         \A e \in EdgesOf(s) : ~ (s.edges[e][d].node = p /\ s.edges[e][d].index = i),
         NEW t, t = RemoveSlot(s, d, p, i)
  PROVE  /\ Sound(t) /\ OneTable(s, t, d, p) /\ EdgesFollow(s, t, d, p)
         /\ t.slots[d][p] = IF i \in DOMAIN s.slots[d][p] THEN RemoveAt(s.slots[d][p], i)
                            ELSE s.slots[d][p]
<1> DEFINE q == s.slots[d][p]
           id == q[i].id
           r == RemoveAt(q, i)
           u == [s EXCEPT !.slots[d][p] = r, !.owner[d][id] = None]
           v == Reindex(u, d, p, i)
<1>1. q \in Seq(Slot) /\ Len(q) \in Nat /\ s \in States /\ DOMAIN q = 1..Len(q)
  BY DEF Sound, States
<1>2. CASE i \notin DOMAIN q
  <2>1. t = s
    BY <1>2 DEF RemoveSlot, HasSlot
  <2>2. EdgesFollow(s, s, d, p)
    BY DEF EdgesFollow, Sound, Attached, Resolves
  <2> QED
    BY <1>1, <1>2, <2>1, <2>2 DEF OneTable
<1>3. CASE i \in DOMAIN q
  <2>1. t = Renumber(v, d, p, i + 1, -1)
    BY <1>3 DEF RemoveSlot, HasSlot
  <2>2. Distinct(q)
    BY SlotsAreDistinct DEF Sound
  <2>3. \A k \in DOMAIN q : q[k].id \in SlotId /\ s.owner[d][q[k].id] = <<p, k>>
    BY <1>1, SlotsHaveIds DEF Sound, Owned
  <2>4. /\ r \in Seq(Slot) /\ DOMAIN r = 1..(Len(q) - 1)
        /\ \A k \in 1..(Len(q) - 1) : r[k] = IF k < i THEN q[k] ELSE q[k + 1]
    <3> HIDE DEF q
    <3> QED
      BY <1>1, <1>3, RemoveAtFacts
  <2>5. /\ Distinct(r)
        /\ \A k \in DOMAIN r : r[k].id # id /\ \E l \in DOMAIN q : r[k] = q[l]
        /\ \A l \in DOMAIN q : l # i => \E k \in DOMAIN r : r[k] = q[l]
    <3> HIDE DEF q
    <3>1. i \in 1..Len(q)
      BY <1>1, <1>3
    <3> QED
      BY <1>1, <2>2, <3>1, RemoveKeepsDistinct
  <2>6. id \in SlotId
    BY <1>3, <2>3
  <2> HIDE DEF r, id
  <2>7. /\ u \in States /\ u.nodes = s.nodes /\ u.edges = s.edges
        /\ u.conn = s.conn /\ u.touching = s.touching /\ u.changed = s.changed
        /\ u.slots[d][p] = r
        /\ \A c \in Side : \A a \in Path : c # d \/ a # p => u.slots[c][a] = s.slots[c][a]
        /\ \A c \in Side : c # d => u.owner[c] = s.owner[c]
        /\ u.owner[d][id] = None
        /\ \A j \in SlotId : j # id => u.owner[d][j] = s.owner[d][j]
    BY <1>1, <2>4, <2>6 DEF States
  <2>8. v = Reindex(u, d, p, i) /\ Distinct(u.slots[d][p])
    BY <2>5, <2>7 DEF id, r
  <2> HIDE DEF u, v
  <2>9. Reindexed(u, v, d, p, i)
    BY <2>7, <2>8, ReindexFacts
  <2>10. v \in States /\ Renumbered(v, t, d, p, i + 1, -1)
    <3>1. i + 1 \in Nat /\ -1 \in Int /\ (i + 1) + (-1) >= 1
      OBVIOUS
    <3> QED
      BY <2>1, <2>9, <3>1, RenumberFacts DEF Reindexed
  <2> USE DEF Reindexed, Renumbered
  <2>11. EdgesOf(t) = EdgesOf(s)
    BY <2>7, <2>9, <2>10 DEF EdgesOf
  <2>12. OneTable(s, t, d, p) /\ t.slots[d][p] = r
    BY <2>7, <2>9, <2>10 DEF OneTable
  <2>13. SlotsFollow(s, t, d, p)
    <3> HIDE DEF q
    <3>1. ASSUME NEW k \in DOMAIN r
          PROVE  t.owner[d][r[k].id] = <<p, k>>
      <4>1. CASE k >= i
        BY <2>7, <2>9, <2>10, <4>1
      <4>2. CASE ~ (k >= i)
        <5>1. k \in DOMAIN q /\ r[k] = q[k]
          BY <1>1, <1>3, <2>4, <4>2
        <5>2. \A l \in DOMAIN r : l >= i => r[l].id # r[k].id
          BY <2>4, <2>5, <4>2 DEF Distinct
        <5>3. v.owner[d][r[k].id] = u.owner[d][r[k].id]
          BY <2>3, <2>7, <2>9, <5>1, <5>2
        <5>4. u.owner[d][r[k].id] = s.owner[d][r[k].id]
          BY <2>3, <2>5, <2>7, <5>1
        <5> QED
          BY <2>3, <2>10, <5>1, <5>3, <5>4
      <4> QED
        BY <4>1, <4>2
    <3>2. ASSUME NEW j \in SlotId, \A k \in DOMAIN r : r[k].id # j
          PROVE  t.owner[d][j] = IF \E k \in DOMAIN q : q[k].id = j THEN None ELSE s.owner[d][j]
      <4>1. t.owner[d][j] = u.owner[d][j]
        BY <2>7, <2>9, <2>10, <3>2
      <4>2. CASE j = id
        <5>1. \E k \in DOMAIN q : q[k].id = j
          BY <1>3, <4>2 DEF id
        <5> QED
          BY <2>7, <4>1, <4>2, <5>1
      <4>3. CASE j # id
        <5>1. \A k \in DOMAIN q : q[k].id # j
          BY <2>5, <3>2, <4>3 DEF id
        <5> QED
          BY <2>7, <4>1, <4>3, <5>1
      <4> QED
        BY <4>2, <4>3
    <3> QED
      BY <2>5, <2>12, <3>1, <3>2 DEF SlotsFollow, q
  <2>14. EdgesFollow(s, t, d, p)
    <3>1. ASSUME NEW e \in EdgesOf(s), NEW c \in Side
          PROVE  LET x == s.edges[e][c]
                     y == t.edges[e][c]
                 IN  /\ y.node = x.node /\ y.slot = x.slot
                     /\ c # d \/ x.node # p => y.index = x.index
                     /\ c = d /\ x.node = p => y.index \in DOMAIN r /\ r[y.index] = q[x.index]
      <4> DEFINE x == s.edges[e][c]
                 y == t.edges[e][c]
      <4>1. /\ y.node = x.node /\ y.slot = x.slot
            /\ y.index = IF c = d /\ x.node = p /\ x.index >= i + 1 THEN x.index + (-1) ELSE x.index
        BY <2>7, <2>9, <2>10, <2>11
      <4>2. c = d /\ x.node = p => x.index \in DOMAIN q /\ x.index # i
        BY DEF Sound, Attached, Resolves
      <4> HIDE DEF x, y, q
      <4>3. c = d /\ x.node = p => y.index \in DOMAIN r /\ r[y.index] = q[x.index]
        <5> SUFFICES ASSUME c = d, x.node = p
                     PROVE  y.index \in DOMAIN r /\ r[y.index] = q[x.index]
          OBVIOUS
        <5>1. x.index \in 1..Len(q) /\ x.index # i
          BY <1>1, <4>2
        <5>2. CASE x.index > i
          <6>1. y.index = x.index - 1
            BY <4>1, <5>1, <5>2
          <6>2. /\ x.index - 1 \in 1..(Len(q) - 1) /\ ~ (x.index - 1 < i)
                /\ (x.index - 1) + 1 = x.index
            BY <1>1, <5>1, <5>2
          <6> QED
            BY <2>4, <6>1, <6>2
        <5>3. CASE x.index < i
          BY <1>1, <1>3, <2>4, <4>1, <5>1, <5>3
        <5> QED
          BY <5>1, <5>2, <5>3
      <4> QED
        BY <4>1, <4>3 DEF x, y
    <3> QED
      BY <2>11, <2>12, <3>1 DEF EdgesFollow
  <2>15. Sound(t)
    BY <2>12, <2>13, <2>14, TableChange
  <2> QED
    BY <1>3, <2>12, <2>14, <2>15 DEF r
<1> QED
  BY <1>2, <1>3

(* What is unused stays so while another table changes.                    *)
LEMMA UnusedIsKept ==
  ASSUME NEW s, NEW t, NEW d \in Side, NEW p \in Path, NEW c \in Side, NEW a \in Path,
         c # d \/ a # p,
         Sound(s), Sound(t), OneTable(s, t, d, p), EdgesFollow(s, t, d, p)
  PROVE  Cardinality(Unused(s, c, a)) <= Cardinality(Unused(t, c, a))
<1>1. ASSUME NEW i \in Unused(s, c, a)
      PROVE  i \in Unused(t, c, a)
  <2>1. /\ i \in Ids[a] /\ i \in SlotId /\ s.conn[c][i] = <<>>
        /\ \A e \in EdgesOf(s) : s.edges[e][c].slot # i
        /\ \A b \in Path : \A k \in DOMAIN s.slots[c][b] : s.slots[c][b][k].id # i
    BY UnusedFacts
  <2>2. t.conn[c][i] = <<>> /\ \A e \in EdgesOf(t) : t.edges[e][c].slot # i
    BY <2>1 DEF OneTable, EdgesFollow
  <2>3. ASSUME NEW b \in Path, NEW k \in DOMAIN t.slots[c][b]
        PROVE  t.slots[c][b][k].id # i
    <3>1. CASE c # d \/ b # p
      <4>1. t.slots[c][b] = s.slots[c][b]
        BY <3>1 DEF OneTable
      <4> QED
        BY <2>1, <4>1
    <3>2. CASE c = d /\ b = p
      <4>1. t.slots[c][b][k].id \in Ids[b] /\ b # a
        BY <3>2 DEF Sound, Owned
      <4> QED
        BY <2>1, <4>1, SlotAssumption
    <3> QED
      BY <3>1, <3>2
  <2>4. t.owner[c][i] = None
    BY <2>1, <2>3 DEF Sound, Owned
  <2> QED
    BY <2>1, <2>2, <2>3, <2>4 DEF Unused, IdsOf
<1>2. IsFiniteSet(Unused(t, c, a))
  BY UnusedFacts
<1> QED
  BY <1>1, <1>2, FS_Subset

(* The table of a new node, whatever was in its place: ids nothing uses.   *)
Filled(s, t, d, p) ==
  LET r == t.slots[d][p]
  IN  /\ OneTable(s, t, d, p) /\ t.edges = s.edges
      /\ DOMAIN r = 1..Len(Defs[p][d]) /\ Len(Defs[p][d]) \in Nat
      /\ Defs[p][d] = <<>> => r = <<>>
      /\ \A k \in DOMAIN r :
           /\ r[k].id \in Ids[p] /\ s.conn[d][r[k].id] = <<>>
           /\ s.owner[d][r[k].id] = None /\ t.owner[d][r[k].id] = <<p, k>>
      /\ \A i \in SlotId : (\A k \in DOMAIN r : r[k].id # i) => t.owner[d][i] = s.owner[d][i]

LEMMA FillFacts ==
  ASSUME NEW s \in States, NEW d \in Side, NEW p \in Path,
         Cardinality(Unused(s, d, p)) >= Len(Defs[p][d]),
         NEW t, t = Fill(s, d, p)
  PROVE  Filled(s, t, d, p)
<1> DEFINE D == Defs[p][d]
           s0 == [s EXCEPT !.slots[d][p] = <<>>]
           U == Unused(s0, d, p)
           slot(k) == [id |-> Nth(U, k), type |-> D[k].type, max |-> D[k].max]
           r == [k \in DOMAIN D |-> slot(k)]
           u == [s0 EXCEPT !.slots[d][p] = r]
<1>1. D \in Seq([type : Type, max : Nat \cup {None}])
  BY SlotAssumption
<1>2. /\ s0 \in States /\ s0.nodes = s.nodes /\ s0.edges = s.edges /\ s0.owner = s.owner
      /\ s0.conn = s.conn /\ s0.touching = s.touching /\ s0.changed = s.changed
      /\ s0.slots[d][p] = <<>>
      /\ \A c \in Side : \A a \in Path : c # d \/ a # p => s0.slots[c][a] = s.slots[c][a]
  <2>1. <<>> \in Seq(Slot)
    OBVIOUS
  <2>2. PICK none \in Seq(Slot) : none = <<>>
    BY <2>1
  <2>3. s0 = [s EXCEPT !.slots[d][p] = none]
    BY <2>2
  <2> HIDE DEF s0
  <2> QED
    BY <2>2, <2>3 DEF States
<1>3. t = Reindex(u, d, p, 1)
  BY DEF Fill
<1>4. /\ U \subseteq Ids[p] /\ U \subseteq SlotId /\ U \in SUBSET Nat /\ IsFiniteSet(U)
      /\ Cardinality(U) \in Nat
      /\ \A i \in U : s.conn[d][i] = <<>> /\ s.owner[d][i] = None
  <2> HIDE DEF s0
  <2>1. /\ U \subseteq Ids[p] /\ U \subseteq SlotId /\ U \in SUBSET Nat /\ IsFiniteSet(U)
        /\ Cardinality(U) \in Nat
        /\ \A i \in U : s0.conn[d][i] = <<>> /\ s0.owner[d][i] = None
    BY UnusedFacts
  <2> QED
    BY <1>2, <2>1
<1>5. Cardinality(Unused(s, d, p)) <= Cardinality(U) /\ Cardinality(Unused(s, d, p)) \in Nat
  <2>1. ASSUME NEW i \in Unused(s, d, p)
        PROVE  i \in U
    <3>1. /\ i \in Ids[p] /\ s0.owner[d][i] = None /\ s0.conn[d][i] = <<>>
          /\ \A e \in EdgesOf(s) : s.edges[e][d].slot # i
          /\ \A q \in Path : i \notin IdsOf(s.slots[d][q])
      BY <1>2 DEF Unused
    <3>2. \A e \in EdgesOf(s0) : s0.edges[e][d].slot # i
      BY <1>2, <3>1 DEF EdgesOf
    <3>3. \A q \in Path : i \notin IdsOf(s0.slots[d][q])
      <4> SUFFICES ASSUME NEW q \in Path
                   PROVE  i \notin IdsOf(s0.slots[d][q])
        OBVIOUS
      <4>1. CASE q = p
        BY <1>2, <4>1 DEF IdsOf
      <4>2. CASE q # p
        BY <1>2, <3>1, <4>2
      <4> QED
        BY <4>1, <4>2
    <3> HIDE DEF s0
    <3> QED
      BY <3>1, <3>2, <3>3 DEF Unused
  <2> QED
    BY <1>4, <2>1, UnusedFacts, FS_Subset
<1>6. DOMAIN D = 1..Len(D) /\ Len(D) \in Nat /\ Len(D) <= Cardinality(U)
  BY <1>1, <1>4, <1>5
<1> HIDE DEF D, U, s0
<1>7. ASSUME NEW k \in DOMAIN D
      PROVE  Nth(U, k) \in U /\ Cardinality({l \in U : l <= Nth(U, k)}) = k
  <2>1. k \in 1..Cardinality(U)
    BY <1>4, <1>6
  <2> QED
    BY <1>4, <2>1, NthHasRank
<1>8. ASSUME NEW k \in DOMAIN D
      PROVE  slot(k) \in Slot /\ slot(k).id = Nth(U, k)
  <2>1. D[k].type \in Type /\ D[k].max \in Nat \cup {None}
    <3> DEFINE Def == [type : Type, max : Nat \cup {None}]
    <3>1. D[k] \in Def
      <4>1. D \in Seq(Def)
        BY <1>1
      <4> HIDE DEF Def
      <4> QED
        BY <4>1
    <3> QED
      BY <3>1
  <2>2. Nth(U, k) \in SlotId
    BY <1>4, <1>7
  <2> QED
    BY <2>1, <2>2 DEF Slot
<1>9. r \in Seq(Slot) /\ DOMAIN r = DOMAIN D /\ \A k \in DOMAIN r : r[k].id = Nth(U, k)
  <2> HIDE DEF slot
  <2> QED
    BY <1>6, <1>8
<1>10. Distinct(r)
  <2> HIDE DEF r
  <2> SUFFICES ASSUME NEW k \in DOMAIN r, NEW l \in DOMAIN r, r[k].id = r[l].id
               PROVE  k = l
    BY DEF Distinct
  <2>1. Nth(U, k) = Nth(U, l)
    BY <1>9
  <2>2. /\ Cardinality({j \in U : j <= Nth(U, k)}) = k
        /\ Cardinality({j \in U : j <= Nth(U, l)}) = l
    BY <1>7, <1>9
  <2> QED
    BY <2>1, <2>2
<1> HIDE DEF r
<1>11. /\ u \in States /\ u.nodes = s.nodes /\ u.edges = s.edges /\ u.owner = s.owner
       /\ u.conn = s.conn /\ u.touching = s.touching /\ u.changed = s.changed
       /\ u.slots[d][p] = r
       /\ \A c \in Side : \A a \in Path : c # d \/ a # p => u.slots[c][a] = s.slots[c][a]
  <2>1. /\ u \in States /\ u.nodes = s0.nodes /\ u.edges = s0.edges /\ u.owner = s0.owner
        /\ u.conn = s0.conn /\ u.touching = s0.touching /\ u.changed = s0.changed
        /\ u.slots[d][p] = r
        /\ \A c \in Side : \A a \in Path : c # d \/ a # p => u.slots[c][a] = s0.slots[c][a]
    BY <1>2, <1>9 DEF States
  <2> HIDE DEF u
  <2> QED
    BY <1>2, <2>1
<1> HIDE DEF u
<1>12. Reindexed(u, t, d, p, 1)
  BY <1>3, <1>10, <1>11, ReindexFacts
<1> USE DEF Reindexed
<1>13. OneTable(s, t, d, p) /\ t.edges = s.edges /\ t.slots[d][p] = r
  BY <1>11, <1>12 DEF OneTable
<1>14. \A k \in DOMAIN r : k >= 1
  BY <1>6, <1>9
<1>15. \A k \in DOMAIN r : t.owner[d][r[k].id] = <<p, k>>
  BY <1>11, <1>12, <1>14
<1>16. \A i \in SlotId : (\A k \in DOMAIN r : r[k].id # i) => t.owner[d][i] = s.owner[d][i]
  BY <1>11, <1>12
<1>17. \A k \in DOMAIN r :
         r[k].id \in Ids[p] /\ s.conn[d][r[k].id] = <<>> /\ s.owner[d][r[k].id] = None
  BY <1>4, <1>7, <1>9
<1>18. D = <<>> => r = <<>>
  BY <1>9
<1> QED
  BY <1>6, <1>9, <1>13, <1>15, <1>16, <1>17, <1>18 DEF D, Filled

(* The table of a new node.                                                *)
LEMMA FillIsSound ==
  ASSUME NEW s, Sound(s), NEW d \in Side, NEW p \in Path,
         s.slots[d][p] = <<>>,
         Cardinality(Unused(s, d, p)) >= Len(Defs[p][d]),
         NEW t, t = Fill(s, d, p)
  PROVE  /\ Sound(t) /\ OneTable(s, t, d, p) /\ EdgesFollow(s, t, d, p)
         /\ Defs[p][d] = <<>> => t.slots[d][p] = <<>>
         /\ DOMAIN t.slots[d][p] = 1..Len(Defs[p][d])
<1> DEFINE r == t.slots[d][p]
<1>1. s \in States
  BY DEF Sound
<1>2. /\ OneTable(s, t, d, p) /\ t.edges = s.edges
      /\ DOMAIN r = 1..Len(Defs[p][d])
      /\ \A k \in DOMAIN r :
           /\ r[k].id \in Ids[p] /\ s.conn[d][r[k].id] = <<>> /\ t.owner[d][r[k].id] = <<p, k>>
      /\ \A i \in SlotId : (\A k \in DOMAIN r : r[k].id # i) => t.owner[d][i] = s.owner[d][i]
  <2>1. Filled(s, t, d, p)
    BY <1>1, FillFacts
  <2> QED
    BY <2>1 DEF Filled
<1>3. EdgesOf(t) = EdgesOf(s)
  BY <1>2 DEF EdgesOf
<1>4. SlotsFollow(s, t, d, p)
  <2>1. ~ \E k \in DOMAIN s.slots[d][p] : TRUE
    OBVIOUS
  <2> QED
    BY <1>2, <2>1 DEF SlotsFollow
<1>5. EdgesFollow(s, t, d, p)
  <2>1. \A e \in EdgesOf(s) : s.edges[e][d].node # p
    BY DEF Sound, Attached, Resolves
  <2> QED
    BY <1>2, <1>3, <2>1 DEF EdgesFollow
<1>6. Defs[p][d] = <<>> => r = <<>>
  BY <1>1, FillFacts DEF Filled
<1> QED
  BY <1>2, <1>4, <1>5, <1>6, TableChange

-----------------------------------------------------------------------------
(* The methods that change edges, nodes and the order of connections keep  *)
(* the invariant, and mark whom they should.                               *)

LEMMA OnceWithout ==
  ASSUME NEW S, NEW q \in Seq(S), NEW D, NEW E, Once(q, D)
  PROVE  Once(Without(q, E), D \ E)
<1> DEFINE r == Without(q, E)
<1>1. /\ \A k \in DOMAIN r : \E i \in DOMAIN q : q[i] \notin E /\ r[k] = q[i]
      /\ \A i \in DOMAIN q : q[i] \notin E => \E k \in DOMAIN r : r[k] = q[i]
      /\ \A k, l \in DOMAIN r : r[k] = r[l] => k = l
  BY WithoutFacts DEF Once
<1> HIDE DEF r
<1>2. \A k \in DOMAIN r : r[k] \in D \ E
  BY <1>1 DEF Once
<1>3. \A e \in D \ E : \E k \in DOMAIN r : r[k] = e
  BY <1>1 DEF Once
<1> QED
  BY <1>1, <1>2, <1>3 DEF Once, r

LEMMA OnceAppend ==
  ASSUME NEW S, NEW q \in Seq(S), NEW D, NEW e \in S, Once(q, D), e \notin D
  PROVE  Once(Append(q, e), D \cup {e})
<1> DEFINE r == Append(q, e)
           n == Len(q)
<1>1. /\ n \in Nat /\ DOMAIN q = 1..n /\ DOMAIN r = 1..(n + 1) /\ r[n + 1] = e
      /\ \A k \in 1..n : r[k] = q[k]
  OBVIOUS
<1> HIDE DEF r, n
<1>2. \A k \in 1..(n + 1) : k = n + 1 \/ k \in 1..n
  BY <1>1
<1>3. n + 1 \in 1..(n + 1) /\ \A k \in 1..n : k \in 1..(n + 1)
  BY <1>1
<1>4. \A k \in DOMAIN r : r[k] \in D \cup {e}
  BY <1>1, <1>2 DEF Once
<1>5. \A x \in D \cup {e} : \E k \in DOMAIN r : r[k] = x
  BY <1>1, <1>3 DEF Once
<1>6. \A k, l \in DOMAIN r : r[k] = r[l] => k = l
  BY <1>1, <1>2 DEF Once
<1> QED
  BY <1>4, <1>5, <1>6 DEF Once, r

LEMMA OwnedElsewhere ==
  ASSUME NEW s, NEW t, t.slots = s.slots, t.owner = s.owner, Owned(s)
  PROVE  Owned(t)
<1>1. ASSUME NEW d \in Side, NEW i \in SlotId, t.owner[d][i] # None
      PROVE  \E p \in Path : \E k \in DOMAIN t.slots[d][p] :
               t.owner[d][i] = <<p, k>> /\ t.slots[d][p][k].id = i
  BY <1>1 DEF Owned
<1>2. ASSUME NEW d \in Side, NEW p \in Path, NEW k \in DOMAIN t.slots[d][p]
      PROVE  t.slots[d][p][k].id \in Ids[p] /\ t.owner[d][t.slots[d][p][k].id] = <<p, k>>
  <2>1. k \in DOMAIN s.slots[d][p]
    OBVIOUS
  <2>2. s.slots[d][p][k].id \in Ids[p] /\ s.owner[d][s.slots[d][p][k].id] = <<p, k>>
    BY <2>1 DEF Owned
  <2> QED
    BY <2>2
<1> QED
  BY <1>1, <1>2 DEF Owned

LEMMA FiledElsewhere ==
  ASSUME NEW s, NEW t, t.edges = s.edges, t.conn = s.conn, t.touching = s.touching, Filed(s)
  PROVE  Filed(t)
<1>1. EdgesOf(t) = EdgesOf(s)
  BY DEF EdgesOf
<1>2. \A d \in Side : \A i \in SlotId :
        {e \in EdgesOf(t) : t.edges[e][d].slot = i} = {e \in EdgesOf(s) : s.edges[e][d].slot = i}
  BY <1>1
<1>3. \A d \in Side : \A p \in Path :
        {e \in EdgesOf(t) : t.edges[e][d].node = p} = {e \in EdgesOf(s) : s.edges[e][d].node = p}
  BY <1>1
<1> QED
  BY <1>2, <1>3 DEF Filed

(* Those of the edges in D that are filed under i, and that p has an end of.*)
FiledAmong(s, D, d, i) == {e \in D \cap EdgesOf(s) : s.edges[e][d].slot = i}
HeldAmong(s, D, d, p) == {e \in D \cap EdgesOf(s) : s.edges[e][d].node = p}

(* What remove_edge does to the record, whatever state it is in.            *)
LEMMA RemoveEdgesFacts ==
  ASSUME NEW s \in States, NEW D, NEW t, t = RemoveEdges(s, D)
  PROVE  /\ t \in States
         /\ t.nodes = s.nodes /\ t.slots = s.slots /\ t.owner = s.owner
         /\ EdgesOf(t) = EdgesOf(s) \ D
         /\ \A e \in EdgesOf(t) : t.edges[e] = s.edges[e]
         /\ \A d \in Side : \A i \in SlotId :
              t.conn[d][i] = Without(s.conn[d][i], FiledAmong(s, D, d, i))
         /\ \A d \in Side : \A p \in Path :
              t.touching[d][p] = Without(s.touching[d][p], HeldAmong(s, D, d, p))
         /\ t.changed = s.changed \cup {s.edges[e]["in"].node : e \in D \cap EdgesOf(s)}
<1> DEFINE gone == D \cap EdgesOf(s)
           g == [e \in EdgeId |-> IF e \in gone THEN None ELSE s.edges[e]]
           conn == [d \in Side |-> [i \in SlotId |-> Without(s.conn[d][i], FiledAmong(s, D, d, i))]]
           touching == [d \in Side |-> [p \in Path |-> Without(s.touching[d][p], HeldAmong(s, D, d, p))]]
           changed == s.changed \cup {s.edges[e]["in"].node : e \in gone}
<1>1. t = [s EXCEPT !.edges = g, !.conn = conn, !.touching = touching, !.changed = changed]
  BY DEF RemoveEdges, FiledAmong, HeldAmong
<1>2. g \in [EdgeId -> Edge \cup {None}]
  BY DEF States
<1>3. conn \in [Side -> [SlotId -> Seq(EdgeId)]]
  <2>1. \A d \in Side : \A i \in SlotId : Without(s.conn[d][i], FiledAmong(s, D, d, i)) \in Seq(EdgeId)
    BY WithoutFacts DEF States
  <2> QED
    BY <2>1
<1>4. touching \in [Side -> [Path -> Seq(EdgeId)]]
  <2>1. \A d \in Side : \A p \in Path : Without(s.touching[d][p], HeldAmong(s, D, d, p)) \in Seq(EdgeId)
    BY WithoutFacts DEF States
  <2> QED
    BY <2>1
<1>5. changed \in SUBSET Path
  <2>1. ASSUME NEW e \in gone
        PROVE  s.edges[e]["in"].node \in Path
    <3>1. s.edges[e] \in Edge
      BY DEF EdgesOf, States
    <3> QED
      BY <3>1 DEF Edge, End, Side
  <2> QED
    BY <2>1 DEF States
<1> HIDE DEF g, conn, touching, changed
<1>6. /\ t \in States /\ t.nodes = s.nodes /\ t.slots = s.slots /\ t.owner = s.owner
      /\ t.edges = g /\ t.conn = conn /\ t.touching = touching /\ t.changed = changed
  BY <1>1, <1>2, <1>3, <1>4, <1>5 DEF States
<1>7. EdgesOf(t) = EdgesOf(s) \ D /\ \A e \in EdgesOf(t) : t.edges[e] = s.edges[e]
  BY <1>6 DEF EdgesOf, g
<1> QED
  BY <1>6, <1>7 DEF conn, touching, changed

LEMMA RemoveEdgesIsSound ==
  ASSUME NEW s, Sound(s), NEW D, NEW t, t = RemoveEdges(s, D)
  PROVE  /\ Sound(t)
         /\ t.nodes = s.nodes /\ t.slots = s.slots /\ t.owner = s.owner
         /\ EdgesOf(t) = EdgesOf(s) \ D
         /\ \A e \in EdgesOf(t) : t.edges[e] = s.edges[e]
<1>1. s \in States
  BY DEF Sound
<1>2. /\ t \in States /\ t.nodes = s.nodes /\ t.slots = s.slots /\ t.owner = s.owner
      /\ \A d \in Side : \A i \in SlotId : t.conn[d][i] = Without(s.conn[d][i], FiledAmong(s, D, d, i))
      /\ \A d \in Side : \A p \in Path : t.touching[d][p] = Without(s.touching[d][p], HeldAmong(s, D, d, p))
  BY <1>1, RemoveEdgesFacts
<1>3. EdgesOf(t) = EdgesOf(s) \ D /\ \A e \in EdgesOf(t) : t.edges[e] = s.edges[e]
  BY <1>1, RemoveEdgesFacts
<1>4. Filed(t)
  <2>1. ASSUME NEW d \in Side, NEW i \in SlotId
        PROVE  Once(t.conn[d][i], {e \in EdgesOf(t) : t.edges[e][d].slot = i})
    <3>1. t.conn[d][i] = Without(s.conn[d][i], FiledAmong(s, D, d, i)) /\ s.conn[d][i] \in Seq(EdgeId)
      BY <1>1, <1>2 DEF States
    <3>2. Once(s.conn[d][i], {e \in EdgesOf(s) : s.edges[e][d].slot = i})
      BY DEF Sound, Filed
    <3>3. {e \in EdgesOf(t) : t.edges[e][d].slot = i}
            = {e \in EdgesOf(s) : s.edges[e][d].slot = i} \ FiledAmong(s, D, d, i)
      BY <1>3 DEF FiledAmong
    <3> QED
      BY <3>1, <3>2, <3>3, OnceWithout
  <2>2. ASSUME NEW d \in Side, NEW p \in Path
        PROVE  Once(t.touching[d][p], {e \in EdgesOf(t) : t.edges[e][d].node = p})
    <3>1. t.touching[d][p] = Without(s.touching[d][p], HeldAmong(s, D, d, p)) /\ s.touching[d][p] \in Seq(EdgeId)
      BY <1>1, <1>2 DEF States
    <3>2. Once(s.touching[d][p], {e \in EdgesOf(s) : s.edges[e][d].node = p})
      BY DEF Sound, Filed
    <3>3. {e \in EdgesOf(t) : t.edges[e][d].node = p}
            = {e \in EdgesOf(s) : s.edges[e][d].node = p} \ HeldAmong(s, D, d, p)
      BY <1>3 DEF HeldAmong
    <3> QED
      BY <3>1, <3>2, <3>3, OnceWithout
  <2> QED
    BY <2>1, <2>2 DEF Filed
<1>5. Owned(t)
  BY <1>2, OwnedElsewhere DEF Sound
<1>6. Attached(t)
  BY <1>2, <1>3 DEF Sound, Attached, Resolves
<1>7. SameTypes(t)
  BY <1>2, <1>3 DEF Sound, SameTypes, SlotAt
<1>8. Limited(t)
  <2> SUFFICES ASSUME NEW p \in Path, NEW k \in DOMAIN t.slots["in"][p], t.slots["in"][p][k].max # None
               PROVE  Len(t.conn["in"][t.slots["in"][p][k].id]) <= t.slots["in"][p][k].max
    BY DEF Limited
  <2>1. PICK slot : slot = s.slots["in"][p][k]
    OBVIOUS
  <2>2. slot.max # None /\ Len(s.conn["in"][slot.id]) <= slot.max
    BY <1>2, <2>1 DEF Sound, Limited
  <2>3. slot \in Slot
    <3>1. s.slots["in"][p] \in Seq(Slot)
      BY <1>1 DEF States, Side
    <3> QED
      BY <1>2, <2>1, <3>1
  <2>4. slot.id \in SlotId /\ slot.max \in Nat /\ "in" \in Side
    BY <2>2, <2>3 DEF Slot, Side
  <2>5. t.conn["in"][slot.id] = Without(s.conn["in"][slot.id], FiledAmong(s, D, "in", slot.id))
    BY <1>2, <2>4
  <2>6. s.conn["in"][slot.id] \in Seq(EdgeId)
    BY <1>1, <2>4 DEF States
  <2>7. /\ Len(t.conn["in"][slot.id]) <= Len(s.conn["in"][slot.id])
        /\ t.conn["in"][slot.id] \in Seq(EdgeId)
    BY <2>5, <2>6, WithoutFacts
  <2>8. Len(t.conn["in"][slot.id]) \in Nat /\ Len(s.conn["in"][slot.id]) \in Nat
    BY <2>6, <2>7
  <2>9. Len(t.conn["in"][slot.id]) <= slot.max
    BY <2>2, <2>4, <2>7, <2>8
  <2>10. t.slots["in"][p][k] = slot
    BY <1>2, <2>1
  <2> QED
    BY <2>9, <2>10
<1> QED
  BY <1>2, <1>3, <1>4, <1>5, <1>6, <1>7, <1>8 DEF Sound

(* What remove_node does to the record.                                    *)
LEMMA RemoveNodesFacts ==
  ASSUME NEW s \in States, NEW P \in SUBSET Path, NEW t, t = RemoveNodes(s, P)
  PROVE  LET u == RemoveEdges(s, {e \in EdgesOf(s) : \E d \in Side : s.edges[e][d].node \in P})
         IN  /\ t \in States /\ u \in States
             /\ t.nodes = s.nodes \ P
             /\ \A d \in Side : \A p \in Path :
                  t.slots[d][p] = IF p \in P THEN <<>> ELSE s.slots[d][p]
             /\ \A d \in Side : \A i \in SlotId :
                  t.owner[d][i] = IF i \in UNION {IdsOf(s.slots[d][p]) : p \in P}
                                  THEN None ELSE s.owner[d][i]
             /\ t.edges = u.edges /\ t.conn = u.conn /\ t.touching = u.touching
             /\ t.changed = u.changed
             /\ EdgesOf(t) = EdgesOf(u) /\ EdgesOf(t) \subseteq EdgesOf(s)
             /\ \A e \in EdgesOf(t) :
                  t.edges[e] = s.edges[e] /\ \A d \in Side : t.edges[e][d].node \notin P
             /\ t.changed \subseteq s.changed \cup {s.edges[e]["in"].node : e \in EdgesOf(s)}
<1> DEFINE D == {e \in EdgesOf(s) : \E d \in Side : s.edges[e][d].node \in P}
           u == RemoveEdges(s, D)
           gone(d) == UNION {IdsOf(s.slots[d][p]) : p \in P}
           slots == [d \in Side |-> [p \in Path |-> IF p \in P THEN <<>> ELSE s.slots[d][p]]]
           owner == [d \in Side |-> [i \in SlotId |-> IF i \in gone(d) THEN None ELSE s.owner[d][i]]]
<1>1. t = [u EXCEPT !.nodes = u.nodes \ P, !.slots = slots, !.owner = owner]
  BY DEF RemoveNodes
<1>2. /\ u \in States /\ u.nodes = s.nodes /\ u.slots = s.slots /\ u.owner = s.owner
      /\ EdgesOf(u) = EdgesOf(s) \ D /\ \A e \in EdgesOf(u) : u.edges[e] = s.edges[e]
      /\ u.changed = s.changed \cup {s.edges[e]["in"].node : e \in D \cap EdgesOf(s)}
  BY RemoveEdgesFacts
<1>3. \A e \in EdgesOf(u) : \A d \in Side : u.edges[e][d].node \notin P
  BY <1>2
<1>4. u.changed \subseteq s.changed \cup {s.edges[e]["in"].node : e \in EdgesOf(s)}
  BY <1>2
<1> HIDE DEF u, D
<1>5. slots \in [Side -> [Path -> Seq(Slot)]]
  BY DEF States
<1>6. owner \in [Side -> [SlotId -> (Path \X Nat) \cup {None}]]
  BY DEF States
<1>7. \A d \in Side : \A p \in Path : slots[d][p] = IF p \in P THEN <<>> ELSE s.slots[d][p]
  OBVIOUS
<1>8. \A d \in Side : \A i \in SlotId : owner[d][i] = IF i \in gone(d) THEN None ELSE s.owner[d][i]
  OBVIOUS
<1> HIDE DEF slots, owner
<1>9. u.nodes \ P \in SUBSET Path
  BY <1>2 DEF States
<1>10. /\ t \in States /\ t.nodes = u.nodes \ P /\ t.slots = slots /\ t.owner = owner
       /\ t.edges = u.edges /\ t.conn = u.conn /\ t.touching = u.touching
       /\ t.changed = u.changed
  BY <1>1, <1>2, <1>5, <1>6, <1>9 DEF States
<1>11. EdgesOf(t) = EdgesOf(u) /\ EdgesOf(t) \subseteq EdgesOf(s)
  BY <1>2, <1>10 DEF EdgesOf
<1>12. \A e \in EdgesOf(t) : t.edges[e] = s.edges[e] /\ \A d \in Side : t.edges[e][d].node \notin P
  BY <1>2, <1>3, <1>10, <1>11
<1> HIDE DEF gone
<1>13. /\ \A d \in Side : \A p \in Path : t.slots[d][p] = IF p \in P THEN <<>> ELSE s.slots[d][p]
       /\ \A d \in Side : \A i \in SlotId :
            t.owner[d][i] = IF i \in gone(d) THEN None ELSE s.owner[d][i]
  BY <1>7, <1>8, <1>10
<1> QED
  BY <1>2, <1>4, <1>10, <1>11, <1>12, <1>13 DEF u, D, gone

LEMMA RemoveNodesIsSound ==
  ASSUME NEW s, Sound(s), NEW P \in SUBSET Path, NEW t, t = RemoveNodes(s, P)
  PROVE  /\ Sound(t)
         /\ t.nodes = s.nodes \ P
         /\ \A d \in Side : \A p \in Path :
              t.slots[d][p] = IF p \in P THEN <<>> ELSE s.slots[d][p]
<1> DEFINE D == {e \in EdgesOf(s) : \E d \in Side : s.edges[e][d].node \in P}
           u == RemoveEdges(s, D)
           gone(d) == UNION {IdsOf(s.slots[d][p]) : p \in P}
<1>1. /\ Sound(u) /\ u.nodes = s.nodes /\ u.slots = s.slots /\ u.owner = s.owner
      /\ EdgesOf(u) = EdgesOf(s) \ D /\ \A e \in EdgesOf(u) : u.edges[e] = s.edges[e]
  BY RemoveEdgesIsSound
<1>2. \A e \in EdgesOf(u) : \A d \in Side : u.edges[e][d].node \notin P
  BY <1>1
<1>3. u \in States /\ s \in States
  BY <1>1 DEF Sound
<1>4. /\ t \in States /\ t.nodes = s.nodes \ P
      /\ t.edges = u.edges /\ t.conn = u.conn /\ t.touching = u.touching /\ EdgesOf(t) = EdgesOf(u)
  BY <1>3, RemoveNodesFacts
<1>5. /\ \A d \in Side : \A p \in Path : t.slots[d][p] = IF p \in P THEN <<>> ELSE s.slots[d][p]
      /\ \A d \in Side : \A i \in SlotId :
           t.owner[d][i] = IF i \in gone(d) THEN None ELSE s.owner[d][i]
  BY <1>3, RemoveNodesFacts
<1> HIDE DEF u, D
<1>6. Filed(t)
  BY <1>1, <1>4, FiledElsewhere DEF Sound
<1>7. Owned(t)
  <2>1. Owned(s)
    BY DEF Sound
  <2>2. ASSUME NEW d \in Side, NEW i \in SlotId, t.owner[d][i] # None
        PROVE  \E p \in Path : \E k \in DOMAIN t.slots[d][p] :
                 t.owner[d][i] = <<p, k>> /\ t.slots[d][p][k].id = i
    <3>1. i \notin gone(d) /\ t.owner[d][i] = s.owner[d][i]
      BY <1>5, <2>2
    <3>2. PICK p \in Path : \E k \in DOMAIN s.slots[d][p] :
            s.owner[d][i] = <<p, k>> /\ s.slots[d][p][k].id = i
      BY <2>1, <2>2, <3>1 DEF Owned
    <3>3. p \notin P
      BY <3>1, <3>2 DEF IdsOf
    <3>4. t.slots[d][p] = s.slots[d][p]
      BY <1>4, <1>5, <3>3
    <3> QED
      BY <3>1, <3>2, <3>4
  <2>3. ASSUME NEW d \in Side, NEW p \in Path, NEW k \in DOMAIN t.slots[d][p]
        PROVE  t.slots[d][p][k].id \in Ids[p] /\ t.owner[d][t.slots[d][p][k].id] = <<p, k>>
    <3>1. p \notin P /\ t.slots[d][p] = s.slots[d][p]
      BY <1>4, <1>5
    <3>2. PICK i : i = s.slots[d][p][k].id
      OBVIOUS
    <3>3. k \in DOMAIN s.slots[d][p]
      BY <3>1
    <3>4. i \in Ids[p] /\ s.owner[d][i] = <<p, k>>
      BY <2>1, <3>2, <3>3 DEF Owned
    <3>5. i \in SlotId
      BY <3>4 DEF SlotId
    <3>6. i \notin gone(d)
      <4> SUFFICES ASSUME NEW a \in P, NEW l \in DOMAIN s.slots[d][a], s.slots[d][a][l].id = i
                   PROVE  FALSE
        BY DEF IdsOf
      <4>1. s.slots[d][a][l].id \in Ids[a]
        BY <2>1 DEF Owned
      <4> QED
        BY <3>1, <3>4, <4>1, SlotAssumption
    <3>7. t.owner[d][i] = s.owner[d][i]
      BY <1>5, <3>5, <3>6
    <3> QED
      BY <3>1, <3>2, <3>4, <3>7
  <2> QED
    BY <2>2, <2>3 DEF Owned
<1>8. ASSUME NEW e \in EdgesOf(t), NEW d \in Side
       PROVE  /\ e \in EdgesOf(u) /\ t.edges[e] = u.edges[e]
              /\ u.edges[e][d].node \in u.nodes \ P
              /\ t.slots[d][u.edges[e][d].node] = u.slots[d][u.edges[e][d].node]
  <2>1. e \in EdgesOf(u) /\ t.edges[e] = u.edges[e]
    BY <1>4
  <2>2. u.edges[e][d].node \in u.nodes \ P
    BY <1>1, <1>2, <2>1 DEF Sound, Attached, Resolves
  <2>3. u.edges[e][d].node \in Path
    BY <1>3, <2>2 DEF States
  <2> QED
    BY <1>1, <1>4, <1>5, <2>1, <2>2, <2>3
<1>9. Attached(t)
  <2> SUFFICES ASSUME NEW e \in EdgesOf(t), NEW d \in Side
               PROVE  Resolves(t, d, t.edges[e][d])
    BY DEF Attached, Resolves
  <2>1. /\ e \in EdgesOf(u) /\ t.edges[e] = u.edges[e]
        /\ u.edges[e][d].node \in u.nodes \ P
        /\ t.slots[d][u.edges[e][d].node] = u.slots[d][u.edges[e][d].node]
    BY <1>8
  <2>2. Attached(u)
    BY <1>1 DEF Sound
  <2>3. Resolves(u, d, u.edges[e][d])
    BY <2>1, <2>2 DEF Attached
  <2>4. t.nodes = u.nodes \ P
    BY <1>1, <1>4
  <2> QED
    BY <2>1, <2>3, <2>4 DEF Resolves
<1>10. SameTypes(t)
  <2>1. ASSUME NEW e \in EdgesOf(t), NEW d \in Side
        PROVE  SlotAt(t, d, e) = SlotAt(u, d, e)
    <3>1. t.edges[e] = u.edges[e] /\ t.slots[d][u.edges[e][d].node] = u.slots[d][u.edges[e][d].node]
      BY <1>8
    <3> QED
      BY <3>1 DEF SlotAt
  <2>2. SameTypes(u) /\ "in" \in Side /\ "out" \in Side
    BY <1>1 DEF Sound, Side
  <2> QED
    BY <1>4, <2>1, <2>2 DEF SameTypes
<1>11. Limited(t)
  <2>1. Limited(u) /\ "in" \in Side
    BY <1>1 DEF Sound, Side
  <2> SUFFICES ASSUME NEW p \in Path, NEW k \in DOMAIN t.slots["in"][p], t.slots["in"][p][k].max # None
               PROVE  Len(t.conn["in"][t.slots["in"][p][k].id]) <= t.slots["in"][p][k].max
    BY DEF Limited
  <2>2. t.slots["in"][p] = u.slots["in"][p]
    BY <1>1, <1>4, <1>5, <2>1
  <2> QED
    BY <1>4, <2>1, <2>2 DEF Limited
<1> QED
  BY <1>4, <1>5, <1>6, <1>7, <1>9, <1>10, <1>11 DEF Sound

(* What add_edge_with_id has checked.                                      *)
Connectable(s, x) ==
  /\ \A d \in Side : Resolves(s, d, x[d])
  /\ s.slots["in"][x["in"].node][x["in"].index].type
       = s.slots["out"][x["out"].node][x["out"].index].type
  /\ s.slots["in"][x["in"].node][x["in"].index].max # None
       => Len(s.conn["in"][x["in"].slot]) < s.slots["in"][x["in"].node][x["in"].index].max

(* What add_edge does to the record.                                       *)
LEMMA AddEdgeFacts ==
  ASSUME NEW s \in States, NEW e \in EdgeId, NEW x \in Edge, s.edges[e] = None,
         NEW t, t = AddEdge(s, e, x)
  PROVE  /\ t \in States
         /\ t.nodes = s.nodes /\ t.slots = s.slots /\ t.owner = s.owner
         /\ EdgesOf(t) = EdgesOf(s) \cup {e} /\ e \notin EdgesOf(s)
         /\ t.edges[e] = x /\ \A f \in EdgesOf(s) : t.edges[f] = s.edges[f]
         /\ \A d \in Side : \A i \in SlotId :
              t.conn[d][i] = IF i = x[d].slot THEN Append(s.conn[d][i], e) ELSE s.conn[d][i]
         /\ \A d \in Side : \A p \in Path :
              t.touching[d][p] = IF p = x[d].node THEN Append(s.touching[d][p], e) ELSE s.touching[d][p]
         /\ t.changed = s.changed \cup {x["in"].node}
<1> DEFINE edges == [s.edges EXCEPT ![e] = x]
           conn == [d \in Side |-> [s.conn[d] EXCEPT ![x[d].slot] = Append(@, e)]]
           touching == [d \in Side |-> [s.touching[d] EXCEPT ![x[d].node] = Append(@, e)]]
           changed == s.changed \cup {x["in"].node}
<1>1. \A d \in Side : x[d] \in End /\ x[d].node \in Path /\ x[d].slot \in SlotId
  BY DEF Edge, End
<1>2. t = [s EXCEPT !.edges = edges, !.conn = conn, !.touching = touching, !.changed = changed]
  BY DEF AddEdge
<1>3. \A d \in Side : \A i \in SlotId :
        conn[d][i] = IF i = x[d].slot THEN Append(s.conn[d][i], e) ELSE s.conn[d][i]
  BY <1>1 DEF States
<1>4. \A d \in Side : \A p \in Path :
        touching[d][p] = IF p = x[d].node THEN Append(s.touching[d][p], e) ELSE s.touching[d][p]
  BY <1>1 DEF States
<1>5. edges \in [EdgeId -> Edge \cup {None}]
  BY DEF States
<1>6. conn \in [Side -> [SlotId -> Seq(EdgeId)]]
  <2>1. \A d \in Side : s.conn[d] \in [SlotId -> Seq(EdgeId)]
    BY DEF States
  <2>2. \A d \in Side : [s.conn[d] EXCEPT ![x[d].slot] = Append(@, e)] \in [SlotId -> Seq(EdgeId)]
    BY <1>1, <2>1
  <2> QED
    BY <2>2
<1>7. touching \in [Side -> [Path -> Seq(EdgeId)]]
  <2>1. \A d \in Side : s.touching[d] \in [Path -> Seq(EdgeId)]
    BY DEF States
  <2>2. \A d \in Side : [s.touching[d] EXCEPT ![x[d].node] = Append(@, e)] \in [Path -> Seq(EdgeId)]
    BY <1>1, <2>1
  <2> QED
    BY <2>2
<1>8. changed \in SUBSET Path
  BY <1>1 DEF States, Side
<1> HIDE DEF edges, conn, touching, changed
<1>9. /\ t \in States /\ t.nodes = s.nodes /\ t.slots = s.slots /\ t.owner = s.owner
       /\ t.edges = edges /\ t.conn = conn /\ t.touching = touching /\ t.changed = changed
  BY <1>2, <1>5, <1>6, <1>7, <1>8 DEF States
<1>10. /\ EdgesOf(t) = EdgesOf(s) \cup {e} /\ e \notin EdgesOf(s)
       /\ t.edges[e] = x /\ \A f \in EdgesOf(s) : t.edges[f] = s.edges[f]
  <2>1. s.edges \in [EdgeId -> Edge \cup {None}] /\ x # None
    BY NoneAssumption DEF States
  <2> QED
    BY <1>9, <2>1 DEF EdgesOf, edges
<1> QED
  BY <1>3, <1>4, <1>9, <1>10 DEF changed

LEMMA AddEdgeIsSound ==
  ASSUME NEW s, Sound(s), NEW e \in EdgeId, NEW x \in Edge, s.edges[e] = None,
         Connectable(s, x),
         NEW t, t = AddEdge(s, e, x)
  PROVE  Sound(t) /\ t.nodes = s.nodes /\ t.slots = s.slots
<1>1. s \in States
  BY DEF Sound
<1>2. \A d \in Side : x[d] \in End /\ x[d].node \in Path /\ x[d].slot \in SlotId
  BY DEF Edge, End
<1>3. /\ t \in States /\ t.nodes = s.nodes /\ t.slots = s.slots /\ t.owner = s.owner
      /\ EdgesOf(t) = EdgesOf(s) \cup {e} /\ e \notin EdgesOf(s)
      /\ t.edges[e] = x /\ \A f \in EdgesOf(s) : t.edges[f] = s.edges[f]
  BY <1>1, AddEdgeFacts
<1>4. \A d \in Side : \A i \in SlotId :
        t.conn[d][i] = IF i = x[d].slot THEN Append(s.conn[d][i], e) ELSE s.conn[d][i]
  BY <1>1, AddEdgeFacts
<1>5. \A d \in Side : \A p \in Path :
        t.touching[d][p] = IF p = x[d].node THEN Append(s.touching[d][p], e) ELSE s.touching[d][p]
  BY <1>1, AddEdgeFacts
<1>6. Filed(t)
  <2>1. ASSUME NEW d \in Side, NEW i \in SlotId
        PROVE  Once(t.conn[d][i], {f \in EdgesOf(t) : t.edges[f][d].slot = i})
    <3> DEFINE D == {f \in EdgesOf(s) : s.edges[f][d].slot = i}
    <3>1. Once(s.conn[d][i], D) /\ s.conn[d][i] \in Seq(EdgeId)
      <4>1. Filed(s)
        BY DEF Sound
      <4>2. Once(s.conn[d][i], D)
        BY <4>1 DEF Filed
      <4>3. s.conn[d][i] \in Seq(EdgeId)
        BY <1>1 DEF States
      <4> QED
        BY <4>2, <4>3
    <3>2. e \notin D
      BY <1>3
    <3>3. {f \in EdgesOf(t) : t.edges[f][d].slot = i} = IF i = x[d].slot THEN D \cup {e} ELSE D
      BY <1>3
    <3> HIDE DEF D
    <3>4. Once(Append(s.conn[d][i], e), D \cup {e})
      BY <3>1, <3>2, OnceAppend
    <3> QED
      BY <1>4, <1>3, <3>1, <3>3, <3>4
  <2>2. ASSUME NEW d \in Side, NEW p \in Path
        PROVE  Once(t.touching[d][p], {f \in EdgesOf(t) : t.edges[f][d].node = p})
    <3> DEFINE D == {f \in EdgesOf(s) : s.edges[f][d].node = p}
    <3>1. Once(s.touching[d][p], D) /\ s.touching[d][p] \in Seq(EdgeId)
      BY <1>1 DEF Sound, Filed, States
    <3>2. e \notin D
      BY <1>3
    <3>3. {f \in EdgesOf(t) : t.edges[f][d].node = p} = IF p = x[d].node THEN D \cup {e} ELSE D
      BY <1>3
    <3> HIDE DEF D
    <3>4. Once(Append(s.touching[d][p], e), D \cup {e})
      BY <3>1, <3>2, OnceAppend
    <3> QED
      BY <1>5, <1>3, <3>1, <3>3, <3>4
  <2> QED
    BY <2>1, <2>2 DEF Filed
<1>7. Owned(t)
  BY <1>3, OwnedElsewhere DEF Sound
<1>8. Attached(t)
  <2> SUFFICES ASSUME NEW f \in EdgesOf(t), NEW d \in Side
               PROVE  Resolves(t, d, t.edges[f][d])
    BY DEF Attached, Resolves
  <2>1. CASE f = e
    <3>1. Resolves(s, d, x[d])
      BY DEF Connectable
    <3> QED
      BY <1>3, <2>1, <3>1 DEF Resolves
  <2>2. CASE f # e
    <3>1. f \in EdgesOf(s) /\ t.edges[f] = s.edges[f]
      BY <1>3, <2>2
    <3>2. Resolves(s, d, s.edges[f][d])
      BY <3>1 DEF Sound, Attached
    <3> QED
      BY <1>3, <3>1, <3>2 DEF Resolves
  <2> QED
    BY <2>1, <2>2
<1>9. SameTypes(t)
  <2> SUFFICES ASSUME NEW f \in EdgesOf(t)
               PROVE  SlotAt(t, "in", f).type = SlotAt(t, "out", f).type
    BY DEF SameTypes
  <2>1. CASE f = e
    BY <1>3, <2>1 DEF SlotAt, Connectable
  <2>2. CASE f # e
    BY <1>3, <2>2 DEF SlotAt, Sound, SameTypes
  <2> QED
    BY <2>1, <2>2
<1>10. Limited(t)
  <2> DEFINE target == s.slots["in"][x["in"].node][x["in"].index]
  <2> SUFFICES ASSUME NEW p \in Path, NEW k \in DOMAIN t.slots["in"][p], t.slots["in"][p][k].max # None
               PROVE  Len(t.conn["in"][t.slots["in"][p][k].id]) <= t.slots["in"][p][k].max
    BY DEF Limited
  <2>1. PICK slot : slot = s.slots["in"][p][k]
    OBVIOUS
  <2>2. slot.max # None /\ Len(s.conn["in"][slot.id]) <= slot.max
    BY <1>3, <2>1 DEF Sound, Limited
  <2>3. "in" \in Side
    BY DEF Side
  <2>4. slot \in Slot
    <3>1. s.slots["in"][p] \in Seq(Slot)
      BY <1>1, <2>3 DEF States
    <3> QED
      BY <1>3, <2>1, <3>1
  <2>5. slot.id \in SlotId /\ slot.max \in Nat
    BY <2>2, <2>4 DEF Slot
  <2>6. s.conn["in"][slot.id] \in Seq(EdgeId)
    BY <1>1, <2>3, <2>5 DEF States
  <2>7. slot.id = x["in"].slot => slot = target
    <3> SUFFICES ASSUME slot.id = x["in"].slot
                 PROVE  slot = target
      OBVIOUS
    <3>0. slot.id = x["in"].slot
      OBVIOUS
    <3>1. s.owner["in"][slot.id] = <<p, k>>
      <4>1. k \in DOMAIN s.slots["in"][p]
        BY <1>3
      <4> QED
        BY <2>1, <2>3, <4>1 DEF Sound, Owned
    <3>2. s.owner["in"][slot.id] = <<x["in"].node, x["in"].index>>
      <4>1. Resolves(s, "in", x["in"])
        BY <2>3 DEF Connectable
      <4>2. /\ x["in"].index \in DOMAIN s.slots["in"][x["in"].node]
            /\ s.slots["in"][x["in"].node][x["in"].index].id = x["in"].slot
        BY <4>1 DEF Resolves
      <4>3. s.owner["in"][s.slots["in"][x["in"].node][x["in"].index].id]
              = <<x["in"].node, x["in"].index>>
        BY <1>2, <2>3, <4>2 DEF Sound, Owned
      <4> QED
        BY <3>0, <4>2, <4>3
    <3>3. <<p, k>> = <<x["in"].node, x["in"].index>>
      BY <3>1, <3>2
    <3>4. p = x["in"].node /\ k = x["in"].index
      BY <3>3
    <3> QED
      BY <2>1, <3>4
  <2>8. Len(t.conn["in"][slot.id]) <= slot.max
    <3>1. CASE slot.id = x["in"].slot
      <4>1. t.conn["in"][slot.id] = Append(s.conn["in"][slot.id], e)
        BY <1>4, <1>3, <2>3, <2>5, <3>1
      <4>2. Len(s.conn["in"][slot.id]) < slot.max
        <5>1. slot = target
          BY <2>7, <3>1
        <5> QED
          BY <2>2, <3>1, <5>1 DEF Connectable
      <4>3. Len(Append(s.conn["in"][slot.id], e)) = Len(s.conn["in"][slot.id]) + 1
        BY <2>6
      <4> QED
        BY <2>5, <2>6, <4>1, <4>2, <4>3
    <3>2. CASE slot.id # x["in"].slot
      BY <1>4, <1>3, <2>2, <2>3, <2>5, <3>2
    <3> QED
      BY <3>1, <3>2
  <2>9. t.slots["in"][p][k] = slot
    BY <1>3, <2>1
  <2> QED
    BY <2>8, <2>9
<1> QED
  BY <1>3, <1>6, <1>7, <1>8, <1>9, <1>10 DEF Sound

(* An edge takes another place in the connection order of one of its slots.*)
LEMMA OnceMoved ==
  ASSUME NEW S, NEW q \in Seq(S), NEW D, NEW e \in D, NEW k \in DOMAIN q, Once(q, D)
  PROVE  LET r == InsertAt(Without(q, {e}), k, e)
         IN  Once(r, D) /\ r \in Seq(S) /\ Len(r) = Len(q)
<1> DEFINE w == Without(q, {e})
           r == InsertAt(w, k, e)
           n == Len(q)
<1>1. e \in S
  BY DEF Once
<1>2. w \in Seq(S) /\ Once(w, D \ {e})
  BY WithoutFacts, OnceWithout
<1>3. Len(w) = n - 1
  <2>1. PICK i \in DOMAIN q : q[i] = e
    BY DEF Once
  <2>2. DOMAIN q = 1..n /\ n \in Nat /\ i \in 1..n
    OBVIOUS
  <2>3. {j \in DOMAIN q : q[j] \notin {e}} = (1..n) \ {i}
    BY <2>1, <2>2 DEF Once
  <2>4. Cardinality((1..n) \ {i}) = n - 1
    <3>1. n \in Nat /\ i \in 1..n
      BY <2>2
    <3> HIDE DEF n
    <3>2. IsFiniteSet(1..n) /\ Cardinality(1..n) = n
      BY <3>1, FS_Interval
    <3> QED
      BY <3>1, <3>2, FS_RemoveElement
  <2>5. w = Retain(q, (1..n) \ {i})
    BY <2>3 DEF Without
  <2>6. (1..n) \ {i} \in SUBSET (DOMAIN q)
    BY <2>2
  <2> HIDE DEF w
  <2>7. Len(w) = Cardinality((1..n) \ {i})
    BY <2>5, <2>6, RetainType
  <2> QED
    BY <2>4, <2>7
<1> HIDE DEF w
<1>4. k \in 1..(Len(w) + 1) /\ n \in Nat /\ k \in Nat /\ Len(w) + 1 = n
  BY <1>3
<1>5. /\ r \in Seq(S) /\ Len(r) = n /\ DOMAIN r = 1..n
      /\ \A j \in 1..n : r[j] = IF j < k THEN w[j] ELSE IF j = k THEN e ELSE w[j - 1]
  <2>1. /\ r \in Seq(S) /\ Len(r) = Len(w) + 1 /\ DOMAIN r = 1..(Len(w) + 1)
        /\ \A j \in 1..(Len(w) + 1) : r[j] = IF j < k THEN w[j] ELSE IF j = k THEN e ELSE w[j - 1]
    <3>1. e \in S /\ w \in Seq(S) /\ k \in 1..(Len(w) + 1)
      BY <1>1, <1>2, <1>4
    <3>2. r \in Seq(S) /\ Len(r) = Len(w) + 1 /\ DOMAIN r = 1..(Len(w) + 1)
      BY <3>1, InsertAtFacts
    <3>3. \A j \in 1..(Len(w) + 1) :
            r[j] = IF j < k THEN w[j] ELSE IF j = k THEN e ELSE w[j - 1]
      <4>1. InsertedInto(r, w, k, e)
        BY <3>1, InsertAtIsInsertion
      <4> HIDE DEF r
      <4> QED
        BY <4>1 DEF InsertedInto
    <3> QED
      BY <3>2, <3>3
  <2> HIDE DEF r, n
  <2> QED
    BY <1>4, <2>1
<1>6. DOMAIN w = 1..(n - 1)
  BY <1>2, <1>3
<1> DEFINE old(j) == IF j < k THEN j ELSE j - 1
<1> HIDE DEF r, n
<1>7. k \in 1..n /\ r[k] = e
  BY <1>3, <1>4, <1>5
<1>8. \A j \in 1..n : j # k => old(j) \in DOMAIN w /\ r[j] = w[old(j)] /\ r[j] \in D \ {e}
  <2>1. \A j \in 1..n : j # k => old(j) \in DOMAIN w /\ r[j] = w[old(j)]
    BY <1>4, <1>5, <1>6, <1>7
  <2> HIDE DEF old
  <2> QED
    BY <1>2, <2>1 DEF Once
<1>9. \A j \in DOMAIN r : r[j] \in D
  BY <1>5, <1>7, <1>8
<1>10. ASSUME NEW x \in D
       PROVE  \E j \in DOMAIN r : r[j] = x
  <2>1. CASE x = e
    BY <1>5, <1>7, <2>1
  <2>2. CASE x # e
    <3>1. PICK j \in DOMAIN w : w[j] = x
      BY <1>2, <2>2 DEF Once
    <3>2. CASE j < k
      BY <1>4, <1>5, <1>6, <3>1, <3>2
    <3>3. CASE ~ (j < k)
      <4>1. j + 1 \in 1..n /\ ~ (j + 1 < k) /\ j + 1 # k /\ (j + 1) - 1 = j
        BY <1>4, <1>6, <3>3
      <4> QED
        BY <1>5, <3>1, <4>1
    <3> QED
      BY <3>2, <3>3
  <2> QED
    BY <2>1, <2>2
<1>11. ASSUME NEW i \in DOMAIN r, NEW j \in DOMAIN r, r[i] = r[j]
       PROVE  i = j
  <2>1. CASE i = k \/ j = k
    BY <1>5, <1>7, <1>8, <1>11, <2>1
  <2>2. CASE i # k /\ j # k
    <3>1. old(i) \in DOMAIN w /\ old(j) \in DOMAIN w /\ w[old(i)] = w[old(j)]
      BY <1>5, <1>8, <1>11, <2>2
    <3>2. old(i) = old(j)
      BY <1>2, <3>1 DEF Once
    <3> QED
      BY <1>4, <1>5, <2>2, <3>2
  <2> QED
    BY <2>1, <2>2
<1> QED
  BY <1>5, <1>9, <1>10, <1>11 DEF Once, r, w, n

(* Sound looks at neither the changed set nor the order of connections,    *)
(* and more nodes do not harm it.                                          *)
LEMMA SoundElsewhere ==
  ASSUME NEW s, Sound(s), NEW t \in States, s.nodes \subseteq t.nodes,
         t.slots = s.slots, t.owner = s.owner, t.edges = s.edges,
         Filed(t), \A i \in SlotId : Len(t.conn["in"][i]) = Len(s.conn["in"][i])
  PROVE  Sound(t)
<1>1. EdgesOf(t) = EdgesOf(s)
  BY DEF EdgesOf
<1>2. Owned(t)
  BY OwnedElsewhere DEF Sound
<1>3. Attached(t)
  BY <1>1 DEF Sound, Attached, Resolves
<1>4. SameTypes(t)
  BY <1>1 DEF Sound, SameTypes, SlotAt
<1>5. Limited(t)
  <2> SUFFICES ASSUME NEW p \in Path, NEW k \in DOMAIN t.slots["in"][p], t.slots["in"][p][k].max # None
               PROVE  Len(t.conn["in"][t.slots["in"][p][k].id]) <= t.slots["in"][p][k].max
    BY DEF Limited
  <2>1. PICK slot : slot = s.slots["in"][p][k]
    OBVIOUS
  <2>2. slot.max # None /\ Len(s.conn["in"][slot.id]) <= slot.max
    BY <2>1 DEF Sound, Limited
  <2>3. slot.id \in Ids[p]
    BY <2>1 DEF Sound, Owned, Side
  <2>4. slot.id \in SlotId
    BY <2>3 DEF SlotId
  <2> QED
    BY <2>1, <2>2, <2>4
<1> QED
  BY <1>2, <1>3, <1>4, <1>5 DEF Sound

LEMMA MarkingIsSound ==
  ASSUME NEW s, Sound(s), NEW C \in SUBSET Path, NEW t, t = [s EXCEPT !.changed = C]
  PROVE  Sound(t) /\ t.nodes = s.nodes /\ t.slots = s.slots
<1>1. /\ t \in States /\ t.nodes = s.nodes /\ t.slots = s.slots /\ t.owner = s.owner
      /\ t.edges = s.edges /\ t.conn = s.conn /\ t.touching = s.touching
  BY DEF Sound, States
<1>2. Filed(t)
  BY <1>1, FiledElsewhere DEF Sound
<1> QED
  BY <1>1, <1>2, SoundElsewhere

(* What a slot delivers, and whom a change of it marks.                    *)
Source(s, e) == <<s.edges[e]["out"].node, s.edges[e]["out"].slot>>

SameFeed(s, t, i) ==
  /\ t.conn["in"][i] = s.conn["in"][i]
  /\ \A e \in EdgesOf(s) : s.edges[e]["in"].slot = i =>
       e \in EdgesOf(t) /\ t.edges[e]["in"].slot = i /\ Source(t, e) = Source(s, e)

(* A slot of p delivers what it did, and p has the edges in that it had, or *)
(* p is marked.                                                            *)
Noted(s, t) ==
  /\ s.changed \subseteq t.changed
  /\ \A p \in Path : \A i \in Ids[p] : p \in t.changed \/ SameFeed(s, t, i)
  /\ \A p \in Path : p \in t.changed \/ t.touching["in"][p] = s.touching["in"][p]

(* An edge comes from where it did.                                        *)
Rooted(s, t) == \A e \in EdgesOf(s) \cap EdgesOf(t) : Source(t, e) = Source(s, e)

Marked(s, t) == Noted(s, t) /\ EdgesOf(t) \subseteq EdgesOf(s) /\ Rooted(s, t)

LEMMA MarkedTransitive ==
  ASSUME NEW s, NEW t, NEW u, Marked(s, t), Marked(t, u)
  PROVE  Marked(s, u)
<1>1. s.changed \subseteq u.changed
  BY DEF Marked, Noted
<1>2. ASSUME NEW p \in Path, NEW i \in Ids[p], p \notin u.changed
      PROVE  SameFeed(s, u, i)
  <2>1. SameFeed(t, u, i)
    BY <1>2 DEF Marked, Noted
  <2>2. SameFeed(s, t, i)
    BY <1>2 DEF Marked, Noted
  <2> QED
    BY <2>1, <2>2 DEF SameFeed
<1>3. \A p \in Path : p \in u.changed \/ u.touching["in"][p] = s.touching["in"][p]
  BY DEF Marked, Noted
<1>4. EdgesOf(u) \subseteq EdgesOf(s) /\ Rooted(s, u)
  BY DEF Marked, Rooted
<1> QED
  BY <1>1, <1>2, <1>3, <1>4 DEF Marked, Noted

LEMMA MarkedTable ==
  ASSUME NEW s, NEW t, NEW d \in Side, NEW p \in Path, OneTable(s, t, d, p), EdgesFollow(s, t, d, p)
  PROVE  Marked(s, t)
<1>1. t.changed = s.changed /\ t.conn = s.conn /\ t.touching = s.touching
  BY DEF OneTable
<1>2. EdgesOf(t) = EdgesOf(s) /\ \A e \in EdgesOf(s) : \A c \in Side :
        e \in EdgesOf(t) /\ t.edges[e][c].node = s.edges[e][c].node
        /\ t.edges[e][c].slot = s.edges[e][c].slot
  BY DEF EdgesFollow
<1>3. \A i : SameFeed(s, t, i)
  BY <1>1, <1>2 DEF SameFeed, Source, Side
<1>4. Rooted(s, t)
  BY <1>2 DEF Rooted, Source, Side
<1> QED
  BY <1>1, <1>2, <1>3, <1>4 DEF Marked, Noted

LEMMA MarkedElsewhere ==
  ASSUME NEW s, NEW t, t.edges = s.edges, t.conn["in"] = s.conn["in"],
         t.touching["in"] = s.touching["in"], s.changed \subseteq t.changed
  PROVE  Marked(s, t)
<1>1. EdgesOf(t) = EdgesOf(s)
  BY DEF EdgesOf
<1> QED
  BY <1>1 DEF Marked, Noted, Rooted, SameFeed, Source

LEMMA AddNodeIsSound ==
  ASSUME NEW s, Sound(s), NEW p \in Path,
         \A d \in Side : s.slots[d][p] = <<>> /\ Cardinality(Unused(s, d, p)) >= Len(Defs[p][d]),
         NEW t, t = AddNode(s, p)
  PROVE  /\ Sound(t) /\ t.nodes = s.nodes \cup {p} /\ Marked(s, t) /\ p \in t.changed
         /\ \A d \in Side : \A q \in Path \ {p} : t.slots[d][q] = s.slots[d][q]
         /\ \A d \in Side : Defs[p][d] = <<>> => t.slots[d][p] = <<>>
         /\ \A d \in Side : DOMAIN t.slots[d][p] = 1..Len(Defs[p][d])
<1> DEFINE u == Fill(s, "in", p)
           v == Fill(u, "out", p)
<1>1. "in" \in Side /\ "out" \in Side /\ \A d \in Side : d = "in" \/ d = "out"
  BY DEF Side
<1>2. t = [v EXCEPT !.nodes = v.nodes \cup {p}, !.changed = v.changed \cup {p}]
  BY DEF AddNode
<1>3. /\ Sound(u) /\ OneTable(s, u, "in", p) /\ EdgesFollow(s, u, "in", p)
      /\ Defs[p]["in"] = <<>> => u.slots["in"][p] = <<>>
      /\ DOMAIN u.slots["in"][p] = 1..Len(Defs[p]["in"])
  BY <1>1, FillIsSound
<1> HIDE DEF u
<1>4. Cardinality(Unused(s, "out", p)) <= Cardinality(Unused(u, "out", p))
  BY <1>1, <1>3, UnusedIsKept
<1>5. u.slots["out"][p] = <<>>
  BY <1>1, <1>3 DEF OneTable
<1>6. Cardinality(Unused(u, "out", p)) >= Len(Defs[p]["out"])
  <2>1. Cardinality(Unused(s, "out", p)) \in Nat /\ Cardinality(Unused(u, "out", p)) \in Nat
    BY UnusedFacts
  <2>2. Len(Defs[p]["out"]) \in Nat
    BY <1>1, SlotAssumption
  <2> QED
    BY <1>1, <1>4, <2>1, <2>2
<1>7. /\ Sound(v) /\ OneTable(u, v, "out", p) /\ EdgesFollow(u, v, "out", p)
      /\ Defs[p]["out"] = <<>> => v.slots["out"][p] = <<>>
      /\ DOMAIN v.slots["out"][p] = 1..Len(Defs[p]["out"])
  BY <1>1, <1>3, <1>5, <1>6, FillIsSound
<1> HIDE DEF v
<1>8. v \in States
  BY <1>7 DEF Sound
<1>9. /\ t \in States /\ t.nodes = v.nodes \cup {p} /\ t.slots = v.slots /\ t.owner = v.owner
      /\ t.edges = v.edges /\ t.conn = v.conn /\ t.touching = v.touching
  <2>1. v.nodes \cup {p} \in SUBSET Path /\ v.changed \cup {p} \in SUBSET Path
    BY <1>8 DEF States
  <2> QED
    BY <1>2, <1>8, <2>1 DEF States
<1>10. Filed(t)
  BY <1>7, <1>9, FiledElsewhere DEF Sound
<1>11. Sound(t)
  BY <1>7, <1>9, <1>10, SoundElsewhere
<1>12. \A d \in Side : \A q \in Path \ {p} : t.slots[d][q] = s.slots[d][q]
  BY <1>3, <1>7, <1>9 DEF OneTable
<1>13. \A d \in Side : Defs[p][d] = <<>> => t.slots[d][p] = <<>>
  BY <1>1, <1>3, <1>7, <1>9 DEF OneTable
<1>14. t.nodes = s.nodes \cup {p}
  BY <1>3, <1>7, <1>9 DEF OneTable
<1>15. Marked(s, t) /\ p \in t.changed
  <2>1. Marked(s, u) /\ Marked(u, v)
    <3>1. Marked(s, u)
      BY <1>1, <1>3, MarkedTable
    <3>2. Marked(u, v)
      BY <1>1, <1>7, MarkedTable
    <3> QED
      BY <3>1, <3>2
  <2>2. t.changed = v.changed \cup {p}
    BY <1>2, <1>8 DEF States
  <2>3. Marked(v, t)
    BY <1>9, <2>2, MarkedElsewhere
  <2>4. Marked(s, t)
    BY <2>1, <2>3, MarkedTransitive
  <2> QED
    BY <2>2, <2>4
<1>16. \A d \in Side : DOMAIN t.slots[d][p] = 1..Len(Defs[p][d])
  BY <1>1, <1>3, <1>7, <1>9 DEF OneTable
<1> QED
  BY <1>11, <1>12, <1>13, <1>14, <1>15, <1>16

(* The edge e takes place k among the connections of the slot i.           *)
Reordered(s, t, d, i, e, k, C) ==
  t = [s EXCEPT !.conn[d][i] = InsertAt(Without(@, {e}), k, e), !.changed = C]

LEMMA ReorderIsSound ==
  ASSUME NEW s, Sound(s), NEW d \in Side, NEW e \in EdgesOf(s), NEW C \in SUBSET Path,
         NEW i, i = s.edges[e][d].slot, NEW k \in DOMAIN s.conn[d][i],
         NEW t, Reordered(s, t, d, i, e, k, C)
  PROVE  Sound(t) /\ t.nodes = s.nodes /\ t.slots = s.slots
<1> DEFINE q == s.conn[d][i]
           r == InsertAt(Without(q, {e}), k, e)
           D == {f \in EdgesOf(s) : s.edges[f][d].slot = i}
           conn == [s.conn EXCEPT ![d] = [@ EXCEPT ![i] = r]]
<1>1. s \in States /\ Filed(s)
  BY DEF Sound
<1>2. i \in SlotId
  BY <1>1 DEF EdgesOf, States, Edge, End
<1>3. q \in Seq(EdgeId)
  BY <1>1, <1>2 DEF States
<1>4. Once(q, D)
  BY <1>1, <1>2 DEF Filed
<1>5. e \in D
  OBVIOUS
<1> HIDE DEF D
<1>6. Once(r, D) /\ r \in Seq(EdgeId) /\ Len(r) = Len(q)
  <2>1. k \in DOMAIN q
    OBVIOUS
  <2> HIDE DEF q
  <2> QED
    BY <1>3, <1>4, <1>5, <2>1, OnceMoved
<1>7. t = [s EXCEPT !.conn = conn, !.changed = C]
  BY DEF Reordered
<1> HIDE DEF r
<1>8. conn \in [Side -> [SlotId -> Seq(EdgeId)]]
  BY <1>1, <1>2, <1>6 DEF States
<1>9. \A c \in Side : \A j \in SlotId : conn[c][j] = IF c = d /\ j = i THEN r ELSE s.conn[c][j]
  BY <1>1, <1>2 DEF States
<1> HIDE DEF conn
<1>10. /\ t \in States /\ t.nodes = s.nodes /\ t.slots = s.slots /\ t.owner = s.owner
       /\ t.edges = s.edges /\ t.conn = conn /\ t.touching = s.touching
  BY <1>1, <1>7, <1>8 DEF States
<1>11. EdgesOf(t) = EdgesOf(s)
  BY <1>10 DEF EdgesOf
<1>12. Filed(t)
  <2>1. ASSUME NEW c \in Side, NEW j \in SlotId
        PROVE  Once(t.conn[c][j], {f \in EdgesOf(t) : t.edges[f][c].slot = j})
    <3>1. {f \in EdgesOf(t) : t.edges[f][c].slot = j} = {f \in EdgesOf(s) : s.edges[f][c].slot = j}
      BY <1>10, <1>11
    <3>2. CASE c = d /\ j = i
      <4>1. t.conn[c][j] = r
        <5>1. conn[c][j] = r
          BY <1>9, <3>2
        <5> QED
          BY <1>10, <5>1
      <4>2. {f \in EdgesOf(s) : s.edges[f][c].slot = j} = D
        BY <3>2 DEF D
      <4> QED
        BY <1>6, <3>1, <4>1, <4>2
    <3>3. CASE ~ (c = d /\ j = i)
      <4>1. t.conn[c][j] = s.conn[c][j]
        BY <1>9, <1>10, <3>3
      <4>2. Once(s.conn[c][j], {f \in EdgesOf(s) : s.edges[f][c].slot = j})
        BY <1>1 DEF Filed
      <4> QED
        BY <3>1, <4>1, <4>2
    <3> QED
      BY <3>2, <3>3
  <2>2. ASSUME NEW c \in Side, NEW p \in Path
        PROVE  Once(t.touching[c][p], {f \in EdgesOf(t) : t.edges[f][c].node = p})
    <3>1. {f \in EdgesOf(t) : t.edges[f][c].node = p} = {f \in EdgesOf(s) : s.edges[f][c].node = p}
      BY <1>10, <1>11
    <3>2. Once(s.touching[c][p], {f \in EdgesOf(s) : s.edges[f][c].node = p})
      BY <1>1 DEF Filed
    <3> QED
      BY <1>10, <3>1, <3>2
  <2> QED
    BY <2>1, <2>2 DEF Filed
<1>13. \A j \in SlotId : Len(t.conn["in"][j]) = Len(s.conn["in"][j])
  BY <1>6, <1>9, <1>10 DEF Side
<1> QED
  BY <1>10, <1>12, <1>13, SoundElsewhere

-----------------------------------------------------------------------------
(* The methods that change the connections mark whom they should.          *)

(* An edge filed under an id of p ends at p.                               *)
LEMMA FiledUnderItsNode ==
  ASSUME NEW s, Sound(s), NEW e \in EdgesOf(s), NEW d \in Side, NEW p \in Path,
         s.edges[e][d].slot \in Ids[p]
  PROVE  s.edges[e][d].node = p
<1> DEFINE x == s.edges[e][d]
<1>1. Resolves(s, d, x)
  BY DEF Sound, Attached
<1>2. x.node \in Path
  BY <1>1 DEF Resolves, Sound, States
<1>3. x.slot \in Ids[x.node]
  BY <1>1, <1>2 DEF Resolves, Sound, Owned
<1> HIDE DEF x
<1>4. x.slot \in Ids[p]
  BY DEF x
<1>5. x.node = p
  BY <1>2, <1>3, <1>4, SlotAssumption
<1> QED
  BY <1>5 DEF x

LEMMA WithoutNothing ==
  ASSUME NEW S, NEW q \in Seq(S)
  PROVE  Without(q, {}) = q
<1>1. {k \in DOMAIN q : q[k] \notin {}} = DOMAIN q
  OBVIOUS
<1> QED
  BY <1>1, RetainAll DEF Without

LEMMA RemoveEdgesMarks ==
  ASSUME NEW s, Sound(s), NEW D, NEW t, t = RemoveEdges(s, D)
  PROVE  Marked(s, t)
<1> DEFINE gone == D \cap EdgesOf(s)
           filed(i) == {e \in gone : s.edges[e]["in"].slot = i}
<1>1. EdgesOf(t) = EdgesOf(s) \ D /\ \A e \in EdgesOf(t) : t.edges[e] = s.edges[e]
  BY RemoveEdgesIsSound
<1>2. s \in States /\ "in" \in Side
  BY DEF Sound, Side
<1>3. t.changed = s.changed \cup {s.edges[e]["in"].node : e \in gone}
  BY <1>2 DEF RemoveEdges, States
<1>4. \A i \in SlotId : t.conn["in"][i] = Without(s.conn["in"][i], filed(i))
  BY <1>2 DEF RemoveEdges, States
<1>5. ASSUME NEW p \in Path, NEW i \in Ids[p], p \notin t.changed
      PROVE  SameFeed(s, t, i)
  <2>1. \A e \in EdgesOf(s) : s.edges[e]["in"].slot = i => e \notin D
    <3> SUFFICES ASSUME NEW e \in EdgesOf(s), s.edges[e]["in"].slot = i, e \in D
                 PROVE  FALSE
      OBVIOUS
    <3>1. s.edges[e]["in"].node = p
      BY <1>2, FiledUnderItsNode
    <3> QED
      BY <1>3, <1>5, <3>1
  <2>2. filed(i) = {}
    BY <2>1
  <2>3. i \in SlotId
    BY DEF SlotId
  <2>4. s.conn["in"][i] \in Seq(EdgeId)
    BY <1>2, <2>3 DEF States
  <2>5. t.conn["in"][i] = s.conn["in"][i]
    BY <1>4, <2>2, <2>3, <2>4, WithoutNothing
  <2> QED
    BY <1>1, <2>1, <2>5 DEF SameFeed, Source
<1>6. ASSUME NEW p \in Path, p \notin t.changed
      PROVE  t.touching["in"][p] = s.touching["in"][p]
  <2>1. \A e \in gone : s.edges[e]["in"].node # p
    BY <1>3, <1>6
  <2>2. t.touching["in"][p] = Without(s.touching["in"][p], HeldAmong(s, D, "in", p))
    BY <1>2, RemoveEdgesFacts
  <2>3. HeldAmong(s, D, "in", p) = {}
    BY <2>1 DEF HeldAmong
  <2>4. s.touching["in"][p] \in Seq(EdgeId)
    BY <1>2 DEF States
  <2> QED
    BY <2>2, <2>3, <2>4, WithoutNothing
<1>7. EdgesOf(t) \subseteq EdgesOf(s) /\ Rooted(s, t)
  BY <1>1 DEF Rooted, Source
<1> QED
  BY <1>3, <1>5, <1>6, <1>7 DEF Marked, Noted

LEMMA RemoveNodesMarks ==
  ASSUME NEW s, Sound(s), NEW P \in SUBSET Path
  PROVE  Marked(s, RemoveNodes(s, P))
<1> DEFINE u == RemoveEdges(s, {e \in EdgesOf(s) : \E d \in Side : s.edges[e][d].node \in P})
           t == RemoveNodes(s, P)
<1>1. Marked(s, u) /\ u \in States
  BY RemoveEdgesMarks, RemoveEdgesIsSound DEF Sound
<1>2. t.edges = u.edges /\ t.conn = u.conn /\ t.touching = u.touching /\ t.changed = u.changed
  <2> HIDE DEF u
  <2> QED
    BY <1>1 DEF RemoveNodes, States, u
<1>3. Marked(u, t)
  BY <1>2, MarkedElsewhere
<1> QED
  BY <1>1, <1>3, MarkedTransitive

LEMMA AddEdgeMarks ==
  ASSUME NEW s, Sound(s), NEW e \in EdgeId, NEW x \in Edge, s.edges[e] = None,
         Connectable(s, x),
         NEW t, t = AddEdge(s, e, x)
  PROVE  Noted(s, t) /\ Rooted(s, t)
<1>1. s \in States /\ "in" \in Side /\ "out" \in Side /\ x["in"] \in End
  BY DEF Sound, Side, Edge
<1>2. t.changed = s.changed \cup {x["in"].node}
  BY <1>1 DEF AddEdge, States
<1>3. \A i \in SlotId : i # x["in"].slot => t.conn["in"][i] = s.conn["in"][i]
  <2>1. t.conn = [d \in Side |-> [s.conn[d] EXCEPT ![x[d].slot] = Append(@, e)]]
    BY <1>1 DEF AddEdge, States
  <2>2. t.conn["in"] = [s.conn["in"] EXCEPT ![x["in"].slot] = Append(@, e)]
    BY <1>1, <2>1
  <2> QED
    BY <1>1, <2>2 DEF States
<1>4. \A f \in EdgesOf(s) : f \in EdgesOf(t) /\ t.edges[f] = s.edges[f]
  <2>1. t.edges = [s.edges EXCEPT ![e] = x]
    BY <1>1 DEF AddEdge, States
  <2> QED
    BY <1>1, <2>1 DEF EdgesOf, States
<1>5. ASSUME NEW p \in Path, NEW i \in Ids[p], p \notin t.changed
      PROVE  SameFeed(s, t, i)
  <2>1. i # x["in"].slot
    <3> SUFFICES ASSUME i = x["in"].slot
                 PROVE  FALSE
      OBVIOUS
    <3>1. Resolves(s, "in", x["in"])
      BY <1>1 DEF Connectable
    <3>2. x["in"].slot \in Ids[x["in"].node] /\ x["in"].node \in Path
      BY <1>1, <3>1 DEF Resolves, Sound, Owned, End
    <3>3. x["in"].node = p
      BY <3>2, SlotAssumption
    <3> QED
      BY <1>2, <1>5, <3>3
  <2>2. i \in SlotId
    BY DEF SlotId
  <2> QED
    BY <1>3, <1>4, <2>1, <2>2 DEF SameFeed, Source
<1>6. ASSUME NEW p \in Path, p \notin t.changed
      PROVE  t.touching["in"][p] = s.touching["in"][p]
  BY <1>1, <1>2, <1>6, AddEdgeFacts
<1>7. Rooted(s, t)
  BY <1>4 DEF Rooted, Source
<1> QED
  BY <1>2, <1>5, <1>6, <1>7 DEF Noted

LEMMA ReorderMarks ==
  ASSUME NEW s, Sound(s), NEW d \in Side, NEW e \in EdgesOf(s),
         NEW i, i = s.edges[e][d].slot, NEW k, NEW C, C = s.changed \cup {s.edges[e][d].node},
         NEW t, Reordered(s, t, d, i, e, k, C)
  PROVE  Marked(s, t)
<1>1. s \in States /\ "in" \in Side
  BY DEF Sound, Side
<1>2. t.changed = C /\ t.edges = s.edges /\ t.touching = s.touching
  BY <1>1 DEF Reordered, States
<1>3. \A j \in SlotId : ~ (d = "in" /\ j = i) => t.conn["in"][j] = s.conn["in"][j]
  <2> DEFINE r == InsertAt(Without(s.conn[d][i], {e}), k, e)
  <2>1. t.conn = [s.conn EXCEPT ![d] = [@ EXCEPT ![i] = r]]
    BY <1>1 DEF Reordered, States
  <2> HIDE DEF r
  <2> QED
    BY <1>1, <2>1 DEF States
<1>4. ASSUME NEW p \in Path, NEW j \in Ids[p], p \notin t.changed
      PROVE  SameFeed(s, t, j)
  <2>1. ~ (d = "in" /\ j = i)
    <3> SUFFICES ASSUME d = "in", j = i
                 PROVE  FALSE
      OBVIOUS
    <3>1. s.edges[e][d].node = p
      BY FiledUnderItsNode
    <3> QED
      BY <1>2, <1>4, <3>1
  <2>2. j \in SlotId
    BY DEF SlotId
  <2> QED
    BY <1>2, <1>3, <2>1, <2>2 DEF SameFeed, Source, EdgesOf
<1>5. EdgesOf(t) = EdgesOf(s) /\ Rooted(s, t)
  BY <1>2 DEF Rooted, Source, EdgesOf
<1> QED
  BY <1>2, <1>4, <1>5 DEF Marked, Noted

-----------------------------------------------------------------------------
(* Ports.                                                                  *)

Alike(q, r) == DOMAIN q = DOMAIN r /\ \A k \in DOMAIN q : q[k].type = r[k].type

(* Only a proxy holds slots while it is not there.                         *)
IsProxy(p) == \E g \in SubGraph : \E d \in Side : p = Proxy[g][d]

Vacant(s) == \A p \in Path \ s.nodes : ~ IsProxy(p) => \A d \in Side : s.slots[d][p] = <<>>

SamePorts(s) ==
  /\ \A p \in s.nodes \cap Interface : Alike(s.slots["in"][p], s.slots["out"][p])
  /\ \A g \in s.nodes \cap SubGraph : \A d \in Side :
       Proxy[g][d] \in s.nodes => Alike(s.slots[d][g], s.slots[d][Proxy[g][d]])

Good(s) == Sound(s) /\ Vacant(s) /\ SamePorts(s)

LEMMA AlikeInsert ==
  ASSUME NEW q \in Seq(Slot), NEW r \in Seq(Slot), Alike(q, r), NEW i \in 1..(Len(q) + 1),
         NEW x \in Slot, NEW y \in Slot, x.type = y.type
  PROVE  Alike(InsertAt(q, i, x), InsertAt(r, i, y))
<1> DEFINE n == Len(q)
           a == InsertAt(q, i, x)
           b == InsertAt(r, i, y)
<1>1. n \in Nat /\ i \in Nat /\ DOMAIN q = 1..n
  OBVIOUS
<1>2. Len(r) = n /\ DOMAIN r = 1..n /\ i \in 1..(Len(r) + 1)
  BY DEF Alike
<1>3. DOMAIN a = 1..(n + 1) /\ InsertedInto(a, q, i, x)
  BY InsertAtIsInsertion
<1>4. DOMAIN b = 1..(n + 1) /\ InsertedInto(b, r, i, y)
  BY <1>2, InsertAtIsInsertion
<1> HIDE DEF a, b
<1> SUFFICES ASSUME NEW k \in 1..(n + 1)
             PROVE  a[k].type = b[k].type
  BY <1>3, <1>4 DEF Alike, a, b
<1>5. a[k] = IF k < i THEN q[k] ELSE IF k = i THEN x ELSE q[k - 1]
  BY <1>3 DEF InsertedInto
<1>6. b[k] = IF k < i THEN r[k] ELSE IF k = i THEN y ELSE r[k - 1]
  BY <1>2, <1>4 DEF InsertedInto
<1>7. \A j \in 1..n : q[j].type = r[j].type
  BY <1>1 DEF Alike
<1> HIDE DEF n
<1>8. CASE k < i
  <2>1. k \in 1..n
    BY <1>1, <1>8 DEF n
  <2> QED
    BY <1>5, <1>6, <1>7, <1>8, <2>1
<1>9. CASE k = i
  BY <1>1, <1>5, <1>6, <1>9
<1>10. CASE k > i
  <2>1. k - 1 \in 1..n /\ ~ (k < i) /\ k # i
    BY <1>1, <1>10 DEF n
  <2> QED
    BY <1>5, <1>6, <1>7, <2>1
<1> QED
  BY <1>1, <1>8, <1>9, <1>10

LEMMA AlikeRemove ==
  ASSUME NEW q \in Seq(Slot), NEW r \in Seq(Slot), Alike(q, r), NEW i \in DOMAIN q
  PROVE  Alike(RemoveAt(q, i), RemoveAt(r, i))
<1> DEFINE n == Len(q)
           a == RemoveAt(q, i)
           b == RemoveAt(r, i)
<1>1. n \in Nat /\ i \in Nat /\ DOMAIN q = 1..n /\ i \in 1..Len(q)
  OBVIOUS
<1>2. Len(r) = n /\ i \in 1..Len(r)
  BY DEF Alike
<1>3. DOMAIN a = 1..(n - 1) /\ \A k \in 1..(n - 1) : a[k] = IF k < i THEN q[k] ELSE q[k + 1]
  BY <1>1, RemoveAtFacts
<1>4. DOMAIN b = 1..(n - 1) /\ \A k \in 1..(n - 1) : b[k] = IF k < i THEN r[k] ELSE r[k + 1]
  BY <1>2, RemoveAtFacts
<1>5. \A j \in 1..n : q[j].type = r[j].type
  BY <1>1 DEF Alike
<1> HIDE DEF a, b, n
<1> SUFFICES ASSUME NEW k \in 1..(n - 1)
             PROVE  a[k].type = b[k].type
  BY <1>3, <1>4 DEF Alike, a, b
<1>6. k \in 1..n /\ k + 1 \in 1..n
  BY <1>1
<1> QED
  BY <1>3, <1>4, <1>5, <1>6

(* A proxy is the proxy of one SubGraph, on one side.                      *)
LEMMA ProxiesDiffer ==
  ASSUME NEW g \in SubGraph, NEW d \in Side, NEW h \in SubGraph, NEW c \in Side,
         Proxy[g][d] = Proxy[h][c]
  PROVE  g = h /\ c = d
<1>1. Parent[Proxy[g][d]] = g /\ Parent[Proxy[h][c]] = h
  BY PathAssumption
<1>2. g = h
  BY <1>1
<1> QED
  BY <1>2, PathAssumption DEF Side

(* A port of a SubGraph is edited: the tables of the proxy and the         *)
(* external one, which stay alike.                                         *)
LEMMA SubGraphPortEdit ==
  ASSUME NEW s, NEW t, Good(s), Sound(t), NEW g \in SubGraph, NEW d \in Side,
         g \in s.nodes, t.nodes = s.nodes,
         \A c \in Side : \A a \in Path :
           a # Proxy[g][d] /\ (a # g \/ c # d) => t.slots[c][a] = s.slots[c][a],
         LET p == Proxy[g][d]
         IN  /\ Alike(s.slots["in"][p], s.slots["out"][p])
                  => Alike(t.slots["in"][p], t.slots["out"][p])
             /\ Alike(s.slots["in"][p], s.slots["out"][p]) /\ Alike(s.slots[d][g], s.slots[d][p])
                  => Alike(t.slots[d][g], t.slots[d][p])
  PROVE  Good(t)
<1> DEFINE p == Proxy[g][d]
<1>1. p \in Interface /\ p \in Path /\ g \in Path /\ g \notin Interface /\ "in" \in Side /\ "out" \in Side
  BY PathAssumption DEF Side
<1>2. Vacant(s) /\ SamePorts(s)
  BY DEF Good
<1>3. Vacant(t)
  <2> SUFFICES ASSUME NEW a \in Path, a \notin t.nodes, ~ IsProxy(a), NEW c \in Side
               PROVE  t.slots[c][a] = <<>>
    BY DEF Vacant
  <2>1. a # p /\ a # g
    BY DEF IsProxy
  <2> QED
    BY <1>2, <2>1 DEF Vacant
<1>4. ASSUME NEW a \in t.nodes \cap Interface
      PROVE  Alike(t.slots["in"][a], t.slots["out"][a])
  <2>1. Alike(s.slots["in"][a], s.slots["out"][a]) /\ a \in Path /\ a # g
    BY <1>1, <1>2, PathAssumption DEF SamePorts
  <2>2. CASE a = p
    BY <2>1, <2>2
  <2>3. CASE a # p
    BY <1>1, <2>1, <2>3
  <2> QED
    BY <2>2, <2>3
<1>5. ASSUME NEW h \in t.nodes \cap SubGraph, NEW c \in Side, Proxy[h][c] \in t.nodes
      PROVE  Alike(t.slots[c][h], t.slots[c][Proxy[h][c]])
  <2>1. Alike(s.slots[c][h], s.slots[c][Proxy[h][c]])
    BY <1>2, <1>5 DEF SamePorts
  <2>2. CASE h = g /\ c = d
    <3>1. Alike(s.slots["in"][p], s.slots["out"][p])
      BY <1>1, <1>2, <1>5, <2>2 DEF SamePorts
    <3> QED
      BY <2>1, <2>2, <3>1
  <2>3. CASE ~ (h = g /\ c = d)
    <3>1. Proxy[h][c] # p
      BY <2>3, ProxiesDiffer
    <3>2. Proxy[h][c] \in Interface /\ h \notin Interface /\ Proxy[h][c] \in Path /\ h \in Path
      BY PathAssumption
    <3>3. h # p /\ Proxy[h][c] # g
      BY <1>1, <3>2
    <3>4. t.slots[c][h] = s.slots[c][h]
      BY <2>3, <3>2, <3>3
    <3>5. t.slots[c][Proxy[h][c]] = s.slots[c][Proxy[h][c]]
      BY <3>1, <3>2, <3>3
    <3> QED
      BY <2>1, <3>4, <3>5
  <2> QED
    BY <2>2, <2>3
<1> QED
  BY <1>3, <1>4, <1>5 DEF Good, SamePorts

(* A port of an interface that is no proxy is edited.                      *)
LEMMA InterfacePortEdit ==
  ASSUME NEW s, NEW t, Good(s), Sound(t), NEW p \in Interface, Parent[p] = Root,
         p \in s.nodes, t.nodes = s.nodes,
         \A c \in Side : \A a \in Path : a # p => t.slots[c][a] = s.slots[c][a],
         Alike(s.slots["in"][p], s.slots["out"][p]) => Alike(t.slots["in"][p], t.slots["out"][p])
  PROVE  Good(t)
<1>1. "in" \in Side /\ "out" \in Side /\ \A h \in SubGraph : \A c \in Side : Proxy[h][c] # p
  BY PathAssumption DEF Side
<1>2. Vacant(s) /\ SamePorts(s)
  BY DEF Good
<1>3. Vacant(t)
  BY <1>2 DEF Vacant
<1>4. ASSUME NEW a \in t.nodes \cap Interface
      PROVE  Alike(t.slots["in"][a], t.slots["out"][a])
  <2>1. Alike(s.slots["in"][a], s.slots["out"][a]) /\ a \in Path
    BY <1>2, PathAssumption DEF SamePorts
  <2> QED
    BY <1>1, <2>1
<1>5. ASSUME NEW h \in t.nodes \cap SubGraph, NEW c \in Side, Proxy[h][c] \in t.nodes
      PROVE  Alike(t.slots[c][h], t.slots[c][Proxy[h][c]])
  <2>1. Alike(s.slots[c][h], s.slots[c][Proxy[h][c]])
    BY <1>2, <1>5 DEF SamePorts
  <2>2. Proxy[h][c] \in Path /\ h \in Path /\ h # p /\ Proxy[h][c] # p
    BY <1>1, PathAssumption
  <2> QED
    BY <2>1, <2>2
<1> QED
  BY <1>3, <1>4, <1>5 DEF Good, SamePorts

-----------------------------------------------------------------------------
(* Inserting a port.                                                       *)

(* One insertion, as the action sees it.                                   *)
Inserted(s, t, d, p, i, type) ==
  /\ Sound(t) /\ OneTable(s, t, d, p) /\ EdgesFollow(s, t, d, p)
  /\ \E slot \in Slot :
       /\ slot.type = type
       /\ t.slots[d][p] = InsertAt(s.slots[d][p], InsertedAt(s.slots[d][p], i), slot)

LEMMA InsertedMarks ==
  ASSUME NEW s, NEW t, NEW d \in Side, NEW p \in Path, NEW i, NEW type, Inserted(s, t, d, p, i, type)
  PROVE  Marked(s, t)
BY MarkedTable DEF Inserted

LEMMA InsertSlotInserts ==
  ASSUME NEW s, Sound(s), NEW d \in Side, NEW p \in Path, NEW i \in Nat \ {0},
         NEW type \in Type, NEW max \in Nat \cup {None},
         Cardinality(Unused(s, d, p)) >= 1
  PROVE  Inserted(s, InsertSlot(s, d, p, i, type, max), d, p, i, type)
BY InsertSlotIsSound DEF Inserted

LEMMA AddSlotInserts ==
  ASSUME NEW s, Sound(s), NEW d \in Side, NEW p \in Path,
         NEW type \in Type, NEW max \in Nat \cup {None},
         Cardinality(Unused(s, d, p)) >= 1
  PROVE  Inserted(s, AddSlot(s, d, p, type, max), d, p, Len(s.slots[d][p]) + 1, type)
<1>1. Len(s.slots[d][p]) + 1 \in Nat \ {0}
  <2>1. s.slots[d][p] \in Seq(Slot)
    BY DEF Sound, States
  <2> QED
    BY <2>1
<1> QED
  BY <1>1, AddSlotIsInsert, InsertSlotInserts

LEMMA StillUnused ==
  ASSUME NEW s, NEW t, NEW d \in Side, NEW p \in Path, NEW i, NEW type,
         Sound(s), Inserted(s, t, d, p, i, type), NEW c \in Side, NEW a \in Path, c # d \/ a # p,
         Cardinality(Unused(s, c, a)) >= 1
  PROVE  Cardinality(Unused(t, c, a)) >= 1
<1>1. Cardinality(Unused(s, c, a)) <= Cardinality(Unused(t, c, a))
  BY UnusedIsKept DEF Inserted
<1>2. Cardinality(Unused(s, c, a)) \in Nat /\ Cardinality(Unused(t, c, a)) \in Nat
  BY UnusedFacts
<1> QED
  BY <1>1, <1>2

(* Insertions into like tables at like positions.                          *)
LEMMA AlikeInserted ==
  ASSUME NEW q \in Seq(Slot), NEW r \in Seq(Slot), Alike(q, r),
         NEW i \in Nat \ {0}, NEW j \in Nat \ {0}, Len(q) = Len(r) => InsertedAt(q, i) = InsertedAt(r, j),
         NEW x \in Slot, NEW y \in Slot, x.type = y.type
  PROVE  Alike(InsertAt(q, InsertedAt(q, i), x), InsertAt(r, InsertedAt(r, j), y))
<1>1. Len(q) = Len(r)
  BY DEF Alike
<1>2. InsertedAt(q, i) \in 1..(Len(q) + 1)
  BY DEF InsertedAt
<1> QED
  BY <1>1, <1>2, AlikeInsert

LEMMA PortIsInserted ==
  ASSUME NEW s, NEW t, NEW u, NEW v, Good(s), NEW g \in SubGraph, NEW d \in Side, g \in s.nodes,
         NEW p, p = Proxy[g][d], NEW type,
         NEW i \in Nat \ {0}, NEW j \in Nat \ {0}, NEW k \in Nat \ {0},
         Inserted(s, t, "in", p, i, type), Inserted(t, u, "out", p, j, type), Inserted(u, v, d, g, k, type),
         Len(s.slots["in"][p]) = Len(s.slots["out"][p])
           => InsertedAt(s.slots["in"][p], i) = InsertedAt(s.slots["out"][p], j),
         Len(s.slots[d][g]) = Len(s.slots[d][p])
           => InsertedAt(s.slots[d][g], k) = InsertedAt(s.slots[d][p], IF d = "in" THEN i ELSE j)
  PROVE  Good(v) /\ Marked(s, v)
<1>1. p \in Interface /\ p \in Path /\ g \in Path /\ g # p /\ "in" \in Side /\ "out" \in Side /\ "in" # "out"
  BY PathAssumption DEF Side
<1>2. s \in States /\ Sound(v)
  BY DEF Good, Sound, Inserted
<1>3. \A c \in Side : \A a \in Path : s.slots[c][a] \in Seq(Slot)
  BY <1>2 DEF States
<1>4. v.nodes = s.nodes
  BY DEF Inserted, OneTable
<1>5. \A c \in Side : \A a \in Path : a # p /\ (a # g \/ c # d) => v.slots[c][a] = s.slots[c][a]
  BY DEF Inserted, OneTable
<1>6. PICK x \in Slot : x.type = type /\ t.slots["in"][p] = InsertAt(s.slots["in"][p], InsertedAt(s.slots["in"][p], i), x)
  BY DEF Inserted
<1>7. PICK y \in Slot : y.type = type /\ u.slots["out"][p] = InsertAt(t.slots["out"][p], InsertedAt(t.slots["out"][p], j), y)
  BY DEF Inserted
<1>8. PICK z \in Slot : z.type = type /\ v.slots[d][g] = InsertAt(u.slots[d][g], InsertedAt(u.slots[d][g], k), z)
  BY DEF Inserted
<1>9. /\ t.slots["out"][p] = s.slots["out"][p]
      /\ v.slots["in"][p] = t.slots["in"][p] /\ v.slots["out"][p] = u.slots["out"][p]
      /\ u.slots[d][g] = s.slots[d][g]
  BY <1>1 DEF Inserted, OneTable
<1>10. ASSUME Alike(s.slots["in"][p], s.slots["out"][p])
       PROVE  Alike(v.slots["in"][p], v.slots["out"][p])
  <2>1. s.slots["in"][p] \in Seq(Slot) /\ s.slots["out"][p] \in Seq(Slot)
    BY <1>1, <1>3
  <2> DEFINE q == s.slots["in"][p]
             r == s.slots["out"][p]
  <2>2. v.slots["in"][p] = InsertAt(q, InsertedAt(q, i), x)
    BY <1>6, <1>9
  <2>3. v.slots["out"][p] = InsertAt(r, InsertedAt(r, j), y)
    BY <1>7, <1>9
  <2>4. x.type = y.type /\ (Len(q) = Len(r) => InsertedAt(q, i) = InsertedAt(r, j))
    BY <1>6, <1>7
  <2>5. Alike(q, r)
    BY <1>10
  <2> HIDE DEF q, r
  <2>6. Alike(InsertAt(q, InsertedAt(q, i), x), InsertAt(r, InsertedAt(r, j), y))
    BY <2>1, <2>4, <2>5, AlikeInserted DEF q, r
  <2> QED
    BY <2>2, <2>3, <2>6
<1>11. ASSUME Alike(s.slots["in"][p], s.slots["out"][p]), Alike(s.slots[d][g], s.slots[d][p])
       PROVE  Alike(v.slots[d][g], v.slots[d][p])
  <2>1. s.slots[d][g] \in Seq(Slot) /\ s.slots[d][p] \in Seq(Slot)
    BY <1>1, <1>3
  <2>2. CASE d = "in"
    BY <1>6, <1>8, <1>9, <1>11, <2>1, <2>2, AlikeInserted
  <2>3. CASE d = "out"
    BY <1>7, <1>8, <1>9, <1>11, <2>1, <2>3, AlikeInserted
  <2> QED
    BY <2>2, <2>3 DEF Side
<1>12. Good(v)
  BY <1>2, <1>4, <1>5, <1>10, <1>11, SubGraphPortEdit
<1>13. Marked(s, t) /\ Marked(t, u) /\ Marked(u, v)
  BY <1>1, InsertedMarks
<1>14. Marked(s, u)
  BY <1>13, MarkedTransitive
<1> QED
  BY <1>12, <1>13, <1>14, MarkedTransitive

-----------------------------------------------------------------------------
(* The actions, one by one.                                                *)

LEMMA GoodElsewhere ==
  ASSUME NEW s, NEW t, Good(s), Sound(t), t.nodes = s.nodes, t.slots = s.slots
  PROVE  Good(t)
<1>1. Vacant(t)
  BY DEF Good, Vacant
<1>2. SamePorts(t)
  BY DEF Good, SamePorts
<1> QED
  BY <1>1, <1>2 DEF Good

LEMMA LockIsGood ==
  ASSUME NEW s, Good(s), NEW p \in Path, NEW locked
  PROVE  Good(Lock(s, p, locked)) /\ Marked(s, Lock(s, p, locked))
<1>1. CASE locked /\ p \in s.nodes
  <2> DEFINE t == [s EXCEPT !.changed = s.changed \cup {p}]
  <2>1. s.changed \cup {p} \in SUBSET Path
    BY DEF Good, Sound, States
  <2>2. Sound(t) /\ t.nodes = s.nodes /\ t.slots = s.slots
    BY <2>1, MarkingIsSound DEF Good
  <2>3. Lock(s, p, locked) = t
    BY <1>1 DEF Lock
  <2>4. Marked(s, t)
    <3>1. t.edges = s.edges /\ t.conn = s.conn /\ t.touching = s.touching /\ s.changed \subseteq t.changed
      BY DEF Good, Sound, States
    <3> HIDE DEF t
    <3> QED
      BY <3>1, MarkedElsewhere
  <2> HIDE DEF t
  <2> QED
    BY <2>2, <2>3, <2>4, GoodElsewhere
<1>2. CASE ~ (locked /\ p \in s.nodes)
  BY <1>2, MarkedElsewhere DEF Lock
<1> QED
  BY <1>1, <1>2

(* What the edits do to the nodes and the slot tables.                     *)
SameTables(s, t) == t.nodes = s.nodes /\ t.slots = s.slots

NodeAdded(s, t, p) ==
  /\ t.nodes = s.nodes \cup {p} /\ p \in t.changed
  /\ \A d \in Side : \A q \in Path \ {p} : t.slots[d][q] = s.slots[d][q]
  /\ \A d \in Side : DOMAIN t.slots[d][p] = 1..Len(Defs[p][d])

SubGraphAdded(s, t, g) ==
  LET paths == {g, Proxy[g]["in"], Proxy[g]["out"]}
  IN  /\ t.nodes = s.nodes \cup paths
      /\ \A p \in paths : \A d \in Side : s.slots[d][p] = <<>>
      /\ \A d \in Side : \A q \in Path : t.slots[d][q] = s.slots[d][q]

LEMMA CreateNodeStep ==
  ASSUME Good(ns), NEW p \in Path, \A d \in Side : ns.slots[d][p] = <<>>, CreateNode(p)
  PROVE  Good(ns') /\ Marked(ns, ns') /\ NodeAdded(ns, ns', p)
<1>1. ns' = AddNode(ns, p) /\ p \notin SubGraph /\ ~ IsProxy(p)
  BY DEF CreateNode, IsProxy
<1>2. \A d \in Side : ns.slots[d][p] = <<>> /\ Cardinality(Unused(ns, d, p)) >= Len(Defs[p][d])
  BY <1>1 DEF CreateNode, Fits
<1>3. /\ Sound(ns') /\ Marked(ns, ns') /\ ns'.nodes = ns.nodes \cup {p} /\ p \in ns'.changed
      /\ \A d \in Side : \A q \in Path \ {p} : ns'.slots[d][q] = ns.slots[d][q]
      /\ \A d \in Side : Defs[p][d] = <<>> => ns'.slots[d][p] = <<>>
      /\ \A d \in Side : DOMAIN ns'.slots[d][p] = 1..Len(Defs[p][d])
  BY <1>1, <1>2, AddNodeIsSound DEF Good
<1>4. Vacant(ns')
  BY <1>3 DEF Good, Vacant
<1>5. ASSUME NEW a \in ns'.nodes \cap Interface
      PROVE  Alike(ns'.slots["in"][a], ns'.slots["out"][a])
  <2>1. CASE a = p
    <3>1. \A d \in Side : Defs[p][d] = <<>>
      BY <2>1, PortDefsAssumption
    <3>2. ns'.slots["in"][a] = <<>> /\ ns'.slots["out"][a] = <<>>
      BY <1>3, <2>1, <3>1 DEF Side
    <3> QED
      BY <3>2 DEF Alike
  <2>2. CASE a # p
    <3>1. a \in Path \ {p} /\ a \in ns.nodes
      BY <1>3, <2>2, PathAssumption
    <3>2. Alike(ns.slots["in"][a], ns.slots["out"][a])
      BY <3>1 DEF Good, SamePorts
    <3> QED
      BY <1>3, <3>1, <3>2 DEF Side
  <2> QED
    BY <2>1, <2>2
<1>6. ASSUME NEW g \in ns'.nodes \cap SubGraph, NEW d \in Side, Proxy[g][d] \in ns'.nodes
      PROVE  Alike(ns'.slots[d][g], ns'.slots[d][Proxy[g][d]])
  <2>1. g # p /\ Proxy[g][d] # p
    BY <1>1 DEF IsProxy
  <2>2. g \in Path /\ Proxy[g][d] \in Path
    BY PathAssumption
  <2>3. Alike(ns.slots[d][g], ns.slots[d][Proxy[g][d]])
    BY <1>3, <1>6, <2>1 DEF Good, SamePorts
  <2> QED
    BY <1>3, <2>1, <2>2, <2>3
<1> QED
  BY <1>3, <1>4, <1>5, <1>6 DEF Good, SamePorts, NodeAdded

(* A node without slots.                                                   *)
LEMMA AddBareNode ==
  ASSUME NEW s, Sound(s), NEW p \in SubGraph \cup Interface, \A d \in Side : s.slots[d][p] = <<>>,
         NEW t, t = AddNode(s, p)
  PROVE  /\ Sound(t) /\ Marked(s, t) /\ t.nodes = s.nodes \cup {p}
         /\ \A d \in Side : \A q \in Path : t.slots[d][q] = s.slots[d][q]
<1>1. p \in Path /\ \A d \in Side : Defs[p][d] = <<>>
  BY PathAssumption, PortDefsAssumption
<1>2. \A d \in Side : Cardinality(Unused(s, d, p)) >= Len(Defs[p][d])
  <2>1. \A d \in Side : Cardinality(Unused(s, d, p)) \in Nat
    BY <1>1, UnusedFacts
  <2>2. Len(<<>>) = 0
    OBVIOUS
  <2> QED
    BY <1>1, <2>1, <2>2
<1>3. /\ Sound(t) /\ Marked(s, t) /\ t.nodes = s.nodes \cup {p}
      /\ \A d \in Side : \A q \in Path \ {p} : t.slots[d][q] = s.slots[d][q]
      /\ \A d \in Side : Defs[p][d] = <<>> => t.slots[d][p] = <<>>
  BY <1>1, <1>2, AddNodeIsSound
<1> QED
  BY <1>1, <1>3

LEMMA CreateSubGraphStep ==
  ASSUME Good(ns), NEW g \in SubGraph, CreateSubGraph(g)
  PROVE  Good(ns') /\ Marked(ns, ns') /\ SubGraphAdded(ns, ns', g)
<1> DEFINE a == Proxy[g]["in"]
           b == Proxy[g]["out"]
           t == AddNode(ns, g)
           u == AddNode(t, a)
<1>1. a \in Interface /\ b \in Interface /\ g \in Path /\ a \in Path /\ b \in Path
  BY PathAssumption DEF Side
<1>2. /\ g \notin ns.nodes /\ a \notin ns.nodes /\ b \notin ns.nodes
      /\ \A d \in Side : ns.slots[d][g] = <<>> /\ ns.slots[d][a] = <<>> /\ ns.slots[d][b] = <<>>
      /\ ns' = AddNode(u, b)
  BY DEF CreateSubGraph
<1> HIDE DEF a, b
<1>3. /\ Sound(t) /\ Marked(ns, t) /\ t.nodes = ns.nodes \cup {g}
      /\ \A d \in Side : \A q \in Path : t.slots[d][q] = ns.slots[d][q]
  BY <1>2, AddBareNode DEF Good
<1> HIDE DEF t
<1>4. /\ Sound(u) /\ Marked(t, u) /\ u.nodes = t.nodes \cup {a}
      /\ \A d \in Side : \A q \in Path : u.slots[d][q] = t.slots[d][q]
  BY <1>1, <1>2, <1>3, AddBareNode
<1> HIDE DEF u
<1>5. /\ Sound(ns') /\ Marked(u, ns') /\ ns'.nodes = u.nodes \cup {b}
      /\ \A d \in Side : \A q \in Path : ns'.slots[d][q] = u.slots[d][q]
  BY <1>1, <1>2, <1>3, <1>4, AddBareNode
<1>6. /\ ns'.nodes = ns.nodes \cup {g, a, b}
      /\ \A d \in Side : \A q \in Path : ns'.slots[d][q] = ns.slots[d][q]
  BY <1>3, <1>4, <1>5
<1>7. Vacant(ns')
  BY <1>6 DEF Good, Vacant
<1>8. ASSUME NEW p \in ns'.nodes \cap Interface
      PROVE  Alike(ns'.slots["in"][p], ns'.slots["out"][p])
  <2>1. ns'.slots["in"][p] = ns.slots["in"][p] /\ ns'.slots["out"][p] = ns.slots["out"][p]
    BY <1>6, PathAssumption DEF Side
  <2>2. CASE p \in ns.nodes
    BY <2>1, <2>2 DEF Good, SamePorts
  <2>3. CASE p \in {g, a, b}
    <3>1. ns.slots["in"][p] = <<>> /\ ns.slots["out"][p] = <<>>
      BY <1>2, <2>3 DEF Side
    <3> QED
      BY <2>1, <3>1 DEF Alike
  <2> QED
    BY <1>6, <2>2, <2>3
<1>9. ASSUME NEW h \in ns'.nodes \cap SubGraph, NEW d \in Side, Proxy[h][d] \in ns'.nodes
      PROVE  Alike(ns'.slots[d][h], ns'.slots[d][Proxy[h][d]])
  <2>1. /\ Proxy[h][d] \in Path /\ Proxy[h][d] # g /\ h \in Path
        /\ ns'.slots[d][h] = ns.slots[d][h] /\ ns'.slots[d][Proxy[h][d]] = ns.slots[d][Proxy[h][d]]
    BY <1>6, PathAssumption
  <2>2. CASE h = g
    <3>1. Proxy[h][d] = a \/ Proxy[h][d] = b
      BY <2>2 DEF Side, a, b
    <3>2. ns.slots[d][h] = <<>> /\ ns.slots[d][Proxy[h][d]] = <<>>
      BY <1>2, <2>2, <3>1
    <3> QED
      BY <2>1, <3>2 DEF Alike
  <2>3. CASE h # g
    <3>1. Proxy[h][d] # a /\ Proxy[h][d] # b
      BY <2>3, ProxiesDiffer DEF a, b, Side
    <3>2. h \in ns.nodes /\ Proxy[h][d] \in ns.nodes
      BY <1>1, <1>6, <1>9, <2>1, <2>3, <3>1, PathAssumption
    <3> QED
      BY <2>1, <3>2 DEF Good, SamePorts
  <2> QED
    BY <2>2, <2>3
<1>10. Marked(ns, ns')
  BY <1>3, <1>4, <1>5, MarkedTransitive
<1>11. SubGraphAdded(ns, ns', g)
  BY <1>2, <1>6 DEF SubGraphAdded, a, b
<1> QED
  BY <1>5, <1>7, <1>8, <1>9, <1>10, <1>11 DEF Good, SamePorts

LEMMA RemovalIsGood ==
  ASSUME NEW s, Good(s), NEW P \in SUBSET Path
  PROVE  Good(RemoveNodes(s, P)) /\ Marked(s, RemoveNodes(s, P))
<1> DEFINE t == RemoveNodes(s, P)
<1>1. /\ Sound(t) /\ t.nodes = s.nodes \ P
      /\ \A d \in Side : \A p \in Path : t.slots[d][p] = IF p \in P THEN <<>> ELSE s.slots[d][p]
  BY RemoveNodesIsSound DEF Good
<1> HIDE DEF t
<1>2. Vacant(t)
  BY <1>1 DEF Good, Vacant
<1>3. ASSUME NEW p \in t.nodes \cap Interface
      PROVE  Alike(t.slots["in"][p], t.slots["out"][p])
  <2>1. p \in Path /\ p \in s.nodes /\ p \notin P
    BY <1>1, PathAssumption
  <2> QED
    BY <1>1, <2>1 DEF Good, SamePorts, Side
<1>4. ASSUME NEW g \in t.nodes \cap SubGraph, NEW d \in Side, Proxy[g][d] \in t.nodes
      PROVE  Alike(t.slots[d][g], t.slots[d][Proxy[g][d]])
  <2>1. /\ g \in Path /\ g \in s.nodes /\ g \notin P
        /\ Proxy[g][d] \in Path /\ Proxy[g][d] \in s.nodes /\ Proxy[g][d] \notin P
    BY <1>1, <1>4, PathAssumption
  <2> QED
    BY <1>1, <2>1 DEF Good, SamePorts
<1>5. Marked(s, t)
  BY RemoveNodesMarks DEF Good, t
<1> QED
  BY <1>1, <1>2, <1>3, <1>4, <1>5 DEF Good, SamePorts, t

(* The walk over the path index finds the nodes at and below p.            *)
LEMMA SubtreeFacts ==
  ASSUME ns \in States, NEW p \in Path
  PROVE  /\ Subtree(p) \in SUBSET (ns.nodes \cup {p}) /\ p \in Subtree(p)
         /\ \A q \in ns.nodes : Parent[q] \in Subtree(p) => q \in Subtree(p)
         /\ \A q \in Subtree(p) \ {p} : Parent[q] \in Subtree(p)
<1> DEFINE F == [P \in SUBSET Path |-> P \cup {q \in ns.nodes : Parent[q] \in P}]
           W == Subtree(p)
<1>1. ns.nodes \in SUBSET Path
  BY DEF States
<1>2. \A P \in SUBSET Path : F[P] = P \cup {q \in ns.nodes : Parent[q] \in P}
  OBVIOUS
<1>3. W = Iterate(F, {p}, Cardinality(Path))
  BY DEF Subtree
<1> HIDE DEF F, W
<1>4. \A P \in SUBSET Path : F[P] \in SUBSET Path /\ P \subseteq F[P]
  BY <1>1, <1>2
<1>5. W \in SUBSET Path /\ {p} \subseteq W /\ F[W] = W
  BY <1>3, <1>4, FiniteAssumption, WalkIsClosed
<1>6. \A q \in ns.nodes : Parent[q] \in W => q \in W
  BY <1>2, <1>5
<1>7. W \subseteq ns.nodes \cup {p}
  <2> DEFINE Y == ns.nodes \cup {p}
  <2>1. \A P \in SUBSET Y : F[P] \in SUBSET Y
    BY <1>1, <1>2
  <2>2. {p} \subseteq Y
    OBVIOUS
  <2> HIDE DEF Y
  <2>3. W \subseteq Y
    BY <1>3, <2>1, <2>2, FiniteAssumption, WalkIsLeast
  <2> QED
    BY <2>3 DEF Y
<1>8. ASSUME NEW q \in W \ {p}, Parent[q] \notin W
      PROVE  FALSE
  <2> DEFINE Y == W \ {q}
  <2>1. ASSUME NEW P \in SUBSET Y
        PROVE  F[P] \in SUBSET Y
    <3>1. P \in SUBSET Path
      BY <1>5
    <3>2. F[P] = P \cup {r \in ns.nodes : Parent[r] \in P}
      BY <1>2, <3>1
    <3> QED
      BY <1>6, <1>8, <3>2
  <2>2. {p} \subseteq Y
    BY <1>5, <1>8
  <2> HIDE DEF Y
  <2>3. W \subseteq Y
    BY <1>3, <2>1, <2>2, FiniteAssumption, WalkIsLeast
  <2> QED
    BY <1>8, <2>3 DEF Y
<1> QED
  BY <1>5, <1>6, <1>7, <1>8 DEF W

LEMMA RemoveStepIsGood ==
  ASSUME Good(ns), RemoveStep
  PROVE  Good(ns') /\ Marked(ns, ns')
<1>1. PICK p \in Path : RemoveNode(p) \/ RemoveNodeAt(p)
  BY DEF RemoveStep
<1>2. CASE RemoveNode(p)
  BY <1>2, RemovalIsGood DEF RemoveNode
<1>3. CASE RemoveNodeAt(p)
  <2>1. Subtree(p) \in SUBSET Path
    <3>1. ns \in States
      BY DEF Good, Sound
    <3> QED
      BY <3>1, SubtreeFacts DEF States
  <2> QED
    BY <1>3, <2>1, RemovalIsGood DEF RemoveNodeAt
<1> QED
  BY <1>1, <1>2, <1>3

LEMMA InsertedLast ==
  ASSUME NEW q \in Seq(Slot)
  PROVE  InsertedAt(q, Len(q) + 1) = Len(q) + 1 /\ Len(q) + 1 \in Nat \ {0}
BY DEF InsertedAt

(* The table that one insertion leaves to the ones that follow.            *)
Spares(s, t, c, a) ==
  Sound(t) /\ t.slots[c][a] = s.slots[c][a] /\ Cardinality(Unused(t, c, a)) >= 1

LEMMA SlotsLeft ==
  ASSUME NEW s, NEW t, NEW d \in Side, NEW p \in Path, NEW i, NEW type, Sound(s),
         Inserted(s, t, d, p, i, type), NEW c \in Side, NEW a \in Path, c # d \/ a # p,
         Cardinality(Unused(s, c, a)) >= 1
  PROVE  Spares(s, t, c, a)
<1>1. Cardinality(Unused(t, c, a)) >= 1
  BY StillUnused
<1>2. Sound(t) /\ t.slots[c][a] = s.slots[c][a]
  BY DEF Inserted, OneTable
<1> QED
  BY <1>1, <1>2 DEF Spares

(* What a new port of a SubGraph, or one that goes, does to the tables.    *)
Appended(q, r) == \E x \in Slot : r = InsertAt(q, Len(q) + 1, x)

ElsewhereKept(s, t, g, d) ==
  /\ t.nodes = s.nodes
  /\ \A c \in Side : \A a \in Path :
       a # Proxy[g][d] /\ (a # g \/ c # d) => t.slots[c][a] = s.slots[c][a]

PortAppended(s, t, g, d) ==
  /\ ElsewhereKept(s, t, g, d)
  /\ \A c \in Side : Appended(s.slots[c][Proxy[g][d]], t.slots[c][Proxy[g][d]])
  /\ Appended(s.slots[d][g], t.slots[d][g])

(* A port put in at position i goes in front of the port that is there, or *)
(* to the end of a shorter table.                                          *)
PutInto(q, r, i) == \E x \in Slot : r = InsertAt(q, InsertedAt(q, i), x)

PortInserted(s, t, g, d, i) ==
  /\ ElsewhereKept(s, t, g, d)
  /\ \A c \in Side : PutInto(s.slots[c][Proxy[g][d]], t.slots[c][Proxy[g][d]], i)
  /\ PutInto(s.slots[d][g], t.slots[d][g], i)

LEMMA InsertedChain ==
  ASSUME NEW s, NEW t, NEW u, NEW v, NEW g \in SubGraph, NEW d \in Side,
         NEW p, p = Proxy[g][d], NEW type, NEW i,
         Inserted(s, t, "in", p, i, type), Inserted(t, u, "out", p, i, type), Inserted(u, v, d, g, i, type)
  PROVE  PortInserted(s, v, g, d, i)
<1>1. p \in Path /\ g \in Path /\ g # p /\ "in" \in Side /\ "out" \in Side /\ "in" # "out"
  BY PathAssumption DEF Side
<1>2. /\ OneTable(s, t, "in", p) /\ OneTable(t, u, "out", p) /\ OneTable(u, v, d, g)
  BY DEF Inserted
<1>3. /\ t.nodes = s.nodes /\ u.nodes = t.nodes /\ v.nodes = u.nodes
      /\ \A c \in Side : \A a \in Path : c # "in" \/ a # p => t.slots[c][a] = s.slots[c][a]
      /\ \A c \in Side : \A a \in Path : c # "out" \/ a # p => u.slots[c][a] = t.slots[c][a]
      /\ \A c \in Side : \A a \in Path : c # d \/ a # g => v.slots[c][a] = u.slots[c][a]
  BY <1>2 DEF OneTable
<1>4. ElsewhereKept(s, v, g, d)
  BY <1>3 DEF ElsewhereKept
<1>5. /\ PutInto(s.slots["in"][p], t.slots["in"][p], i)
      /\ PutInto(t.slots["out"][p], u.slots["out"][p], i)
      /\ PutInto(u.slots[d][g], v.slots[d][g], i)
  BY DEF Inserted, PutInto
<1>6. /\ v.slots["in"][p] = t.slots["in"][p]
      /\ v.slots["out"][p] = u.slots["out"][p] /\ t.slots["out"][p] = s.slots["out"][p]
      /\ u.slots[d][g] = s.slots[d][g]
  BY <1>1, <1>3
<1>7. \A c \in Side : PutInto(s.slots[c][p], v.slots[c][p], i)
  BY <1>5, <1>6 DEF Side
<1> QED
  BY <1>4, <1>5, <1>6, <1>7 DEF PortInserted

LEMMA AppendedChain ==
  ASSUME NEW s, NEW t, NEW u, NEW v, NEW g \in SubGraph, NEW d \in Side,
         NEW p, p = Proxy[g][d], NEW type,
         Inserted(s, t, "in", p, Len(s.slots["in"][p]) + 1, type),
         Inserted(t, u, "out", p, Len(s.slots["out"][p]) + 1, type),
         Inserted(u, v, d, g, Len(s.slots[d][g]) + 1, type),
         \A c \in Side : \A a \in Path :
           InsertedAt(s.slots[c][a], Len(s.slots[c][a]) + 1) = Len(s.slots[c][a]) + 1
  PROVE  PortAppended(s, v, g, d)
<1>1. p \in Path /\ g \in Path /\ g # p /\ "in" \in Side /\ "out" \in Side /\ "in" # "out"
  BY PathAssumption DEF Side
<1>2. /\ OneTable(s, t, "in", p) /\ OneTable(t, u, "out", p) /\ OneTable(u, v, d, g)
  BY DEF Inserted
<1>3. /\ t.nodes = s.nodes /\ u.nodes = t.nodes /\ v.nodes = u.nodes
      /\ \A c \in Side : \A a \in Path : c # "in" \/ a # p => t.slots[c][a] = s.slots[c][a]
      /\ \A c \in Side : \A a \in Path : c # "out" \/ a # p => u.slots[c][a] = t.slots[c][a]
      /\ \A c \in Side : \A a \in Path : c # d \/ a # g => v.slots[c][a] = u.slots[c][a]
  BY <1>2 DEF OneTable
<1>4. ElsewhereKept(s, v, g, d)
  BY <1>3 DEF ElsewhereKept
<1>5. Appended(s.slots["in"][p], t.slots["in"][p])
  BY <1>1 DEF Inserted, Appended
<1>6. Appended(t.slots["out"][p], u.slots["out"][p])
  <2>1. t.slots["out"][p] = s.slots["out"][p]
    BY <1>1, <1>3
  <2> QED
    BY <1>1, <2>1 DEF Inserted, Appended
<1>7. Appended(u.slots[d][g], v.slots[d][g])
  <2>1. u.slots[d][g] = s.slots[d][g]
    BY <1>1, <1>3
  <2> QED
    BY <1>1, <2>1 DEF Inserted, Appended
<1>8. \A c \in Side : Appended(s.slots[c][p], v.slots[c][p])
  <2>1. v.slots["in"][p] = t.slots["in"][p]
    BY <1>1, <1>3
  <2>2. v.slots["out"][p] = u.slots["out"][p] /\ t.slots["out"][p] = s.slots["out"][p]
    BY <1>1, <1>3
  <2> QED
    BY <1>5, <1>6, <2>1, <2>2 DEF Side
<1>9. Appended(s.slots[d][g], v.slots[d][g])
  BY <1>1, <1>3, <1>7
<1> QED
  BY <1>4, <1>8, <1>9 DEF PortAppended

LEMMA AddSubGraphPortIsGood ==
  ASSUME NEW s, Good(s), NEW g \in SubGraph, g \in s.nodes, NEW d \in Side, NEW p, p = Proxy[g][d],
         NEW type \in Type, NEW max \in Nat \cup {None},
         Cardinality(Unused(s, d, g)) >= 1, \A c \in Side : Cardinality(Unused(s, c, p)) >= 1,
         NEW t, t = AddSlot(s, "in", p, type, max),
         NEW u, u = AddSlot(t, "out", p, type, None),
         NEW v, v = AddSlot(u, d, g, type, None)
  PROVE  Good(v) /\ Marked(s, v) /\ PortAppended(s, v, g, d)
<1> DEFINE q == s.slots["in"][p]
           r == s.slots["out"][p]
           x == s.slots[d][g]
<1>1. p \in Path /\ g \in Path /\ g # p /\ "in" \in Side /\ "out" \in Side /\ "in" # "out"
  BY PathAssumption DEF Side
<1>2. Sound(s) /\ q \in Seq(Slot) /\ r \in Seq(Slot) /\ x \in Seq(Slot)
  <2>1. Sound(s) /\ s \in States
    BY DEF Good, Sound
  <2> QED
    BY <1>1, <2>1 DEF States
<1>3. Inserted(s, t, "in", p, Len(q) + 1, type)
  BY <1>1, <1>2, AddSlotInserts
<1>4. Sound(t) /\ t.slots["out"][p] = r /\ Cardinality(Unused(t, "out", p)) >= 1
  <2>1. Spares(s, t, "out", p)
    BY <1>1, <1>2, <1>3, SlotsLeft
  <2> QED
    BY <2>1 DEF Spares
<1>5. Sound(t) /\ t.slots[d][g] = x /\ Cardinality(Unused(t, d, g)) >= 1
  <2>1. Spares(s, t, d, g)
    BY <1>1, <1>2, <1>3, SlotsLeft
  <2> QED
    BY <2>1 DEF Spares
<1>6. Inserted(t, u, "out", p, Len(r) + 1, type)
  BY <1>1, <1>4, AddSlotInserts
<1>7. Sound(u) /\ u.slots[d][g] = x /\ Cardinality(Unused(u, d, g)) >= 1
  <2>1. Spares(t, u, d, g)
    BY <1>1, <1>5, <1>6, SlotsLeft DEF Spares
  <2> QED
    BY <1>5, <2>1 DEF Spares
<1>8. Inserted(u, v, d, g, Len(x) + 1, type)
  BY <1>1, <1>7, AddSlotInserts
<1>9. /\ InsertedAt(q, Len(q) + 1) = Len(q) + 1 /\ Len(q) + 1 \in Nat \ {0}
      /\ InsertedAt(r, Len(r) + 1) = Len(r) + 1 /\ Len(r) + 1 \in Nat \ {0}
      /\ InsertedAt(x, Len(x) + 1) = Len(x) + 1 /\ Len(x) + 1 \in Nat \ {0}
  BY <1>2, InsertedLast
<1>10. Len(q) = Len(r) => InsertedAt(q, Len(q) + 1) = InsertedAt(r, Len(r) + 1)
  BY <1>9
<1>11. Len(x) = Len(s.slots[d][p]) =>
         InsertedAt(x, Len(x) + 1)
           = InsertedAt(s.slots[d][p], IF d = "in" THEN Len(q) + 1 ELSE Len(r) + 1)
  <2>1. s.slots[d][p] = IF d = "in" THEN q ELSE r
    BY DEF Side
  <2> HIDE DEF q, r, x
  <2> QED
    BY <1>9, <2>1
<1>12. \A c \in Side : \A a \in Path :
         InsertedAt(s.slots[c][a], Len(s.slots[c][a]) + 1) = Len(s.slots[c][a]) + 1
  <2>1. \A c \in Side : \A a \in Path : s.slots[c][a] \in Seq(Slot)
    BY DEF Good, Sound, States
  <2> QED
    BY <2>1, InsertedLast
<1>13. PortAppended(s, v, g, d)
  BY <1>3, <1>6, <1>8, <1>12, AppendedChain
<1> HIDE DEF q, r, x
<1>14. Good(v) /\ Marked(s, v)
  BY <1>3, <1>6, <1>8, <1>9, <1>10, <1>11, PortIsInserted DEF q, r, x
<1> QED
  BY <1>13, <1>14

LEMMA InsertSubGraphPortIsGood ==
  ASSUME NEW s, Good(s), NEW g \in SubGraph, g \in s.nodes, NEW d \in Side, NEW p, p = Proxy[g][d],
         NEW type \in Type, NEW max \in Nat \cup {None}, NEW i \in Nat \ {0},
         Cardinality(Unused(s, d, g)) >= 1, \A c \in Side : Cardinality(Unused(s, c, p)) >= 1,
         NEW t, t = InsertSlot(s, "in", p, i, type, max),
         NEW u, u = InsertSlot(t, "out", p, i, type, None),
         NEW v, v = InsertSlot(u, d, g, i, type, None)
  PROVE  Good(v) /\ Marked(s, v) /\ PortInserted(s, v, g, d, i)
<1>1. p \in Path /\ g \in Path /\ g # p /\ "in" \in Side /\ "out" \in Side /\ "in" # "out"
  BY PathAssumption DEF Side
<1>2. Sound(s)
  BY DEF Good
<1>3. Inserted(s, t, "in", p, i, type)
  BY <1>1, <1>2, InsertSlotInserts
<1>4. Sound(t) /\ Cardinality(Unused(t, "out", p)) >= 1
  BY <1>1, <1>2, <1>3, SlotsLeft DEF Spares
<1>5. Sound(t) /\ Cardinality(Unused(t, d, g)) >= 1
  BY <1>1, <1>2, <1>3, SlotsLeft DEF Spares
<1>6. Inserted(t, u, "out", p, i, type)
  BY <1>1, <1>4, InsertSlotInserts
<1>7. Sound(u) /\ Cardinality(Unused(u, d, g)) >= 1
  BY <1>1, <1>5, <1>6, SlotsLeft DEF Spares
<1>8. Inserted(u, v, d, g, i, type)
  BY <1>1, <1>7, InsertSlotInserts
<1>9. \A q, r : Len(q) = Len(r) => InsertedAt(q, i) = InsertedAt(r, i)
  BY DEF InsertedAt
<1>10. (IF d = "in" THEN i ELSE i) = i
  OBVIOUS
<1>11. PortInserted(s, v, g, d, i)
  BY <1>3, <1>6, <1>8, InsertedChain
<1>12. Good(v) /\ Marked(s, v)
  BY <1>3, <1>6, <1>8, <1>9, <1>10, PortIsInserted
<1> QED
  BY <1>11, <1>12

LEMMA AddSubGraphPortStep ==
  ASSUME Good(ns), NEW g \in SubGraph, NEW d \in Side, NEW type \in Type, NEW locked \in BOOLEAN,
         AddSubGraphPort(g, d, type, locked)
  PROVE  /\ Good(ns') /\ Marked(ns, ns')
         /\ ~ locked => PortAppended(ns, ns', g, d)
<1> DEFINE p == Proxy[g][d]
           t == AddSlot(ns, "in", p, type, PortMax(d))
           u == AddSlot(t, "out", p, type, None)
           v == AddSlot(u, d, g, type, None)
<1>1. PortMax(d) \in Nat \cup {None} /\ p \in Path
  BY PathAssumption DEF PortMax
<1>2. /\ g \in ns.nodes /\ ns' = Lock(v, p, locked) /\ Cardinality(Unused(ns, d, g)) >= 1
      /\ \A c \in Side : Cardinality(Unused(ns, c, p)) >= 1
  BY DEF AddSubGraphPort, RootSubGraph, Fits
<1>3. Good(v) /\ Marked(ns, v) /\ PortAppended(ns, v, g, d)
  BY <1>1, <1>2, AddSubGraphPortIsGood
<1>4. ~ locked => ns' = v
  BY <1>2 DEF Lock
<1> HIDE DEF v, p
<1>5. Good(ns') /\ Marked(ns, ns')
  BY <1>1, <1>2, <1>3, LockIsGood, MarkedTransitive
<1> QED
  BY <1>3, <1>4, <1>5

LEMMA InsertSubGraphPortStep ==
  ASSUME Good(ns), NEW g \in SubGraph, NEW d \in Side, NEW type \in Type, NEW locked \in BOOLEAN,
         NEW i \in 1..MaxPorts, InsertSubGraphPort(g, d, i, type, locked)
  PROVE  /\ Good(ns') /\ Marked(ns, ns')
         /\ ~ locked => PortInserted(ns, ns', g, d, i)
<1> DEFINE p == Proxy[g][d]
           t == InsertSlot(ns, "in", p, i, type, PortMax(d))
           u == InsertSlot(t, "out", p, i, type, None)
           v == InsertSlot(u, d, g, i, type, None)
<1>1. PortMax(d) \in Nat \cup {None} /\ p \in Path /\ i \in Nat \ {0}
  BY PathAssumption, SlotAssumption DEF PortMax
<1>2. /\ g \in ns.nodes /\ ns' = Lock(v, p, locked) /\ Cardinality(Unused(ns, d, g)) >= 1
      /\ \A c \in Side : Cardinality(Unused(ns, c, p)) >= 1
  BY DEF InsertSubGraphPort, RootSubGraph, Fits
<1>3. Good(v) /\ Marked(ns, v) /\ PortInserted(ns, v, g, d, i)
  BY <1>1, <1>2, InsertSubGraphPortIsGood
<1>4. ~ locked => ns' = v
  BY <1>2 DEF Lock
<1> HIDE DEF v, p
<1>5. Good(ns') /\ Marked(ns, ns')
  BY <1>1, <1>2, <1>3, LockIsGood, MarkedTransitive
<1> QED
  BY <1>3, <1>4, <1>5

LEMMA AddInterfacePortIsGood ==
  ASSUME NEW s, Good(s), NEW p \in Interface, p \in s.nodes, Parent[p] = Root, NEW type \in Type,
         \A c \in Side : Cardinality(Unused(s, c, p)) >= 1,
         NEW t, t = AddSlot(s, "in", p, type, 1),
         NEW u, u = AddSlot(t, "out", p, type, None)
  PROVE  Good(u) /\ Marked(s, u)
<1> DEFINE q == s.slots["in"][p]
           r == s.slots["out"][p]
<1>1. p \in Path /\ "in" \in Side /\ "out" \in Side /\ "in" # "out" /\ 1 \in Nat
  BY PathAssumption DEF Side
<1>2. Sound(s) /\ q \in Seq(Slot) /\ r \in Seq(Slot)
  BY <1>1 DEF Good, Sound, States
<1>3. Inserted(s, t, "in", p, Len(q) + 1, type)
  BY <1>1, <1>2, AddSlotInserts
<1>4. Sound(t) /\ t.slots["out"][p] = r /\ Cardinality(Unused(t, "out", p)) >= 1
  <2>1. Spares(s, t, "out", p)
    BY <1>1, <1>2, <1>3, SlotsLeft
  <2> QED
    BY <2>1 DEF Spares
<1>5. Inserted(t, u, "out", p, Len(r) + 1, type)
  BY <1>1, <1>4, AddSlotInserts
<1>6. PICK x \in Slot : x.type = type /\ t.slots["in"][p] = InsertAt(q, InsertedAt(q, Len(q) + 1), x)
  BY <1>3 DEF Inserted
<1>7. PICK y \in Slot : y.type = type /\ u.slots["out"][p] = InsertAt(r, InsertedAt(r, Len(r) + 1), y)
  BY <1>4, <1>5 DEF Inserted
<1>8. /\ InsertedAt(q, Len(q) + 1) = Len(q) + 1 /\ Len(q) + 1 \in Nat \ {0}
      /\ InsertedAt(r, Len(r) + 1) = Len(r) + 1 /\ Len(r) + 1 \in Nat \ {0}
  BY <1>2, InsertedLast
<1>9. /\ Sound(u) /\ u.nodes = s.nodes /\ u.slots["in"][p] = t.slots["in"][p]
      /\ \A c \in Side : \A a \in Path : a # p => u.slots[c][a] = s.slots[c][a]
  BY <1>1, <1>3, <1>5 DEF Inserted, OneTable
<1>10. Alike(q, r) => Alike(u.slots["in"][p], u.slots["out"][p])
  <2> SUFFICES ASSUME Alike(q, r)
               PROVE  Alike(u.slots["in"][p], u.slots["out"][p])
    OBVIOUS
  <2> HIDE DEF q, r
  <2>1. Alike(InsertAt(q, InsertedAt(q, Len(q) + 1), x), InsertAt(r, InsertedAt(r, Len(r) + 1), y))
    <3>1. Len(q) = Len(r) => InsertedAt(q, Len(q) + 1) = InsertedAt(r, Len(r) + 1)
      BY <1>8
    <3> QED
      BY <1>2, <1>6, <1>7, <1>8, <3>1, AlikeInserted
  <2> QED
    BY <1>6, <1>7, <1>9, <2>1
<1>11. Marked(s, t) /\ Marked(t, u)
  BY <1>1, <1>3, <1>5, InsertedMarks
<1>12. Good(u)
  BY <1>9, <1>10, InterfacePortEdit
<1> QED
  BY <1>11, <1>12, MarkedTransitive

LEMMA AddInterfacePortStep ==
  ASSUME Good(ns), NEW p \in Interface, NEW type \in Type, NEW locked \in BOOLEAN,
         AddInterfacePort(p, type, locked)
  PROVE  Good(ns') /\ Marked(ns, ns')
<1> DEFINE t == AddSlot(ns, "in", p, type, 1)
           u == AddSlot(t, "out", p, type, None)
<1>1. p \in Path
  BY PathAssumption
<1>2. /\ p \in ns.nodes /\ Parent[p] = Root /\ ns' = Lock(u, p, locked)
      /\ \A c \in Side : Cardinality(Unused(ns, c, p)) >= 1
  BY DEF AddInterfacePort, RootInterface, Fits
<1>3. Good(u) /\ Marked(ns, u)
  BY <1>2, AddInterfacePortIsGood
<1> HIDE DEF u
<1> QED
  BY <1>1, <1>2, <1>3, LockIsGood, MarkedTransitive

(* No edge is at position i of p.                                          *)
Idle(s, d, p, i) ==
  \A e \in EdgesOf(s) : ~ (s.edges[e][d].node = p /\ s.edges[e][d].index = i)

LEMMA EdgesAtAreAll ==
  ASSUME NEW s, Sound(s), NEW d \in Side, NEW p \in Path, NEW i, NEW D, EdgesAt(s, d, p, i) \subseteq D,
         NEW t, t = RemoveEdges(s, D)
  PROVE  Idle(t, d, p, i)
<1>1. EdgesOf(t) = EdgesOf(s) \ D /\ \A e \in EdgesOf(t) : t.edges[e] = s.edges[e]
  BY RemoveEdgesIsSound
<1> SUFFICES ASSUME NEW e \in EdgesOf(t), t.edges[e][d].node = p, t.edges[e][d].index = i
             PROVE  FALSE
  BY DEF Idle
<1>2. e \in EdgesOf(s) /\ e \notin D /\ s.edges[e][d].node = p /\ s.edges[e][d].index = i
  BY <1>1
<1>3. Resolves(s, d, s.edges[e][d])
  BY <1>2 DEF Sound, Attached
<1>4. e \in EdgesAt(s, d, p, i)
  BY <1>2, <1>3 DEF EdgesAt, HasSlot, Resolves
<1> QED
  BY <1>2, <1>4

(* One removal, as the action sees it.                                     *)
Removed(s, t, d, p, i) ==
  /\ Sound(t) /\ OneTable(s, t, d, p) /\ EdgesFollow(s, t, d, p)
  /\ t.slots[d][p] = IF i \in DOMAIN s.slots[d][p] THEN RemoveAt(s.slots[d][p], i)
                     ELSE s.slots[d][p]

LEMMA RemovedMarks ==
  ASSUME NEW s, NEW t, NEW d \in Side, NEW p \in Path, NEW i, Removed(s, t, d, p, i)
  PROVE  Marked(s, t)
BY MarkedTable DEF Removed

LEMMA RemoveSlotRemoves ==
  ASSUME NEW s, Sound(s), NEW d \in Side, NEW p \in Path, NEW i \in Nat \ {0}, Idle(s, d, p, i),
         NEW t, t = RemoveSlot(s, d, p, i)
  PROVE  Removed(s, t, d, p, i)
BY RemoveSlotIsSound DEF Idle, Removed

LEMMA StillIdle ==
  ASSUME NEW s, NEW t, NEW d \in Side, NEW p \in Path, NEW i, Removed(s, t, d, p, i),
         NEW c \in Side, NEW a \in Path, c # d \/ a # p, NEW j, Idle(s, c, a, j)
  PROVE  Idle(t, c, a, j)
<1> SUFFICES ASSUME NEW e \in EdgesOf(t), t.edges[e][c].node = a, t.edges[e][c].index = j
             PROVE  FALSE
  BY DEF Idle
<1>1. e \in EdgesOf(s)
  BY DEF Removed, EdgesFollow
<1>2. s.edges[e][c].node = a
  BY <1>1 DEF Removed, EdgesFollow
<1>3. s.edges[e][c].index = j
  BY <1>1, <1>2 DEF Removed, EdgesFollow
<1> QED
  BY <1>1, <1>2, <1>3 DEF Idle

(* The ports of an InterfaceNode at position i go, on both sides.          *)
PortRemoved(s, t, p, i) ==
  /\ Sound(t) /\ Marked(s, t) /\ t.nodes = s.nodes
  /\ \A d \in Side :
       /\ \A a \in Path : a # p => t.slots[d][a] = s.slots[d][a]
       /\ t.slots[d][p] = IF i \in DOMAIN s.slots[d][p] THEN RemoveAt(s.slots[d][p], i)
                          ELSE s.slots[d][p]

LEMMA PortIsRemoved ==
  ASSUME NEW s, Sound(s), NEW p \in Path, NEW i \in Nat \ {0}, \A d \in Side : Idle(s, d, p, i),
         NEW t, t = RemoveSlot(s, "in", p, i), NEW u, u = RemoveSlot(t, "out", p, i)
  PROVE  PortRemoved(s, u, p, i)
<1>1. "in" \in Side /\ "out" \in Side /\ "in" # "out"
  BY DEF Side
<1>2. Removed(s, t, "in", p, i)
  BY <1>1, RemoveSlotRemoves
<1>3. Idle(t, "out", p, i)
  BY <1>1, <1>2, StillIdle
<1>4. Sound(t)
  BY <1>2 DEF Removed
<1>5. Removed(t, u, "out", p, i)
  BY <1>1, <1>3, <1>4, RemoveSlotRemoves
<1>6. Sound(u) /\ u.nodes = s.nodes
  BY <1>2, <1>5 DEF Removed, OneTable
<1>7. \A d \in Side : \A a \in Path : a # p => u.slots[d][a] = s.slots[d][a]
  BY <1>2, <1>5 DEF Removed, OneTable
<1>8. u.slots["in"][p] = t.slots["in"][p] /\ t.slots["out"][p] = s.slots["out"][p]
  BY <1>1, <1>2, <1>5 DEF Removed, OneTable
<1>9. u.slots["in"][p] = IF i \in DOMAIN s.slots["in"][p] THEN RemoveAt(s.slots["in"][p], i)
                         ELSE s.slots["in"][p]
  BY <1>2, <1>8 DEF Removed
<1>10. u.slots["out"][p] = IF i \in DOMAIN s.slots["out"][p] THEN RemoveAt(s.slots["out"][p], i)
                           ELSE s.slots["out"][p]
  BY <1>5, <1>8 DEF Removed
<1>11. Marked(s, t) /\ Marked(t, u)
  BY <1>1, <1>2, <1>5, RemovedMarks
<1>12. Marked(s, u)
  BY <1>11, MarkedTransitive
<1> QED
  BY <1>6, <1>7, <1>9, <1>10, <1>12 DEF PortRemoved, Side

LEMMA AlikeRemoved ==
  ASSUME NEW q \in Seq(Slot), NEW r \in Seq(Slot), Alike(q, r), NEW i
  PROVE  Alike(IF i \in DOMAIN q THEN RemoveAt(q, i) ELSE q, IF i \in DOMAIN r THEN RemoveAt(r, i) ELSE r)
<1>1. DOMAIN q = DOMAIN r
  BY DEF Alike
<1>2. CASE i \in DOMAIN q
  BY <1>1, <1>2, AlikeRemove
<1>3. CASE i \notin DOMAIN q
  BY <1>1, <1>3
<1> QED
  BY <1>2, <1>3

Cut(s, t, d, p, i) ==
  t.slots[d][p] = IF i \in DOMAIN s.slots[d][p] THEN RemoveAt(s.slots[d][p], i)
                  ELSE s.slots[d][p]

LEMMA CutsAreAlike ==
  ASSUME NEW s \in States, NEW t, NEW c \in Side, NEW d \in Side, NEW a \in Path, NEW b \in Path,
         NEW i, Cut(s, t, c, a, i), Cut(s, t, d, b, i), Alike(s.slots[c][a], s.slots[d][b])
  PROVE  Alike(t.slots[c][a], t.slots[d][b])
<1>1. s.slots[c][a] \in Seq(Slot) /\ s.slots[d][b] \in Seq(Slot)
  BY DEF States
<1> QED
  BY <1>1, AlikeRemoved DEF Cut

PortCut(s, t, g, d, i) ==
  /\ ElsewhereKept(s, t, g, d)
  /\ \A c \in Side : Cut(s, t, c, Proxy[g][d], i)
  /\ Cut(s, t, d, g, i)

LEMMA CutPortIsGood ==
  ASSUME NEW s, Good(s), NEW g \in SubGraph, g \in s.nodes, NEW d \in Side, NEW i,
         NEW t, t.nodes = s.nodes, t.slots = s.slots,
         NEW v, PortRemoved(t, v, Proxy[g][d], i),
         NEW w, w.nodes = v.nodes, w.slots = v.slots,
         NEW x, Removed(w, x, d, g, i)
  PROVE  Good(x) /\ PortCut(s, x, g, d, i)
<1> DEFINE p == Proxy[g][d]
<1>1. p \in Path /\ g \in Path /\ g # p /\ "in" \in Side /\ "out" \in Side
  BY PathAssumption DEF Side
<1>2. /\ v.nodes = s.nodes
      /\ \A c \in Side : \A a \in Path : a # p => v.slots[c][a] = s.slots[c][a]
      /\ \A c \in Side : Cut(s, v, c, p, i)
  BY DEF PortRemoved, Cut
<1>3. /\ Sound(x) /\ x.nodes = v.nodes
      /\ \A c \in Side : \A a \in Path : c # d \/ a # g => x.slots[c][a] = v.slots[c][a]
  BY DEF Removed, OneTable
<1>4. Cut(v, x, d, g, i)
  BY DEF Removed, Cut
<1> HIDE DEF p
<1>5. \A c \in Side : \A a \in Path : a # p /\ (a # g \/ c # d) => x.slots[c][a] = s.slots[c][a]
  BY <1>2, <1>3
<1>6. \A c \in Side : Cut(s, x, c, p, i)
  BY <1>1, <1>2, <1>3 DEF Cut
<1>7. Cut(s, x, d, g, i)
  BY <1>1, <1>2, <1>4 DEF Cut
<1>8. s \in States
  BY DEF Good, Sound
<1>9. Alike(s.slots["in"][p], s.slots["out"][p]) => Alike(x.slots["in"][p], x.slots["out"][p])
  BY <1>1, <1>6, <1>8, CutsAreAlike
<1>10. Alike(s.slots[d][g], s.slots[d][p]) => Alike(x.slots[d][g], x.slots[d][p])
  BY <1>1, <1>6, <1>7, <1>8, CutsAreAlike
<1>11. x.nodes = s.nodes
  BY <1>2, <1>3
<1>12. Good(x)
  BY <1>3, <1>5, <1>9, <1>10, <1>11, SubGraphPortEdit DEF p
<1>13. PortCut(s, x, g, d, i)
  BY <1>5, <1>6, <1>7, <1>11 DEF PortCut, ElsewhereKept, p
<1> QED
  BY <1>12, <1>13

LEMMA RemoveSubGraphPortIsGood ==
  ASSUME NEW s, Good(s), NEW g \in SubGraph, g \in s.nodes, NEW d \in Side, NEW p, p = Proxy[g][d],
         NEW i \in Nat \ {0},
         NEW t, t = RemoveEdges(s, EdgesAt(s, "in", p, i) \cup EdgesAt(s, "out", p, i)),
         NEW u, u = RemoveSlot(t, "in", p, i), NEW v, v = RemoveSlot(u, "out", p, i),
         NEW w, w = RemoveEdges(v, EdgesAt(v, d, g, i)),
         NEW x, x = RemoveSlot(w, d, g, i)
  PROVE  Good(x) /\ Marked(s, x) /\ PortCut(s, x, g, d, i)
<1>1. p \in Path /\ g \in Path /\ "in" \in Side /\ "out" \in Side
  BY PathAssumption DEF Side
<1>2. Sound(s)
  BY DEF Good
<1>3. Sound(t) /\ t.nodes = s.nodes /\ t.slots = s.slots
  BY <1>2, RemoveEdgesIsSound
<1>4. \A c \in Side : Idle(t, c, p, i)
  <2>1. Idle(t, "in", p, i)
    BY <1>1, <1>2, EdgesAtAreAll
  <2>2. Idle(t, "out", p, i)
    BY <1>1, <1>2, EdgesAtAreAll
  <2> QED
    BY <2>1, <2>2 DEF Side
<1>5. PortRemoved(t, v, p, i)
  BY <1>1, <1>3, <1>4, PortIsRemoved
<1>6. Sound(v)
  BY <1>5 DEF PortRemoved
<1>7. Sound(w) /\ w.nodes = v.nodes /\ w.slots = v.slots
  BY <1>6, RemoveEdgesIsSound
<1>8. Idle(w, d, g, i)
  BY <1>1, <1>6, EdgesAtAreAll
<1>9. Removed(w, x, d, g, i)
  BY <1>1, <1>7, <1>8, RemoveSlotRemoves
<1>10. Good(x) /\ PortCut(s, x, g, d, i)
  BY <1>3, <1>5, <1>7, <1>9, CutPortIsGood
<1>11. Marked(s, t) /\ Marked(v, w)
  BY <1>2, <1>6, RemoveEdgesMarks
<1>12. Marked(t, v)
  BY <1>5 DEF PortRemoved
<1>13. Marked(w, x)
  BY <1>1, <1>9, RemovedMarks
<1>14. Marked(s, v)
  BY <1>11, <1>12, MarkedTransitive
<1>15. Marked(s, w)
  BY <1>11, <1>14, MarkedTransitive
<1> QED
  BY <1>10, <1>13, <1>15, MarkedTransitive

LEMMA RemoveSubGraphPortStep ==
  ASSUME Good(ns), NEW g \in SubGraph, NEW d \in Side, NEW i \in 1..MaxPorts,
         RemoveSubGraphPort(g, d, i)
  PROVE  Good(ns') /\ Marked(ns, ns') /\ PortCut(ns, ns', g, d, i)
<1>1. i \in Nat \ {0}
  BY SlotAssumption
<1> QED
  BY <1>1, RemoveSubGraphPortIsGood DEF RemoveSubGraphPort, RootSubGraph

LEMMA WithoutEdgesIdle ==
  ASSUME NEW s, Sound(s), NEW d \in Side, NEW p \in Path, NEW i, EdgesAt(s, d, p, i) = {}
  PROVE  Idle(s, d, p, i)
<1> SUFFICES ASSUME NEW e \in EdgesOf(s), s.edges[e][d].node = p, s.edges[e][d].index = i
             PROVE  FALSE
  BY DEF Idle
<1>1. Resolves(s, d, s.edges[e][d])
  BY DEF Sound, Attached
<1>2. e \in EdgesAt(s, d, p, i)
  BY <1>1 DEF EdgesAt, HasSlot, Resolves
<1> QED
  BY <1>2

LEMMA RemoveIdlePortIsGood ==
  ASSUME NEW s, Good(s), NEW p \in Interface, p \in s.nodes, Parent[p] = Root, NEW i \in Nat \ {0},
         \A d \in Side : EdgesAt(s, d, p, i) = {},
         NEW t, t = RemoveSlot(s, "in", p, i), NEW u, u = RemoveSlot(t, "out", p, i),
         NEW v, v = [u EXCEPT !.changed = @ \cup {p}]
  PROVE  Good(v) /\ Marked(s, v)
<1>1. p \in Path /\ "in" \in Side /\ "out" \in Side
  BY PathAssumption DEF Side
<1>2. Sound(s) /\ s \in States
  BY DEF Good, Sound
<1>3. \A d \in Side : Idle(s, d, p, i)
  BY <1>1, <1>2, WithoutEdgesIdle
<1>4. PortRemoved(s, u, p, i)
  BY <1>1, <1>2, <1>3, PortIsRemoved
<1>5. /\ Sound(u) /\ u.nodes = s.nodes
      /\ \A d \in Side : \A a \in Path : a # p => u.slots[d][a] = s.slots[d][a]
      /\ \A d \in Side : Cut(s, u, d, p, i)
  BY <1>4 DEF PortRemoved, Cut
<1>6. Alike(s.slots["in"][p], s.slots["out"][p]) => Alike(u.slots["in"][p], u.slots["out"][p])
  BY <1>1, <1>2, <1>5, CutsAreAlike
<1>7. Good(u)
  BY <1>5, <1>6, InterfacePortEdit
<1>8. u.changed \cup {p} \in SUBSET Path
  BY <1>1, <1>5 DEF Sound, States
<1>9. Sound(v) /\ v.nodes = u.nodes /\ v.slots = u.slots
  BY <1>5, <1>8, MarkingIsSound
<1>10. v.edges = u.edges /\ v.conn = u.conn /\ v.touching = u.touching /\ u.changed \subseteq v.changed
  BY <1>5 DEF Sound, States
<1>11. Marked(u, v)
  BY <1>10, MarkedElsewhere
<1>12. Marked(s, u)
  BY <1>4 DEF PortRemoved
<1>13. Good(v)
  BY <1>7, <1>9, GoodElsewhere
<1> QED
  BY <1>11, <1>12, <1>13, MarkedTransitive

LEMMA RemoveIdlePortStep ==
  ASSUME Good(ns), RemoveIdlePort
  PROVE  Good(ns') /\ Marked(ns, ns')
<1>0. PICK p \in Interface : \E i \in DOMAIN ns.slots["in"][p] :
        (\A d \in Side : EdgesAt(ns, d, p, i) = {}) /\ RemoveInterfacePort(p, i)
  BY DEF RemoveIdlePort
<1>1. PICK i \in DOMAIN ns.slots["in"][p] :
        (\A d \in Side : EdgesAt(ns, d, p, i) = {}) /\ RemoveInterfacePort(p, i)
  BY <1>0
<1>2. i \in Nat \ {0}
  <2>1. ns.slots["in"][p] \in Seq(Slot)
    BY PathAssumption DEF Good, Sound, States, Side
  <2> QED
    BY <2>1
<1>3. p \in ns.nodes /\ Parent[p] = Root
  BY <1>1 DEF RemoveInterfacePort, RootInterface
<1>4. ns' = [RemoveSlot(RemoveSlot(ns, "in", p, i), "out", p, i) EXCEPT !.changed = @ \cup {p}]
  BY <1>1 DEF RemoveInterfacePort
<1> QED
  BY <1>1, <1>2, <1>3, <1>4, RemoveIdlePortIsGood

(* Either way the edge is filed under the slot that the port leads to.     *)
LEMMA RetargetedEnd ==
  ASSUME NEW d, NEW p, NEW i
  PROVE  Retargeted(d, Endpoint(d, p, i)) = Endpoint(d, Retarget(d, p), i)
<1> DEFINE x == Endpoint(d, p, i)
<1>1. x.node = p /\ x.index = i
  BY DEF Endpoint
<1> HIDE DEF x
<1>2. Retargeted(d, x) = IF Retarget(d, p) = p THEN x ELSE Endpoint(d, Retarget(d, p), i)
  BY <1>1 DEF Retargeted
<1> QED
  BY <1>2 DEF x

LEMMA EndpointResolves ==
  ASSUME Good(ns), NEW d \in Side, NEW p \in Path, NEW i,
         NEW a, a = Retarget(d, p), a \in ns.nodes, HasSlot(ns, d, a, i),
         NEW x, x = Endpoint(d, a, i)
  PROVE  x \in End /\ Resolves(ns, d, x)
<1>1. Sound(ns) /\ ns \in States
  BY DEF Good, Sound
<1>2. a \in Path /\ a \notin SubGraph
  BY PathAssumption DEF Retarget
<1>3. ns.slots[d][a] \in Seq(Slot)
  BY <1>1, <1>2 DEF States
<1>4. i \in DOMAIN ns.slots[d][a]
  BY DEF HasSlot
<1>5. i \in Nat \ {0} /\ ns.slots[d][a][i] \in Slot
  BY <1>3, <1>4
<1>6. ns.slots[d][a][i].id \in SlotId
  BY <1>5 DEF Slot
<1>7. x \in End
  BY <1>2, <1>5, <1>6 DEF Endpoint, End
<1>8. x.node = a /\ x.index = i /\ x.slot = ns.slots[d][a][i].id
  BY DEF Endpoint
<1> QED
  BY <1>2, <1>4, <1>7, <1>8 DEF Resolves

LEMMA ConnectIsGood ==
  ASSUME Good(ns), NEW e \in EdgeId, NEW p \in Path, NEW q \in Path, NEW i, NEW j,
         Connect(e, p, i, q, j)
  PROVE  Good(ns') /\ Noted(ns, ns') /\ Rooted(ns, ns') /\ SameTables(ns, ns')
<1> DEFINE x == [d \in Side |-> IF d = "out" THEN Endpoint(d, p, i) ELSE Endpoint(d, q, j)]
           y == [d \in Side |-> Retargeted(d, x[d])]
           a == Retarget("out", p)
           b == Retarget("in", q)
<1>1. "in" \in Side /\ "out" \in Side /\ "in" # "out" /\ \A d \in Side : d = "in" \/ d = "out"
  BY DEF Side
<1>2. x["out"] = Endpoint("out", p, i) /\ x["in"] = Endpoint("in", q, j)
  BY <1>1
<1>3. InsertEdge(e, x)
  BY DEF Connect
<1> HIDE DEF x
<1>4. /\ x["out"].node = p /\ x["out"].index = i
      /\ x["in"].node = q /\ x["in"].index = j
  BY <1>2 DEF Endpoint
<1>5. y["out"] = Retargeted("out", x["out"]) /\ y["in"] = Retargeted("in", x["in"])
  BY <1>1
<1>6. y["out"] = Endpoint("out", a, i) /\ y["in"] = Endpoint("in", b, j)
  BY <1>2, <1>5, RetargetedEnd
<1>7. \A d \in Side : Retarget(d, x[d].node) \in ns.nodes
                      /\ HasSlot(ns, d, Retarget(d, x[d].node), x[d].index)
  BY <1>3 DEF InsertEdge
<1>8. a \in ns.nodes /\ HasSlot(ns, "out", a, i) /\ b \in ns.nodes /\ HasSlot(ns, "in", b, j)
  BY <1>1, <1>4, <1>7
<1>9. /\ SlotOf("out", y["out"]).type = SlotOf("in", y["in"]).type
      /\ WithinLimit(x) /\ ns.edges[e] = None /\ ns' = AddEdge(ns, e, y)
  BY <1>3 DEF InsertEdge
<1>10. y = [d \in Side |-> y[d]]
  OBVIOUS
<1> HIDE DEF y
<1>11. y["out"] \in End /\ Resolves(ns, "out", y["out"])
  BY <1>1, <1>6, <1>8, EndpointResolves
<1>12. y["in"] \in End /\ Resolves(ns, "in", y["in"])
  BY <1>1, <1>6, <1>8, EndpointResolves
<1>13. y \in Edge
  BY <1>1, <1>10, <1>11, <1>12 DEF Edge
<1>14. y["in"].node = b /\ y["in"].index = j /\ y["in"].slot = ns.slots["in"][b][j].id
  BY <1>6 DEF Endpoint
<1>15. SlotOf("in", [x["in"] EXCEPT !.node = b]) = ns.slots["in"][b][j]
  <2> DEFINE z == [x["in"] EXCEPT !.node = b]
  <2>1. x["in"] = [node |-> q, index |-> j, slot |-> ns.slots["in"][q][j].id]
    BY <1>2 DEF Endpoint
  <2>2. z.node = b /\ z.index = j
    BY <2>1
  <2> HIDE DEF z, b
  <2> QED
    BY <2>2 DEF SlotOf, z
<1>16. ns.slots["in"][b][j].max # None =>
         Len(ns.conn["in"][ns.slots["in"][b][j].id]) < ns.slots["in"][b][j].max
  <2>1. [x["in"] EXCEPT !.node = Retarget("in", @)] = [x["in"] EXCEPT !.node = b]
    BY <1>4
  <2> QED
    BY <1>9, <1>15, <2>1 DEF WithinLimit
<1>17. Connectable(ns, y)
  <2>1. \A d \in Side : Resolves(ns, d, y[d])
    BY <1>1, <1>11, <1>12
  <2>2. ns.slots["in"][y["in"].node][y["in"].index].type
          = ns.slots["out"][y["out"].node][y["out"].index].type
    BY <1>9 DEF SlotOf
  <2> QED
    BY <1>14, <1>16, <2>1, <2>2 DEF Connectable
<1>18. Sound(ns') /\ ns'.nodes = ns.nodes /\ ns'.slots = ns.slots
  BY <1>9, <1>13, <1>17, AddEdgeIsSound DEF Good
<1>19. Noted(ns, ns') /\ Rooted(ns, ns')
  BY <1>9, <1>13, <1>17, AddEdgeMarks DEF Good
<1> QED
  BY <1>18, <1>19, GoodElsewhere DEF SameTables

LEMMA DisconnectStepIsGood ==
  ASSUME Good(ns), DisconnectStep
  PROVE  Good(ns') /\ Marked(ns, ns') /\ SameTables(ns, ns')
<1>1. PICK e \in EdgeId : Disconnect(e)
  BY DEF DisconnectStep
<1>2. Sound(ns') /\ ns'.nodes = ns.nodes /\ ns'.slots = ns.slots
  BY <1>1, RemoveEdgesIsSound DEF Disconnect, Good
<1>3. Marked(ns, ns')
  BY <1>1, RemoveEdgesMarks DEF Disconnect, Good
<1> QED
  BY <1>2, <1>3, GoodElsewhere DEF SameTables

LEMMA ReorderStepIsGood ==
  ASSUME Good(ns), ReorderStep
  PROVE  Good(ns') /\ Marked(ns, ns') /\ SameTables(ns, ns')
<1>1. PICK d \in Side, e \in EdgeId, k \in 1..Cardinality(EdgeId) : ReorderEdge(d, e, k)
  BY DEF ReorderStep
<1> DEFINE end == ns.edges[e][d]
           i == end.slot
           C == ns.changed \cup {end.node}
<1>2. /\ e \in EdgesOf(ns) /\ k \in DOMAIN ns.conn[d][i]
      /\ Reordered(ns, ns', d, i, e, k, C)
  BY <1>1 DEF ReorderEdge, Reordered
<1>3. Sound(ns) /\ ns \in States
  BY DEF Good, Sound
<1>4. C \in SUBSET Path
  <2>1. end.node \in ns.nodes
    BY <1>2, <1>3 DEF Sound, Attached, Resolves
  <2> QED
    BY <1>3, <2>1 DEF States
<1>5. i = ns.edges[e][d].slot
  OBVIOUS
<1>6. C = ns.changed \cup {ns.edges[e][d].node}
  OBVIOUS
<1> HIDE DEF C, i
<1>7. Marked(ns, ns')
  BY <1>2, <1>3, <1>5, <1>6, ReorderMarks
<1>8. Sound(ns') /\ ns'.nodes = ns.nodes /\ ns'.slots = ns.slots
  BY <1>2, <1>3, <1>4, <1>5, ReorderIsSound
<1> QED
  BY <1>7, <1>8, GoodElsewhere DEF SameTables

LEMMA DrainStep ==
  ASSUME Good(ns), Drain
  PROVE  Good(ns') /\ \A i : SameFeed(ns, ns', i)
<1>1. Sound(ns') /\ ns'.nodes = ns.nodes /\ ns'.slots = ns.slots
  BY MarkingIsSound DEF Drain, Good
<1>2. ns'.edges = ns.edges /\ ns'.conn = ns.conn
  BY DEF Drain, Good, Sound, States
<1>3. \A i : SameFeed(ns, ns', i)
  BY <1>2 DEF SameFeed, Source, EdgesOf
<1> QED
  BY <1>1, <1>3, GoodElsewhere

-----------------------------------------------------------------------------
(* The inductive invariant.                                                *)

IInv == Good(ns)

LEMMA GoodInit == Init => Good(ns)
<1> SUFFICES ASSUME Init
             PROVE  Good(ns)
  OBVIOUS
<1>1. /\ ns.nodes = {} /\ ns.changed = {}
      /\ ns.slots = [d \in Side |-> [p \in Path |-> <<>>]]
      /\ ns.owner = [d \in Side |-> [i \in SlotId |-> None]]
      /\ ns.edges = [e \in EdgeId |-> None]
      /\ ns.conn = [d \in Side |-> [i \in SlotId |-> <<>>]]
      /\ ns.touching = [d \in Side |-> [p \in Path |-> <<>>]]
  BY DEF Init
<1>2. ns \in States
  <2>1. ns.slots \in [Side -> [Path -> Seq(Slot)]]
    <3>1. [p \in Path |-> <<>>] \in [Path -> Seq(Slot)]
      OBVIOUS
    <3> QED
      BY <1>1, <3>1
  <2>2. ns.owner \in [Side -> [SlotId -> (Path \X Nat) \cup {None}]]
    <3>1. [i \in SlotId |-> None] \in [SlotId -> (Path \X Nat) \cup {None}]
      OBVIOUS
    <3> QED
      BY <1>1, <3>1
  <2>3. ns.edges \in [EdgeId -> Edge \cup {None}]
    BY <1>1
  <2>4. ns.conn \in [Side -> [SlotId -> Seq(EdgeId)]]
    <3>1. [i \in SlotId |-> <<>>] \in [SlotId -> Seq(EdgeId)]
      OBVIOUS
    <3> QED
      BY <1>1, <3>1
  <2>5. ns.touching \in [Side -> [Path -> Seq(EdgeId)]]
    <3>1. [p \in Path |-> <<>>] \in [Path -> Seq(EdgeId)]
      OBVIOUS
    <3> QED
      BY <1>1, <3>1
  <2> QED
    BY <1>1, <2>1, <2>2, <2>3, <2>4, <2>5 DEF Init, States
<1>3. EdgesOf(ns) = {}
  BY <1>1 DEF EdgesOf
<1>4. \A d \in Side : \A p \in Path : ns.slots[d][p] = <<>> /\ ns.touching[d][p] = <<>>
  BY <1>1
<1>5. \A d \in Side : \A i \in SlotId : ns.owner[d][i] = None /\ ns.conn[d][i] = <<>>
  BY <1>1
<1>6. DOMAIN <<>> = {}
  OBVIOUS
<1>7. \A D : D = {} => Once(<<>>, D)
  BY <1>6 DEF Once
<1>8. Filed(ns)
  BY <1>3, <1>4, <1>5, <1>7 DEF Filed
<1>9. Owned(ns)
  BY <1>4, <1>5, <1>6 DEF Owned
<1>10. Attached(ns) /\ SameTypes(ns)
  BY <1>3 DEF Attached, SameTypes
<1>11. Limited(ns)
  BY <1>4, <1>6 DEF Limited, Side
<1>12. Vacant(ns) /\ SamePorts(ns)
  BY <1>1, <1>4 DEF Vacant, SamePorts
<1> QED
  BY <1>2, <1>8, <1>9, <1>10, <1>11, <1>12 DEF Good, Sound

(* What a step does to what the slots deliver.                             *)
Covered(s, t) == \A p \in Path : \A i \in Ids[p] : p \in t.changed \/ SameFeed(s, t, i)

LEMMA GoodStep ==
  ASSUME Good(ns), [Next]_vars
  PROVE  Good(ns') /\ Covered(ns, ns')
<1>1. ASSUME Good(ns'), Noted(ns, ns')
      PROVE  Good(ns') /\ Covered(ns, ns')
  BY <1>1 DEF Noted, Covered
<1>2. CASE CreateStep
  <2>1. ASSUME NEW p \in Path \ ns.nodes, CreateNode(p)
        PROVE  Good(ns') /\ Noted(ns, ns')
    <3>1. \A d \in Side : ns.slots[d][p] = <<>>
      BY <2>1 DEF CreateNode, IsProxy, Good, Vacant
    <3> QED
      BY <2>1, <3>1, CreateNodeStep DEF Marked
  <2> QED
    BY <1>1, <1>2, <2>1, CreateSubGraphStep DEF CreateStep, Marked
<1>3. CASE RemoveStep
  BY <1>1, <1>3, RemoveStepIsGood DEF Marked
<1>4. CASE AddPortStep
  <2>1. Good(ns') /\ Noted(ns, ns')
    BY <1>4, AddSubGraphPortStep, InsertSubGraphPortStep, AddInterfacePortStep DEF AddPortStep, Marked
  <2> QED
    BY <1>1, <2>1
<1>5. CASE RemovePortStep
  BY <1>1, <1>5, RemoveSubGraphPortStep DEF RemovePortStep, Marked
<1>6. CASE RemoveIdlePort
  BY <1>1, <1>6, RemoveIdlePortStep DEF Marked
<1>7. CASE ConnectStep
  <2>1. Good(ns') /\ Noted(ns, ns')
    BY <1>7, ConnectIsGood DEF ConnectStep
  <2> QED
    BY <1>1, <2>1
<1>8. CASE DisconnectStep
  BY <1>1, <1>8, DisconnectStepIsGood DEF Marked
<1>9. CASE ReorderStep
  BY <1>1, <1>9, ReorderStepIsGood DEF Marked
<1>10. CASE Drain
  BY <1>10, DrainStep DEF Covered
<1>11. CASE UNCHANGED vars
  <2>1. ns' = ns
    BY <1>11 DEF vars
  <2> QED
    BY <2>1 DEF Covered, SameFeed, Source
<1> QED
  BY <1>2, <1>3, <1>4, <1>5, <1>6, <1>7, <1>8, <1>9, <1>10, <1>11 DEF Next

(* Every edit of the graph but the removal of an interface port that still *)
(* carries edges leaves the tables and everything that restates them good. *)
THEOREM GraphStaysGood == Spec => []IInv
<1>1. Init => IInv
  BY GoodInit DEF IInv
<1>2. IInv /\ [Next]_vars => IInv'
  BY GoodStep DEF IInv
<1> QED
  BY <1>1, <1>2, PTL DEF Spec

-----------------------------------------------------------------------------
(* What follows.                                                           *)

(* The tables stay well typed.                                             *)
THEOREM TypeCorrect == Spec => []TypeOK
<1>1. IInv => TypeOK
  BY DEF IInv, Good, Sound, TypeOK
<1> QED
  BY <1>1, GraphStaysGood, PTL

LEMMA OnceLists ==
  ASSUME NEW q \in Seq(EdgeId), NEW D, Once(q, D)
  PROVE  Lists(q, D)
<1> DEFINE n == Len(q)
<1>1. n \in Nat /\ DOMAIN q = 1..n /\ q \in [1..n -> EdgeId]
  OBVIOUS
<1>2. q \in [1..n -> D]
  BY <1>1 DEF Once
<1>3. q \in Bijection(1..n, D)
  BY <1>1, <1>2 DEF Once, Bijection, Injection, Surjection, IsInjective
<1>4. ExistsBijection(1..n, D)
  BY <1>3 DEF ExistsBijection
<1>5. Cardinality(D) = n
  BY <1>1, <1>4, FS_CountingElements
<1>6. {q[k] : k \in DOMAIN q} = D
  BY DEF Once
<1> QED
  BY <1>5, <1>6 DEF Lists

(* The connections of every slot and the edges of every node list just the *)
(* edges that name it, each once, after any sequence of edits.             *)
THEOREM IndexesStayInStep == Spec => []IndexesAgree
<1>1. IInv => IndexesAgree
  <2> SUFFICES ASSUME IInv
               PROVE  IndexesAgree
    OBVIOUS
  <2>1. Filed(ns) /\ ns \in States
    BY DEF IInv, Good, Sound
  <2>2. ASSUME NEW d \in Side, NEW i \in SlotId
        PROVE  Lists(ns.conn[d][i], {e \in EdgesOf(ns) : ns.edges[e][d].slot = i})
    <3>1. ns.conn[d][i] \in Seq(EdgeId)
      BY <2>1 DEF States
    <3>2. Once(ns.conn[d][i], {e \in EdgesOf(ns) : ns.edges[e][d].slot = i})
      BY <2>1 DEF Filed
    <3> QED
      BY <3>1, <3>2, OnceLists
  <2>3. ASSUME NEW d \in Side, NEW p \in Path
        PROVE  Lists(ns.touching[d][p], {e \in EdgesOf(ns) : ns.edges[e][d].node = p})
    <3>1. ns.touching[d][p] \in Seq(EdgeId)
      BY <2>1 DEF States
    <3>2. Once(ns.touching[d][p], {e \in EdgesOf(ns) : ns.edges[e][d].node = p})
      BY <2>1 DEF Filed
    <3> QED
      BY <3>1, <3>2, OnceLists
  <2> QED
    BY <2>2, <2>3 DEF IndexesAgree
<1> QED
  BY <1>1, GraphStaysGood, PTL

(* The owner maps stay in lock-step with the slot tables.                  *)
THEOREM OwnersStayInStep == Spec => []OwnersAgree
<1>1. IInv => OwnersAgree
  <2> SUFFICES ASSUME IInv
               PROVE  OwnersAgree
    OBVIOUS
  <2>1. Owned(ns)
    BY DEF IInv, Good, Sound
  <2>2. ASSUME NEW d \in Side, NEW i \in SlotId, ns.owner[d][i] # None
        PROVE  /\ HasSlot(ns, d, ns.owner[d][i][1], ns.owner[d][i][2])
               /\ ns.slots[d][ns.owner[d][i][1]][ns.owner[d][i][2]].id = i
    <3>1. PICK p \in Path : \E k \in DOMAIN ns.slots[d][p] :
                 ns.owner[d][i] = <<p, k>> /\ ns.slots[d][p][k].id = i
      BY <2>1, <2>2 DEF Owned
    <3>2. PICK k \in DOMAIN ns.slots[d][p] : ns.owner[d][i] = <<p, k>> /\ ns.slots[d][p][k].id = i
      BY <3>1
    <3>3. ns.owner[d][i][1] = p /\ ns.owner[d][i][2] = k
      BY <3>2
    <3> QED
      BY <3>2, <3>3 DEF HasSlot
  <2>3. \A d \in Side : \A p \in Path : \A k \in DOMAIN ns.slots[d][p] :
          ns.owner[d][ns.slots[d][p][k].id] = <<p, k>>
    BY <2>1 DEF Owned
  <2> QED
    BY <2>2, <2>3 DEF OwnersAgree
<1> QED
  BY <1>1, GraphStaysGood, PTL

(* The path, the index and the slot id of an edge go on naming one slot.   *)
THEOREM EdgesStayAttached == Spec => []EdgesAgree
<1>1. IInv => EdgesAgree
  BY DEF IInv, Good, Sound, Attached, Resolves, EdgesAgree, HasSlot
<1> QED
  BY <1>1, GraphStaysGood, PTL

(* No edit moves an edge onto a slot of another type.                      *)
THEOREM EdgesStayTyped == Spec => []EdgesAreTyped
<1>1. IInv => EdgesAreTyped
  BY DEF IInv, Good, Sound, SameTypes, SlotAt, EdgesAreTyped, SlotOf
<1> QED
  BY <1>1, GraphStaysGood, PTL

(* No sequence of edits gives a slot more edges than it takes.             *)
THEOREM LimitsStayHeld == Spec => []LimitsHold
<1>1. IInv => LimitsHold
  BY DEF IInv, Good, Sound, Limited, LimitsHold
<1> QED
  BY <1>1, GraphStaysGood, PTL

(* No edge is ever filed under an external slot of a SubGraph.             *)
THEOREM ExternalsStayAliases == Spec => []ExternalsAreAliases
<1>1. IInv => ExternalsAreAliases
  BY DEF IInv, Good, Sound, Attached, Resolves, ExternalsAreAliases
<1> QED
  BY <1>1, GraphStaysGood, PTL

LEMMA AlikeTypes ==
  ASSUME NEW q, NEW r, Alike(q, r)
  PROVE  Types(q) = Types(r)
BY DEF Alike, Types

(* The two sides of an interface, and a SubGraph's external slots and its  *)
(* proxy's, keep the same ports in the same places.                        *)
THEOREM PortsStayAlike == Spec => []PortsAgree
<1>1. IInv => PortsAgree
  BY AlikeTypes DEF IInv, Good, SamePorts, PortsAgree
<1> QED
  BY <1>1, GraphStaysGood, PTL

(* From an edge to the external port it was wired to and back is the       *)
(* identity, whatever ports have come and gone in between.                 *)
THEOREM ExternalEndsStay == Spec => []ExternalEndsResolve
<1>1. IInv => ExternalEndsResolve
  <2> SUFFICES ASSUME IInv, NEW e \in EdgesOf(ns), NEW d \in Side,
                      ExternalEnd(ns, d, ns.edges[e][d]) # None
               PROVE  LET end == ns.edges[e][d]
                          port == ExternalEnd(ns, d, end)
                      IN  /\ HasSlot(ns, d, port[1], port[2])
                          /\ ExternalSlot(ns, d, port[1], port[2]) = end
    BY DEF ExternalEndsResolve
  <2> DEFINE end == ns.edges[e][d]
             g == Parent[end.node]
  <2>1. /\ g \in SubGraph \cap ns.nodes /\ end.node = Proxy[g][d]
        /\ ExternalEnd(ns, d, end) = <<g, end.index>>
    BY DEF ExternalEnd
  <2>2. Resolves(ns, d, end)
    BY DEF IInv, Good, Sound, Attached
  <2>3. end \in End
    BY DEF IInv, Good, Sound, States, EdgesOf, Edge
  <2>4. end = [node |-> end.node, index |-> end.index, slot |-> end.slot]
    BY <2>3 DEF End
  <2> HIDE DEF end, g
  <2>5. HasSlot(ns, d, Proxy[g][d], end.index) /\ ns.slots[d][Proxy[g][d]][end.index].id = end.slot
    BY <2>1, <2>2 DEF Resolves, HasSlot
  <2>6. HasSlot(ns, d, g, end.index)
    <3>1. Alike(ns.slots[d][g], ns.slots[d][Proxy[g][d]])
      BY <2>1, <2>2 DEF IInv, Good, SamePorts, Resolves
    <3> QED
      BY <2>5, <3>1 DEF Alike, HasSlot
  <2>7. ExternalSlot(ns, d, g, end.index) = end
    BY <2>1, <2>4, <2>5 DEF ExternalSlot
  <2>8. \A x, y : <<x, y>>[1] = x /\ <<x, y>>[2] = y
    OBVIOUS
  <2> QED
    BY <2>1, <2>6, <2>7, <2>8 DEF end
<1> QED
  BY <1>1, GraphStaysGood, PTL

(* By path and index an edge leads to the slot it is filed under.          *)
LEMMA FeedsAreSources ==
  ASSUME NEW s, Sound(s), NEW i \in SlotId
  PROVE  Feeds(s, i) = [k \in DOMAIN s.conn["in"][i] |-> Source(s, s.conn["in"][i][k])]
<1> SUFFICES ASSUME NEW k \in DOMAIN s.conn["in"][i]
             PROVE  LET x == s.edges[s.conn["in"][i][k]]["out"]
                    IN  s.slots["out"][x.node][x.index].id = x.slot
  BY DEF Feeds, Source
<1>1. s.conn["in"][i][k] \in EdgesOf(s)
  BY DEF Sound, Filed, Once, Side
<1>2. Resolves(s, "out", s.edges[s.conn["in"][i][k]]["out"])
  BY <1>1 DEF Sound, Attached, Side
<1> QED
  BY <1>2 DEF Resolves

(* Whatever the edit, a slot that goes on delivering what it did, or whose *)
(* node is dirty: no change of the wiring escapes the next pass.           *)
THEOREM FeedChangesStayMarked == Spec => FeedChangesAreMarked
<1> DEFINE A == \A p \in Path :
                  \A i \in IdsOf(ns.slots["in"][p]) \cap IdsOf(ns'.slots["in"][p]) :
                    Feeds(ns', i) # Feeds(ns, i) => p \in ns'.changed
<1>1. IInv /\ [Next]_vars => [A]_vars
  <2> SUFFICES ASSUME IInv, [Next]_vars, NEW p \in Path,
                      NEW i \in IdsOf(ns.slots["in"][p]), p \notin ns'.changed
               PROVE  Feeds(ns', i) = Feeds(ns, i)
    OBVIOUS
  <2>1. Good(ns) /\ Good(ns') /\ Covered(ns, ns')
    BY GoodStep DEF IInv
  <2>2. Sound(ns) /\ Sound(ns')
    BY <2>1 DEF Good
  <2>3. i \in Ids[p] /\ i \in SlotId
    <3>1. PICK k \in DOMAIN ns.slots["in"][p] : i = ns.slots["in"][p][k].id
      BY DEF IdsOf
    <3>2. ns.slots["in"][p][k].id \in Ids[p]
      BY <2>2, <3>1 DEF Sound, Owned, Side
    <3> QED
      BY <3>1, <3>2 DEF SlotId
  <2>4. SameFeed(ns, ns', i)
    BY <2>1, <2>3 DEF Covered
  <2>5. Once(ns.conn["in"][i], {e \in EdgesOf(ns) : ns.edges[e]["in"].slot = i})
    BY <2>2, <2>3 DEF Sound, Filed, Side
  <2>6. \A k \in DOMAIN ns.conn["in"][i] :
          Source(ns', ns.conn["in"][i][k]) = Source(ns, ns.conn["in"][i][k])
    BY <2>4, <2>5 DEF Once, SameFeed
  <2>7. Feeds(ns, i) = [k \in DOMAIN ns.conn["in"][i] |-> Source(ns, ns.conn["in"][i][k])]
    BY <2>2, <2>3, FeedsAreSources
  <2>8. Feeds(ns', i) = [k \in DOMAIN ns'.conn["in"][i] |-> Source(ns', ns'.conn["in"][i][k])]
    BY <2>2, <2>3, FeedsAreSources
  <2>9. ns'.conn["in"][i] = ns.conn["in"][i]
    BY <2>4 DEF SameFeed
  <2> QED
    BY <2>6, <2>7, <2>8, <2>9
<1>2. Spec => [][A]_vars
  BY <1>1, GraphStaysGood, PTL DEF Spec
<1> QED
  BY <1>2 DEF FeedChangesAreMarked, A

=============================================================================
