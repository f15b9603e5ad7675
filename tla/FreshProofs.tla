---------------------------- MODULE FreshProofs -----------------------------
(***************************************************************************)
(* Whoever is not to run again is up to date: what it has in the cache,    *)
(* what was reported of it and what its edges are said to deliver are what *)
(* the graph, the data and the defaults make them now.                     *)
(*                                                                         *)
(* The invariant, Current, speaks of every node and edge whose feeds can   *)
(* be traced back past unmarked ports (Traced), which a settled one's can. *)
(* An edit marks the nodes whose feeds it changes, so that what is still   *)
(* traced was traced before and delivers what it did (EditCarries).  A     *)
(* pass gives those it runs what they would have at its end, because their *)
(* feeds are in earlier levels (RanIsFresh); those it skips are fed by     *)
(* what has not changed, through ports that have not (UnchangedIsStill,    *)
(* SkippedRests).                                                          *)
(***************************************************************************)
EXTENDS EngineProofs

-----------------------------------------------------------------------------
(* What an edge delivers depends on the edges behind it.                   *)

Incoming(s, p) == {e \in EdgesOf(s) : s.edges[e]["in"].node = p}

(* The edge e comes from a port, which is fed by the edges behind e.       *)
FromPort(s, e) == IsInterface(s, s.edges[e]["out"].node)
PortId(s, e) == InputOf(s, s.edges[e]["out"]).id
Behind(s, e) == {f \in EdgesOf(s) : s.edges[f]["in"].slot = PortId(s, e)}

LEMMA PortFacts ==
  ASSUME NEW s, Good(s), NEW e \in EdgesOf(s), FromPort(s, e),
         NEW x, x = s.edges[e]["out"]
  PROVE  /\ x.node \in s.nodes \cap Interface /\ x.node \in Path
         /\ x.index \in DOMAIN s.slots["in"][x.node] /\ x.index \in DOMAIN s.slots["out"][x.node]
         /\ HasSlot(s, "in", x.node, x.index)
         /\ PortId(s, e) = s.slots["in"][x.node][x.index].id
         /\ PortId(s, e) \in SlotId /\ PortId(s, e) \in Ids[x.node]
         /\ InputOf(s, x).id = PortId(s, e)
<1>1. Sound(s) /\ "in" \in Side /\ "out" \in Side
  BY DEF Good, Side
<1>2. x \in End /\ x.node \in Path /\ Resolves(s, "out", x)
  BY <1>1, EdgeFacts
<1>3. x.node \in s.nodes \cap Interface
  BY DEF FromPort, IsInterface
<1>4. x.index \in DOMAIN s.slots["out"][x.node]
  BY <1>2 DEF Resolves
<1>5. Alike(s.slots["in"][x.node], s.slots["out"][x.node])
  BY <1>3 DEF Good, SamePorts
<1>6. x.index \in DOMAIN s.slots["in"][x.node]
  BY <1>4, <1>5 DEF Alike
<1>7. PortId(s, e) = s.slots["in"][x.node][x.index].id /\ InputOf(s, x).id = PortId(s, e)
  BY DEF PortId, InputOf
<1>8. s.slots["in"][x.node][x.index].id \in Ids[x.node]
  BY <1>1, <1>2, <1>6 DEF Sound, Owned
<1>9. PortId(s, e) \in SlotId /\ PortId(s, e) \in Ids[x.node]
  BY <1>2, <1>7, <1>8 DEF SlotId
<1> QED
  BY <1>2, <1>3, <1>4, <1>6, <1>7, <1>9 DEF HasSlot

LEMMA BehindFacts ==
  ASSUME NEW s, Good(s), NEW e \in EdgesOf(s), FromPort(s, e), NEW f \in Behind(s, e)
  PROVE  f \in EdgesOf(s) /\ s.edges[f]["in"].node = s.edges[e]["out"].node
<1> DEFINE x == s.edges[e]["out"]
<1>1. x.node \in Path /\ PortId(s, e) \in Ids[x.node]
  BY PortFacts
<1>2. f \in EdgesOf(s) /\ s.edges[f]["in"].slot = PortId(s, e)
  BY DEF Behind
<1> HIDE DEF x
<1>3. s.edges[f]["in"].node = x.node
  BY <1>1, <1>2, FiledUnderItsNode DEF Good, Side
<1> QED
  BY <1>2, <1>3 DEF x

(* Edges of one source come from one port.                                 *)
LEMMA PortIsSource ==
  ASSUME NEW s, Sound(s), NEW e \in EdgesOf(s), NEW f \in EdgesOf(s)
  PROVE  Port(s.edges[e]["out"]) = Port(s.edges[f]["out"]) <=> Source(s, e) = Source(s, f)
<1> DEFINE x == s.edges[e]["out"]
           y == s.edges[f]["out"]
<1>1. "out" \in Side /\ x.node \in Path /\ y.node \in Path /\ Resolves(s, "out", x) /\ Resolves(s, "out", y)
  BY EdgeFacts DEF Side
<1>2. Port(x) = <<x.node, x.index>> /\ Port(y) = <<y.node, y.index>>
  BY DEF Port
<1>3. Source(s, e) = <<x.node, x.slot>> /\ Source(s, f) = <<y.node, y.slot>>
  BY DEF Source
<1> HIDE DEF x, y
<1>4. x.node = y.node => (x.index = y.index <=> x.slot = y.slot)
  <2>1. /\ x.index \in DOMAIN s.slots["out"][x.node] /\ s.slots["out"][x.node][x.index].id = x.slot
        /\ y.index \in DOMAIN s.slots["out"][y.node] /\ s.slots["out"][y.node][y.index].id = y.slot
    BY <1>1 DEF Resolves
  <2>2. x.node = y.node /\ x.slot = y.slot => x.index = y.index
    BY <1>1, <2>1, IdsTellSlots
  <2> QED
    BY <2>1, <2>2
<1> QED
  BY <1>2, <1>3, <1>4 DEF x, y

(* The two slots of a port go where it goes.                               *)
PortsFollow(s, t) ==
  \A a \in Interface \cap s.nodes \cap t.nodes :
    \A j \in DOMAIN s.slots["out"][a] : \A i \in DOMAIN t.slots["out"][a] :
      s.slots["out"][a][j].id = t.slots["out"][a][i].id =>
        s.slots["in"][a][j].id = t.slots["in"][a][i].id

(* Along the edges of A nothing has changed from s, with the cache c and   *)
(* the defaults def, to t, with k and dflt.                                *)
Carried(s, c, def, t, k, dflt, A) ==
  /\ A \subseteq EdgesOf(s) \cap EdgesOf(t)
  /\ \A e \in A : Source(t, e) = Source(s, e)
  /\ \A e \in A : ~ FromPort(t, e) => c[t.edges[e]["out"].slot] = k[t.edges[e]["out"].slot]
  /\ \A e \in A : FromPort(t, e) =>
       /\ t.conn["in"][PortId(t, e)] = s.conn["in"][PortId(t, e)]
       /\ dflt[PortId(t, e)] = def[PortId(t, e)]
       /\ Behind(t, e) \subseteq A

LEMMA CarriedEdge ==
  ASSUME NEW s, NEW t, Good(s), Good(t), PortsFollow(s, t), NEW e \in EdgesOf(s) \cap EdgesOf(t),
         Source(t, e) = Source(s, e)
  PROVE  /\ s.edges[e]["out"].node = t.edges[e]["out"].node
         /\ s.edges[e]["out"].slot = t.edges[e]["out"].slot
         /\ FromPort(s, e) <=> FromPort(t, e)
         /\ FromPort(t, e) => PortId(s, e) = PortId(t, e)
<1> DEFINE x == s.edges[e]["out"]
           y == t.edges[e]["out"]
<1>1. Sound(s) /\ Sound(t) /\ "out" \in Side
  BY DEF Good, Side
<1>2. x.node \in Path /\ Resolves(s, "out", x) /\ Resolves(t, "out", y)
  BY <1>1, EdgeFacts
<1>3. x.node = y.node /\ x.slot = y.slot
  BY DEF Source
<1>4. (FromPort(s, e) <=> x.node \in s.nodes \cap Interface) /\ (FromPort(t, e) <=> y.node \in t.nodes \cap Interface)
  BY DEF FromPort, IsInterface
<1>5. FromPort(t, e) => PortId(t, e) = t.slots["in"][y.node][y.index].id
  BY PortFacts
<1>6. FromPort(s, e) => PortId(s, e) = s.slots["in"][x.node][x.index].id
  BY PortFacts
<1> HIDE DEF x, y
<1>7. /\ x.node \in s.nodes /\ x.index \in DOMAIN s.slots["out"][x.node] /\ s.slots["out"][x.node][x.index].id = x.slot
      /\ y.node \in t.nodes /\ y.index \in DOMAIN t.slots["out"][y.node] /\ t.slots["out"][y.node][y.index].id = y.slot
  BY <1>2 DEF Resolves
<1>8. FromPort(s, e) <=> FromPort(t, e)
  BY <1>3, <1>4, <1>7
<1>9. FromPort(t, e) => s.slots["in"][x.node][x.index].id = t.slots["in"][y.node][y.index].id
  <2>1. ASSUME x.node \in Interface \cap s.nodes \cap t.nodes
        PROVE  s.slots["in"][x.node][x.index].id = t.slots["in"][x.node][y.index].id
    <3>1. x.index \in DOMAIN s.slots["out"][x.node] /\ y.index \in DOMAIN t.slots["out"][x.node]
      BY <1>3, <1>7
    <3>2. s.slots["out"][x.node][x.index].id = t.slots["out"][x.node][y.index].id
      BY <1>3, <1>7
    <3> QED
      BY <2>1, <3>1, <3>2 DEF PortsFollow
  <2> QED
    BY <1>3, <1>4, <1>7, <2>1
<1> QED
  BY <1>3, <1>5, <1>6, <1>8, <1>9 DEF x, y

Outs(s, t, A) == {<<s.edges[e]["out"], t.edges[e]["out"]>> : e \in A}

LEMMA OutsFacts ==
  ASSUME NEW s, NEW t, NEW A
  PROVE  /\ \A e \in A : <<s.edges[e]["out"], t.edges[e]["out"]>> \in Outs(s, t, A)
         /\ \A a, b : <<a, b>> \in Outs(s, t, A) =>
              \E e \in A : a = s.edges[e]["out"] /\ b = t.edges[e]["out"]
BY DEF Outs

(* The feeders of the port that e comes from.                              *)
LEMMA PortFeeders ==
  ASSUME NEW s, Good(s), NEW e \in EdgesOf(s), FromPort(s, e)
  PROVE  LET q == s.conn["in"][PortId(s, e)]
             feeders == Feeders(s, InputOf(s, s.edges[e]["out"]))
         IN  /\ DOMAIN feeders = DOMAIN q
             /\ \A m \in DOMAIN q : q[m] \in Behind(s, e) /\ feeders[m] = s.edges[q[m]]["out"]
<1> DEFINE x == s.edges[e]["out"]
           slot == InputOf(s, x)
           q == s.conn["in"][PortId(s, e)]
<1>1. /\ x.node \in Path /\ x.index \in DOMAIN s.slots["in"][x.node] /\ slot.id = PortId(s, e)
  BY PortFacts
<1>2. slot = s.slots["in"][x.node][x.index]
  BY DEF InputOf
<1>3. q = s.conn["in"][slot.id]
  BY <1>1
<1>4. Feeders(s, slot) = [m \in DOMAIN q |-> s.edges[q[m]]["out"]]
  BY <1>3 DEF Feeders
<1> HIDE DEF x, slot
<1>7. \A m \in DOMAIN q : q[m] \in Behind(s, e)
  <2>1. Sound(s) /\ PortId(s, e) \in SlotId
    BY PortFacts DEF Good
  <2>2. Once(q, {f \in EdgesOf(s) : s.edges[f]["in"].slot = PortId(s, e)})
    BY <2>1 DEF Sound, Filed, Side
  <2> QED
    BY <2>2 DEF Once, Behind
<1> HIDE DEF q
<1>8. /\ DOMAIN Feeders(s, slot) = DOMAIN q
      /\ \A m \in DOMAIN q : Feeders(s, slot)[m] = s.edges[q[m]]["out"]
  BY <1>4
<1> QED
  BY <1>7, <1>8 DEF q, slot, x

LEMMA FeedersMatch ==
  ASSUME NEW s, NEW t, NEW c, NEW def, NEW k, NEW dflt, NEW A,
         Good(s), Good(t), PortsFollow(s, t), Carried(s, c, def, t, k, dflt, A),
         NEW e \in A, FromPort(t, e)
  PROVE  EndsMatch(Outs(s, t, A), Feeders(s, InputOf(s, s.edges[e]["out"])),
                                  Feeders(t, InputOf(t, t.edges[e]["out"])))
<1> DEFINE i == PortId(t, e)
           q == t.conn["in"][i]
           F == Feeders(s, InputOf(s, s.edges[e]["out"]))
           G == Feeders(t, InputOf(t, t.edges[e]["out"]))
<1>1. e \in EdgesOf(s) \cap EdgesOf(t) /\ Source(t, e) = Source(s, e)
  BY DEF Carried
<1>2. FromPort(s, e) /\ PortId(s, e) = i
  BY <1>1, CarriedEdge
<1>3. s.conn["in"][i] = q /\ Behind(t, e) \subseteq A
  BY DEF Carried
<1>4. DOMAIN F = DOMAIN q /\ \A m \in DOMAIN q : F[m] = s.edges[q[m]]["out"]
  BY <1>1, <1>2, <1>3, PortFeeders
<1>5. DOMAIN G = DOMAIN q /\ \A m \in DOMAIN q : q[m] \in Behind(t, e) /\ G[m] = t.edges[q[m]]["out"]
  BY <1>1, PortFeeders
<1> HIDE DEF F, G, q
<1>6. \A m \in DOMAIN q : <<F[m], G[m]>> \in Outs(s, t, A)
  BY <1>3, <1>4, <1>5, OutsFacts
<1>7. EndsMatch(Outs(s, t, A), F, G)
  BY <1>4, <1>5, <1>6 DEF EndsMatch
<1> QED
  BY <1>7 DEF F, G

LEMMA AlternatesMatch ==
  ASSUME NEW s, NEW t, NEW c, NEW def, NEW k, NEW dflt, NEW A,
         Good(s), Good(t), PortsFollow(s, t), Carried(s, c, def, t, k, dflt, A),
         NEW e \in A, NEW a, a = s.edges[e]["out"], NEW b, b = t.edges[e]["out"]
  PROVE  Alternates(Outs(s, t, A), s, c, def, t, k, dflt, a, b)
<1>1. e \in EdgesOf(s) \cap EdgesOf(t) /\ Source(t, e) = Source(s, e)
  BY DEF Carried
<1>2. /\ a.node = b.node /\ a.slot = b.slot /\ (FromPort(s, e) <=> FromPort(t, e))
      /\ FromPort(t, e) => PortId(s, e) = PortId(t, e)
  BY <1>1, CarriedEdge
<1>3. (FromPort(s, e) <=> IsInterface(s, a.node)) /\ (FromPort(t, e) <=> IsInterface(t, b.node))
  BY DEF FromPort
<1>4. FromPort(s, e) => HasSlot(s, "in", a.node, a.index) /\ InputOf(s, a).id = PortId(s, e)
  BY <1>1, PortFacts
<1>5. FromPort(t, e) => HasSlot(t, "in", b.node, b.index) /\ InputOf(t, b).id = PortId(t, e)
  BY <1>1, PortFacts
<1>6. ~ FromPort(t, e) => c[b.slot] = k[b.slot]
  BY DEF Carried
<1>7. FromPort(t, e) => dflt[PortId(t, e)] = def[PortId(t, e)]
  BY DEF Carried
<1>8. FromPort(t, e) => EndsMatch(Outs(s, t, A), Feeders(s, InputOf(s, a)), Feeders(t, InputOf(t, b)))
  BY FeedersMatch
<1> QED
  BY <1>2, <1>3, <1>4, <1>5, <1>6, <1>7, <1>8 DEF Alternates

LEMMA WalksPair ==
  ASSUME NEW s, NEW t, NEW c, NEW def, NEW k, NEW dflt, NEW A,
         Good(s), Good(t), PortsFollow(s, t), Carried(s, c, def, t, k, dflt, A)
  PROVE  Pairing(Outs(s, t, A), s, c, def, t, k, dflt)
<1> DEFINE E == Outs(s, t, A)
<1>1. /\ Sound(s) /\ Sound(t) /\ A \subseteq EdgesOf(s) \cap EdgesOf(t)
      /\ \A e \in A : Source(t, e) = Source(s, e)
  BY DEF Carried, Good
<1>2. E \subseteq End \X End
  <2>1. \A e \in A : s.edges[e]["out"] \in End /\ t.edges[e]["out"] \in End
    BY <1>1, EdgeFacts DEF Side
  <2> QED
    BY <2>1 DEF Outs
<1>3. ASSUME NEW e \in A, NEW f \in A
      PROVE  Port(s.edges[e]["out"]) = Port(s.edges[f]["out"]) <=> Port(t.edges[e]["out"]) = Port(t.edges[f]["out"])
  <2>1. Port(s.edges[e]["out"]) = Port(s.edges[f]["out"]) <=> Source(s, e) = Source(s, f)
    BY <1>1, PortIsSource
  <2>2. Port(t.edges[e]["out"]) = Port(t.edges[f]["out"]) <=> Source(t, e) = Source(t, f)
    BY <1>1, PortIsSource
  <2> QED
    BY <1>1, <2>1, <2>2
<1>4. ASSUME NEW e \in A
      PROVE  Alternates(E, s, c, def, t, k, dflt, s.edges[e]["out"], t.edges[e]["out"])
  BY AlternatesMatch
<1>5. \A a, b : <<a, b>> \in E => \E e \in A : a = s.edges[e]["out"] /\ b = t.edges[e]["out"]
  BY OutsFacts
<1> HIDE DEF E
<1>6. \A a, b, v, w : <<a, b>> \in E /\ <<v, w>> \in E => (Port(a) = Port(v) <=> Port(b) = Port(w))
  BY <1>3, <1>5
<1>7. \A a, b : <<a, b>> \in E => Alternates(E, s, c, def, t, k, dflt, a, b)
  BY <1>4, <1>5
<1>8. Pairing(E, s, c, def, t, k, dflt)
  BY <1>2, <1>6, <1>7 DEF Pairing
<1> QED
  BY <1>8 DEF E

(* What an edge delivers depends on the edges behind it.                   *)
LEMMA DeliveriesAgree ==
  ASSUME NEW s, NEW t, NEW c \in Filing, NEW def \in Filing, NEW k \in Filing, NEW dflt \in Filing, NEW A,
         Good(s), Good(t), PortsFollow(s, t), Carried(s, c, def, t, k, dflt, A), NEW e \in A
  PROVE  Delivered(s, c, def, e) = Delivered(t, k, dflt, e)
<1>1. Pairing(Outs(s, t, A), s, c, def, t, k, dflt)
  BY WalksPair
<1>2. <<s.edges[e]["out"], t.edges[e]["out"]>> \in Outs(s, t, A)
  BY OutsFacts
<1>3. Sound(s) /\ Sound(t)
  BY DEF Good
<1>4. Resolve(s, c, def, s.edges[e]["out"]) = Resolve(t, k, dflt, t.edges[e]["out"])
  BY <1>1, <1>2, <1>3, ResolveAgrees
<1> QED
  BY <1>4 DEF Delivered

(* What a run of p reads has not changed.                                  *)
Intact(s, def, t, dflt, p) ==
  /\ \A d \in Side : t.slots[d][p] = s.slots[d][p]
  /\ t.touching["in"][p] = s.touching["in"][p]
  /\ \A i \in IdsOf(t.slots["in"][p]) : t.conn["in"][i] = s.conn["in"][i] /\ dflt[i] = def[i]
  /\ \A e \in Incoming(t, p) : t.edges[e]["in"].index = s.edges[e]["in"].index

LEMMA SlotEdges ==
  ASSUME NEW s, Sound(s), NEW p \in Path, NEW j \in DOMAIN s.slots["in"][p],
         NEW i, i = s.slots["in"][p][j].id
  PROVE  i \in SlotId /\ \A m \in DOMAIN s.conn["in"][i] : s.conn["in"][i][m] \in Incoming(s, p)
<1>1. i \in Ids[p] /\ i \in SlotId
  <2>1. i \in Ids[p]
    BY DEF Sound, Owned, Side
  <2> QED
    BY <2>1 DEF SlotId
<1>2. Once(s.conn["in"][i], {f \in EdgesOf(s) : s.edges[f]["in"].slot = i})
  BY <1>1 DEF Sound, Filed, Side
<1>3. ASSUME NEW m \in DOMAIN s.conn["in"][i], NEW f, f = s.conn["in"][i][m]
      PROVE  f \in Incoming(s, p)
  <2>1. f \in EdgesOf(s) /\ s.edges[f]["in"].slot = i
    BY <1>2, <1>3 DEF Once
  <2>2. s.edges[f]["in"].node = p
    BY <1>1, <2>1, FiledUnderItsNode DEF Side
  <2> QED
    BY <2>1, <2>2 DEF Incoming
<1> QED
  BY <1>1, <1>3

LEMMA SlotValuesAgree ==
  ASSUME NEW s, NEW t, NEW c \in Filing, NEW def \in Filing, NEW k \in Filing, NEW dflt \in Filing, NEW A,
         Good(s), Good(t), PortsFollow(s, t), Carried(s, c, def, t, k, dflt, A),
         NEW p \in Path, Intact(s, def, t, dflt, p), Incoming(t, p) \subseteq A,
         NEW j \in DOMAIN t.slots["in"][p]
  PROVE  SlotValues(s, c, def, t.slots["in"][p][j]) = SlotValues(t, k, dflt, t.slots["in"][p][j])
<1> DEFINE slot == t.slots["in"][p][j]
           i == slot.id
           q == t.conn["in"][i]
           got == [m \in DOMAIN s.conn["in"][i] |-> Delivered(s, c, def, s.conn["in"][i][m])]
           had == [m \in DOMAIN q |-> Delivered(t, k, dflt, q[m])]
<1>1. i \in SlotId /\ \A m \in DOMAIN q : q[m] \in Incoming(t, p)
  BY SlotEdges DEF Good
<1>2. i \in IdsOf(t.slots["in"][p])
  BY DEF IdsOf
<1> HIDE DEF i
<1>3. s.conn["in"][i] = q /\ dflt[i] = def[i]
  BY <1>2 DEF Intact
<1> HIDE DEF q
<1>4. \A m \in DOMAIN q : Delivered(s, c, def, q[m]) = Delivered(t, k, dflt, q[m])
  BY <1>1, DeliveriesAgree
<1>5. got = had
  BY <1>3, <1>4
<1>6. SlotValues(s, c, def, slot) = IF Without(got, {None}) = <<>> /\ def[i] # None
                                    THEN <<def[i]>> ELSE Without(got, {None})
  BY DEF SlotValues, i
<1>7. SlotValues(t, k, dflt, slot) = IF Without(had, {None}) = <<>> /\ dflt[i] # None
                                     THEN <<dflt[i]>> ELSE Without(had, {None})
  BY DEF SlotValues, i, q
<1> HIDE DEF got, had
<1> QED
  BY <1>3, <1>5, <1>6, <1>7

LEMMA InputsAgree ==
  ASSUME NEW s, NEW t, NEW c \in Filing, NEW def \in Filing, NEW k \in Filing, NEW dflt \in Filing, NEW A,
         Good(s), Good(t), PortsFollow(s, t), Carried(s, c, def, t, k, dflt, A),
         NEW p \in Path, Intact(s, def, t, dflt, p), Incoming(t, p) \subseteq A
  PROVE  InputValues(s, c, def, p) = InputValues(t, k, dflt, p)
<1>1. s.slots["in"][p] = t.slots["in"][p]
  BY DEF Intact, Side
<1>2. \A j \in DOMAIN t.slots["in"][p] :
        SlotValues(s, c, def, t.slots["in"][p][j]) = SlotValues(t, k, dflt, t.slots["in"][p][j])
  BY SlotValuesAgree
<1> QED
  BY <1>1, <1>2 DEF InputValues

LEMMA GreatestIsThere ==
  ASSUME NEW n \in Nat, NEW H \in SUBSET (1..n), H # {}
  PROVE  \E m \in H : \A l \in H : l <= m
<1> DEFINE B == {b \in Nat : \A l \in H : l <= b}
<1>1. n \in B
  OBVIOUS
<1>2. PICK b \in B : \A x \in B : b <= x
  <2>1. B \in SUBSET Nat /\ B # {}
    BY <1>1
  <2> HIDE DEF B
  <2> QED
    BY <2>1, LeastIsThere
<1>3. b \in Nat /\ \A l \in H : l <= b
  OBVIOUS
<1>4. b \in H
  <2>1. SUFFICES ASSUME b \notin H PROVE FALSE
    OBVIOUS
  <2>2. \A l \in H : l \in Nat /\ l >= 1 /\ l <= b - 1
    BY <1>3, <2>1
  <2>3. b - 1 \in Nat
    <3>1. PICK l \in H : TRUE
      OBVIOUS
    <3>2. l \in Nat /\ l >= 1 /\ l <= b - 1
      BY <2>2, <3>1
    <3> QED
      BY <1>3, <3>2
  <2>4. b - 1 \in B
    BY <2>2, <2>3
  <2> QED
    BY <1>2, <1>3, <2>4
<1> QED
  BY <1>3, <1>4

LEMMA ReceivedAgrees ==
  ASSUME NEW s, NEW t, NEW c \in Filing, NEW def \in Filing, NEW k \in Filing, NEW dflt \in Filing, NEW A,
         Good(s), Good(t), PortsFollow(s, t), Carried(s, c, def, t, k, dflt, A),
         NEW p \in Path, Intact(s, def, t, dflt, p), Incoming(t, p) \subseteq A, NEW j
  PROVE  Received(s, c, def, p, j) = Received(t, k, dflt, p, j)
<1> DEFINE q == t.touching["in"][p]
           Some(u, a, b) == {m \in DOMAIN q : /\ u.edges[q[m]]["in"].index = j
                                              /\ Delivered(u, a, b, q[m]) # None}
           Latest(H) == CHOOSE m \in H : \A l \in H : l <= m
<1>1. s.touching["in"][p] = q
  BY DEF Intact
<1>2. ASSUME NEW m \in DOMAIN q
      PROVE  q[m] \in Incoming(t, p)
  <2>1. Once(q, {e \in EdgesOf(t) : t.edges[e]["in"].node = p})
    BY DEF Good, Sound, Filed, Side
  <2> QED
    BY <2>1 DEF Once, Incoming
<1>3. Received(s, c, def, p, j) = IF Some(s, c, def) = {} THEN None
                                  ELSE Delivered(s, c, def, q[Latest(Some(s, c, def))])
  BY <1>1 DEF Received
<1>4. Received(t, k, dflt, p, j) = IF Some(t, k, dflt) = {} THEN None
                                   ELSE Delivered(t, k, dflt, q[Latest(Some(t, k, dflt))])
  BY DEF Received
<1> HIDE DEF q
<1>5. \A m \in DOMAIN q : /\ Delivered(s, c, def, q[m]) = Delivered(t, k, dflt, q[m])
                          /\ t.edges[q[m]]["in"].index = s.edges[q[m]]["in"].index
  BY <1>2, DeliveriesAgree DEF Intact
<1>6. Some(s, c, def) = Some(t, k, dflt)
  BY <1>5
<1>7. Some(t, k, dflt) \subseteq DOMAIN q
  OBVIOUS
<1>8. ASSUME Some(t, k, dflt) # {}
      PROVE  Delivered(s, c, def, q[Latest(Some(s, c, def))]) = Delivered(t, k, dflt, q[Latest(Some(t, k, dflt))])
  <2> DEFINE H == Some(t, k, dflt)
  <2>1. Latest(Some(s, c, def)) = Latest(H)
    BY <1>6
  <2>2. H \in SUBSET (1..Len(q)) /\ Len(q) \in Nat
    <3>1. q \in Seq(EdgeId)
      BY DEF q, Good, Sound, States, Side
    <3> QED
      BY <1>7, <3>1
  <2>3. H # {}
    BY <1>8
  <2> HIDE DEF H
  <2>4. \E m \in H : \A l \in H : l <= m
    BY <2>2, <2>3, GreatestIsThere
  <2>5. Latest(H) \in H
    BY <2>4
  <2>6. Latest(H) \in DOMAIN q
    BY <1>7, <2>5 DEF H
  <2> HIDE DEF Latest
  <2>7. Delivered(s, c, def, q[Latest(H)]) = Delivered(t, k, dflt, q[Latest(H)])
    BY <1>5, <2>6
  <2> QED
    BY <2>1, <2>7 DEF H
<1> QED
  BY <1>3, <1>4, <1>6, <1>8

(* The outputs of p are cached as they were.                               *)
Held(t, c, k, p) == \A i \in OutputIds(t, p) : k[i] = c[i]

LEMMA OutputsAgree ==
  ASSUME NEW s, NEW t, NEW c \in Filing, NEW def \in Filing, NEW k \in Filing, NEW dflt \in Filing, NEW A,
         Good(s), Good(t), PortsFollow(s, t), Carried(s, c, def, t, k, dflt, A),
         NEW p \in Path, Intact(s, def, t, dflt, p), Incoming(t, p) \subseteq A,
         Held(t, c, k, p)
  PROVE  NodeOutputs(s, c, def, p) = NodeOutputs(t, k, dflt, p)
<1>1. s.slots["in"][p] = t.slots["in"][p] /\ s.slots["out"][p] = t.slots["out"][p]
  BY DEF Intact, Side
<1>2. \A j \in DOMAIN t.slots["out"][p] : k[t.slots["out"][p][j].id] = c[t.slots["out"][p][j].id]
  BY DEF Held, OutputIds, IdsOf
<1>3. \A j : Received(s, c, def, p, j) = Received(t, k, dflt, p, j)
  BY ReceivedAgrees
<1> QED
  BY <1>1, <1>2, <1>3 DEF NodeOutputs

-----------------------------------------------------------------------------
(* What edits do to the ports and to the nodes they do not mark.           *)

LEMMA AppendedIsPrefix ==
  ASSUME NEW q \in Seq(Slot), NEW r, Appended(q, r)
  PROVE  /\ Len(q) \in Nat /\ DOMAIN q = 1..Len(q) /\ DOMAIN r = 1..(Len(q) + 1)
         /\ \A k \in 1..Len(q) : r[k] = q[k]
<1>1. PICK x \in Slot : r = InsertAt(q, Len(q) + 1, x)
  BY DEF Appended
<1>2. PICK n \in Nat : n = Len(q)
  OBVIOUS
<1>3. DOMAIN q = 1..n /\ n + 1 \in 1..(Len(q) + 1)
  BY <1>2
<1>4. x \in Slot /\ r = InsertAt(q, n + 1, x)
  BY <1>1, <1>2
<1>5. /\ DOMAIN InsertAt(q, n + 1, x) = 1..(Len(q) + 1)
      /\ InsertedInto(InsertAt(q, n + 1, x), q, n + 1, x)
  BY <1>3, <1>4, InsertAtIsInsertion
<1>6. \A k \in 1..n : k \in 1..(Len(q) + 1) /\ k < n + 1
  BY <1>2
<1> QED
  BY <1>2, <1>3, <1>4, <1>5, <1>6 DEF InsertedInto

LEMMA SamePortFollows ==
  ASSUME NEW s, NEW t, Sound(s), NEW a \in Path,
         \A d \in Side : t.slots[d][a] = s.slots[d][a],
         NEW j \in DOMAIN s.slots["out"][a], NEW i \in DOMAIN t.slots["out"][a],
         s.slots["out"][a][j].id = t.slots["out"][a][i].id
  PROVE  s.slots["in"][a][j].id = t.slots["in"][a][i].id
<1>1. t.slots["in"][a] = s.slots["in"][a] /\ t.slots["out"][a] = s.slots["out"][a] /\ "out" \in Side
  BY DEF Side
<1>2. i = j
  BY <1>1, IdsTellSlots
<1> QED
  BY <1>1, <1>2

LEMMA AppendedPortFollows ==
  ASSUME NEW s, NEW t, Sound(s), Sound(t), NEW a \in Path,
         Alike(s.slots["in"][a], s.slots["out"][a]),
         \A d \in Side : Appended(s.slots[d][a], t.slots[d][a]),
         NEW j \in DOMAIN s.slots["out"][a], NEW i \in DOMAIN t.slots["out"][a],
         s.slots["out"][a][j].id = t.slots["out"][a][i].id
  PROVE  s.slots["in"][a][j].id = t.slots["in"][a][i].id
<1>1. /\ "in" \in Side /\ "out" \in Side
      /\ s.slots["in"][a] \in Seq(Slot) /\ s.slots["out"][a] \in Seq(Slot)
  BY DEF Side, Sound, States
<1>2. /\ DOMAIN s.slots["out"][a] = 1..Len(s.slots["out"][a]) /\ Len(s.slots["out"][a]) \in Nat
      /\ DOMAIN t.slots["out"][a] = 1..(Len(s.slots["out"][a]) + 1)
      /\ \A k \in 1..Len(s.slots["out"][a]) : t.slots["out"][a][k] = s.slots["out"][a][k]
  BY <1>1, AppendedIsPrefix
<1>3. /\ DOMAIN s.slots["in"][a] = 1..Len(s.slots["in"][a])
      /\ \A k \in 1..Len(s.slots["in"][a]) : t.slots["in"][a][k] = s.slots["in"][a][k]
  BY <1>1, AppendedIsPrefix
<1>4. DOMAIN s.slots["in"][a] = DOMAIN s.slots["out"][a]
  BY DEF Alike
<1>5. j \in DOMAIN t.slots["out"][a] /\ t.slots["out"][a][j] = s.slots["out"][a][j]
  BY <1>2
<1>6. i = j
  BY <1>1, <1>5, IdsTellSlots
<1>7. t.slots["in"][a][j] = s.slots["in"][a][j]
  BY <1>3, <1>4
<1> QED
  BY <1>6, <1>7

LEMMA CutPortFollows ==
  ASSUME NEW s, NEW t, Sound(s), Sound(t), NEW a \in Path,
         Alike(s.slots["in"][a], s.slots["out"][a]), NEW n \in Nat,
         \A d \in Side : Cut(s, t, d, a, n),
         NEW j \in DOMAIN s.slots["out"][a], NEW i \in DOMAIN t.slots["out"][a],
         s.slots["out"][a][j].id = t.slots["out"][a][i].id
  PROVE  s.slots["in"][a][j].id = t.slots["in"][a][i].id
<1> DEFINE q == s.slots["in"][a]
           r == s.slots["out"][a]
<1>1. "in" \in Side /\ "out" \in Side /\ q \in Seq(Slot) /\ r \in Seq(Slot)
  BY DEF Side, Sound, States
<1>2. DOMAIN q = DOMAIN r
  BY DEF Alike
<1>3. CASE n \notin DOMAIN r
  <2>1. ASSUME NEW d \in Side
        PROVE  t.slots[d][a] = s.slots[d][a]
    <3>1. n \notin DOMAIN s.slots[d][a]
      BY <1>2, <1>3 DEF Side
    <3>2. Cut(s, t, d, a, n)
      OBVIOUS
    <3> QED
      BY <3>1, <3>2 DEF Cut
  <2>2. \A d \in Side : t.slots[d][a] = s.slots[d][a]
    BY <2>1
  <2> HIDE DEF q, r
  <2> QED
    BY ONLY <2>2, SamePortFollows, Sound(s), a \in Path, j \in DOMAIN s.slots["out"][a],
       i \in DOMAIN t.slots["out"][a], s.slots["out"][a][j].id = t.slots["out"][a][i].id
<1>4. CASE n \in DOMAIN r
  <2>1. t.slots["in"][a] = RemoveAt(q, n) /\ t.slots["out"][a] = RemoveAt(r, n)
    BY <1>1, <1>2, <1>4 DEF Cut
  <2>2. r[j].id = RemoveAt(r, n)[i].id /\ i \in DOMAIN RemoveAt(r, n) /\ j \in DOMAIN r
    BY <2>1
  <2>3. \A k \in DOMAIN r : r[k].id = r[j].id => k = j
    BY <1>1, IdsTellSlots
  <2> HIDE DEF q, r
  <2> DEFINE m == Len(r)
  <2>4. m \in Nat /\ DOMAIN r = 1..m /\ n \in 1..Len(r) /\ n \in 1..Len(q) /\ Len(q) = m
    BY <1>1, <1>2, <1>4
  <2>5. /\ DOMAIN RemoveAt(r, n) = 1..(m - 1)
        /\ \A k \in 1..(m - 1) : RemoveAt(r, n)[k] = IF k < n THEN r[k] ELSE r[k + 1]
    BY <1>1, <2>4, RemoveAtFacts
  <2>6. \A k \in 1..(m - 1) : RemoveAt(q, n)[k] = IF k < n THEN q[k] ELSE q[k + 1]
    BY <1>1, <2>4, RemoveAtFacts
  <2> HIDE DEF m
  <2>7. i \in 1..(m - 1)
    BY <2>2, <2>5
  <2>8. CASE i < n
    <3>1. r[j].id = r[i].id /\ i \in DOMAIN r
      BY <2>2, <2>4, <2>5, <2>7, <2>8
    <3>2. i = j
      BY <2>3, <3>1
    <3> QED
      BY <2>1, <2>6, <2>7, <2>8, <3>2 DEF q
  <2>9. CASE ~ (i < n)
    <3>1. r[j].id = r[i + 1].id
      BY <2>2, <2>5, <2>7, <2>9
    <3>2. i + 1 \in DOMAIN r
      BY <2>4, <2>7
    <3>3. i + 1 = j
      BY <2>3, <3>1, <3>2
    <3> QED
      BY <2>1, <2>6, <2>7, <2>9, <3>3 DEF q
  <2> QED
    BY <2>8, <2>9
<1> QED
  BY <1>3, <1>4

LEMMA InsertedPortFollows ==
  ASSUME NEW s, NEW t, Sound(s), Sound(t), NEW a \in Path,
         Alike(s.slots["in"][a], s.slots["out"][a]), NEW n \in Nat \ {0},
         \A d \in Side : PutInto(s.slots[d][a], t.slots[d][a], n),
         NEW j \in DOMAIN s.slots["out"][a], NEW i \in DOMAIN t.slots["out"][a],
         s.slots["out"][a][j].id = t.slots["out"][a][i].id
  PROVE  s.slots["in"][a][j].id = t.slots["in"][a][i].id
<1> DEFINE q == s.slots["in"][a]
           r == s.slots["out"][a]
           m == Len(r)
           k == InsertedAt(r, n)
           o == IF j < k THEN j ELSE j + 1
<1>1. "in" \in Side /\ "out" \in Side /\ q \in Seq(Slot) /\ r \in Seq(Slot)
  BY DEF Side, Sound, States
<1>2. m \in Nat /\ DOMAIN r = 1..m /\ j \in 1..m /\ Len(q) = m
  BY <1>1 DEF Alike
<1>3. k \in 1..(Len(r) + 1) /\ k \in 1..(Len(q) + 1) /\ InsertedAt(q, n) = k
  BY <1>2 DEF InsertedAt
<1>4. PICK x \in Slot : t.slots["in"][a] = InsertAt(q, k, x)
  <2>1. PutInto(q, t.slots["in"][a], n)
    BY <1>1
  <2> QED
    BY <1>3, <2>1 DEF PutInto
<1>5. PICK y \in Slot : t.slots["out"][a] = InsertAt(r, k, y)
  <2>1. PutInto(r, t.slots["out"][a], n)
    BY <1>1
  <2> QED
    BY <2>1 DEF PutInto
<1> HIDE DEF q, r, k
<1>6. InsertedInto(t.slots["in"][a], q, k, x)
  BY <1>1, <1>3, <1>4, InsertAtIsInsertion
<1>7. InsertedInto(t.slots["out"][a], r, k, y) /\ DOMAIN t.slots["out"][a] = 1..(Len(r) + 1)
  BY <1>1, <1>3, <1>5, InsertAtIsInsertion
<1>8. o \in 1..(m + 1) /\ o # k /\ (IF o < k THEN o ELSE o - 1) = j
  BY <1>2, <1>3
<1> HIDE DEF o
<1>9. t.slots["in"][a][o] = q[j] /\ t.slots["out"][a][o] = r[j]
  BY <1>2, <1>6, <1>7, <1>8 DEF InsertedInto
<1>10. o \in DOMAIN t.slots["out"][a] /\ t.slots["out"][a][o].id = t.slots["out"][a][i].id
  BY <1>7, <1>8, <1>9 DEF r
<1>11. o = i
  BY <1>1, <1>10, IdsTellSlots
<1> QED
  BY <1>9, <1>11 DEF q

Ordinary == Path \ (Interface \cup SubGraph)

LEMMA EditsMark ==
  ASSUME Good(ns), Restructure \/ Rewire
  PROVE  Good(ns') /\ Noted(ns, ns') /\ Rooted(ns, ns')
<1>1. ASSUME Good(ns'), Marked(ns, ns')
      PROVE  Good(ns') /\ Noted(ns, ns') /\ Rooted(ns, ns')
  BY <1>1 DEF Marked
<1>2. CASE CreateStep
  <2>1. ASSUME NEW p \in Path \ ns.nodes, CreateNode(p)
        PROVE  Good(ns') /\ Marked(ns, ns')
    <3>1. \A d \in Side : ns.slots[d][p] = <<>>
      BY <2>1 DEF CreateNode, IsProxy, Good, Vacant
    <3> QED
      BY <2>1, <3>1, CreateNodeStep
  <2>2. Good(ns') /\ Marked(ns, ns')
    BY <1>2, <2>1, CreateSubGraphStep DEF CreateStep
  <2> QED
    BY <1>1, <2>2
<1>3. ASSUME NEW p \in Churn, RemoveNodeAt(p)
      PROVE  Good(ns') /\ Marked(ns, ns')
  <2>1. RemoveStep
    BY <1>3, BoundsAssumption DEF RemoveStep
  <2> QED
    BY <2>1, RemoveStepIsGood
<1>4. ASSUME NEW g \in SubGraph, NEW d \in PortSides, NEW type \in Type,
             AddSubGraphPort(g, d, type, FALSE)
      PROVE  Good(ns') /\ Marked(ns, ns')
  <2>1. d \in Side /\ FALSE \in BOOLEAN
    BY BoundsAssumption
  <2> QED
    BY <1>4, <2>1, AddSubGraphPortStep
<1>5. ASSUME NEW g \in SubGraph, NEW d \in PortSides, NEW i \in 1..MaxPorts,
             RemoveSubGraphPort(g, d, i)
      PROVE  Good(ns') /\ Marked(ns, ns')
  <2>1. d \in Side
    BY BoundsAssumption
  <2> QED
    BY <1>5, <2>1, RemoveSubGraphPortStep
<1>6. ASSUME NEW e \in EdgeId, NEW w \in Wires[e], Connect(e, w[1], w[2], w[3], w[4])
      PROVE  Good(ns') /\ Noted(ns, ns') /\ Rooted(ns, ns')
  <2>1. w[1] \in Path /\ w[3] \in Path
    BY BoundsAssumption
  <2> QED
    BY <1>6, <2>1, ConnectIsGood
<1>7. ASSUME NEW g \in SubGraph, NEW d \in PortSides, NEW i \in 1..MaxPorts, NEW type \in Type,
             InsertSubGraphPort(g, d, i, type, FALSE)
      PROVE  Good(ns') /\ Marked(ns, ns')
  <2>1. d \in Side /\ FALSE \in BOOLEAN
    BY BoundsAssumption
  <2> QED
    BY <1>7, <2>1, InsertSubGraphPortStep
<1>8. CASE Restructure
  <2>1. Good(ns') /\ Noted(ns, ns') /\ Rooted(ns, ns')
    BY <1>1, <1>2, <1>3, <1>4, <1>5, <1>7, <1>8 DEF Restructure
  <2> QED
    BY <2>1
<1>9. CASE Rewire
  BY <1>1, <1>6, <1>9, DisconnectStepIsGood, ReorderStepIsGood DEF Rewire
<1> QED
  BY <1>8, <1>9

(* An edit keeps the slots of the nodes it does not mark, and the two      *)
(* slots of a port together.                                               *)
LEMMA EditsKeepSlots ==
  ASSUME Good(ns), Restructure \/ Rewire
  PROVE  /\ PortsFollow(ns, ns')
         /\ \A p \in Ordinary \cap ns'.nodes : p \notin ns'.changed =>
              p \in ns.nodes /\ \A d \in Side : ns'.slots[d][p] = ns.slots[d][p]
<1> DEFINE Kept2(p) == p \in ns.nodes /\ \A d \in Side : ns'.slots[d][p] = ns.slots[d][p]
           Follows(a) == \A j \in DOMAIN ns.slots["out"][a] : \A i \in DOMAIN ns'.slots["out"][a] :
                           ns.slots["out"][a][j].id = ns'.slots["out"][a][i].id =>
                             ns.slots["in"][a][j].id = ns'.slots["in"][a][i].id
<1>1. Good(ns') /\ Sound(ns) /\ Sound(ns')
  BY EditsMark DEF Good
<1>2. ASSUME NEW a \in Path, \A d \in Side : ns'.slots[d][a] = ns.slots[d][a]
      PROVE  Follows(a)
  BY <1>1, <1>2, SamePortFollows
<1>3. \A g \in SubGraph, d \in Side : g \in Path /\ Proxy[g][d] \in Interface
  BY PathAssumption
<1>4. ASSUME SameTables(ns, ns')
      PROVE  /\ \A a \in Interface \cap ns.nodes \cap ns'.nodes : Follows(a)
             /\ \A q \in Ordinary \cap ns'.nodes : q \notin ns'.changed => Kept2(q)
  <2>1. ns'.nodes = ns.nodes /\ \A d \in Side, a \in Path : ns'.slots[d][a] = ns.slots[d][a]
    BY <1>4 DEF SameTables
  <2>2. /\ \A a \in Interface \cap ns.nodes \cap ns'.nodes : Follows(a)
        /\ \A q \in Ordinary \cap ns'.nodes : q \notin ns'.changed => Kept2(q)
    BY <1>2, <2>1, PathAssumption DEF Ordinary
  <2> QED
    BY <2>2
<1>5. ASSUME NEW p \in Path \ (SubGraph \cup ns.nodes), NodeAdded(ns, ns', p)
      PROVE  /\ \A a \in Interface \cap ns.nodes \cap ns'.nodes : Follows(a)
             /\ \A q \in Ordinary \cap ns'.nodes : q \notin ns'.changed => Kept2(q)
  <2>1. /\ ns'.nodes = ns.nodes \cup {p} /\ p \in ns'.changed /\ p \notin ns.nodes
        /\ \A d \in Side : \A q \in Path \ {p} : ns'.slots[d][q] = ns.slots[d][q]
    BY <1>5 DEF NodeAdded
  <2> QED
    BY <1>2, <2>1, PathAssumption DEF Ordinary
<1>6. ASSUME NEW g \in SubGraph, SubGraphAdded(ns, ns', g)
      PROVE  /\ \A a \in Interface \cap ns.nodes \cap ns'.nodes : Follows(a)
             /\ \A q \in Ordinary \cap ns'.nodes : q \notin ns'.changed => Kept2(q)
  <2>1. /\ ns'.nodes = ns.nodes \cup {g, Proxy[g]["in"], Proxy[g]["out"]}
        /\ \A d \in Side : \A q \in Path : ns'.slots[d][q] = ns.slots[d][q]
    BY <1>6 DEF SubGraphAdded
  <2> QED
    BY <1>2, <1>3, <2>1, PathAssumption DEF Ordinary, Side
<1>7. ASSUME NEW p, NodesGone(ns, ns', Subtree(p))
      PROVE  /\ \A a \in Interface \cap ns.nodes \cap ns'.nodes : Follows(a)
             /\ \A q \in Ordinary \cap ns'.nodes : q \notin ns'.changed => Kept2(q)
  <2>1. /\ ns'.nodes = ns.nodes \ Subtree(p)
        /\ \A d \in Side : \A q \in Path \ Subtree(p) : ns'.slots[d][q] = ns.slots[d][q]
    BY <1>7 DEF NodesGone
  <2> QED
    BY <1>2, <2>1, PathAssumption DEF Ordinary
<1>8. ASSUME NEW g \in SubGraph \cap ns.nodes, NEW d \in Side, ElsewhereKept(ns, ns', g, d),
             Proxy[g][d] \in ns.nodes => Follows(Proxy[g][d])
      PROVE  /\ \A a \in Interface \cap ns.nodes \cap ns'.nodes : Follows(a)
             /\ \A q \in Ordinary \cap ns'.nodes : q \notin ns'.changed => Kept2(q)
  <2>1. /\ ns'.nodes = ns.nodes
        /\ \A c \in Side : \A a \in Path \ {g, Proxy[g][d]} : ns'.slots[c][a] = ns.slots[c][a]
    BY <1>8 DEF ElsewhereKept
  <2>2. \A a \in Interface : a \in Path \ {g}
    BY PathAssumption
  <2>3. ASSUME NEW a \in Interface \cap ns.nodes
        PROVE  Follows(a)
    <3>1. CASE a = Proxy[g][d]
      BY ONLY <1>8, <2>3, <3>1
    <3>2. CASE a # Proxy[g][d]
      <4>1. a \in Path /\ \A c \in Side : ns'.slots[c][a] = ns.slots[c][a]
        BY <2>1, <2>2, <2>3, <3>2
      <4> HIDE DEF Follows
      <4> QED
        BY <1>2, <4>1
    <3> QED
      BY <3>1, <3>2
  <2>4. ASSUME NEW q \in Ordinary \cap ns'.nodes
        PROVE  Kept2(q)
    <3>1. q # g /\ q # Proxy[g][d] /\ q \in Path
      BY <1>3, <2>4 DEF Ordinary
    <3> QED
      BY <2>1, <3>1
  <2> QED
    BY <2>3, <2>4
<1>9. ASSUME NEW g \in SubGraph \cap ns.nodes, NEW d \in Side, Proxy[g][d] \in ns.nodes
      PROVE  /\ Proxy[g][d] \in Path
             /\ Alike(ns.slots["in"][Proxy[g][d]], ns.slots["out"][Proxy[g][d]])
  BY <1>3, <1>9, PathAssumption DEF Good, SamePorts
<1>10. ASSUME NEW g \in SubGraph \cap ns.nodes, NEW d \in Side, PortAppended(ns, ns', g, d)
       PROVE  ElsewhereKept(ns, ns', g, d) /\ (Proxy[g][d] \in ns.nodes => Follows(Proxy[g][d]))
  <2>1. ElsewhereKept(ns, ns', g, d) /\ \A c \in Side : Appended(ns.slots[c][Proxy[g][d]], ns'.slots[c][Proxy[g][d]])
    BY <1>10 DEF PortAppended
  <2>2. ASSUME NEW a, a = Proxy[g][d], a \in ns.nodes
        PROVE  Follows(a)
    <3>1. a \in Path /\ Alike(ns.slots["in"][a], ns.slots["out"][a])
      BY <1>9, <2>2
    <3>2. \A c \in Side : Appended(ns.slots[c][a], ns'.slots[c][a])
      BY <2>1, <2>2
    <3> QED
      BY <1>1, <3>1, <3>2, AppendedPortFollows
  <2> QED
    BY <2>1, <2>2
<1>11. ASSUME NEW g \in SubGraph \cap ns.nodes, NEW d \in Side, NEW n \in Nat, PortCut(ns, ns', g, d, n)
       PROVE  ElsewhereKept(ns, ns', g, d) /\ (Proxy[g][d] \in ns.nodes => Follows(Proxy[g][d]))
  <2>1. ElsewhereKept(ns, ns', g, d) /\ \A c \in Side : Cut(ns, ns', c, Proxy[g][d], n)
    BY <1>11 DEF PortCut
  <2>2. ASSUME NEW a, a = Proxy[g][d], a \in ns.nodes
        PROVE  Follows(a)
    <3>1. a \in Path /\ Alike(ns.slots["in"][a], ns.slots["out"][a])
      BY <1>9, <2>2
    <3>2. \A c \in Side : Cut(ns, ns', c, a, n)
      BY <2>1, <2>2
    <3> QED
      BY <1>1, <3>1, <3>2, CutPortFollows
  <2> QED
    BY <2>1, <2>2
<1>12. ASSUME NEW g \in SubGraph \cap ns.nodes, NEW d \in Side, NEW n \in Nat \ {0},
              PortInserted(ns, ns', g, d, n)
       PROVE  ElsewhereKept(ns, ns', g, d) /\ (Proxy[g][d] \in ns.nodes => Follows(Proxy[g][d]))
  <2>1. /\ ElsewhereKept(ns, ns', g, d)
        /\ \A c \in Side : PutInto(ns.slots[c][Proxy[g][d]], ns'.slots[c][Proxy[g][d]], n)
    BY <1>12 DEF PortInserted
  <2>2. ASSUME NEW a, a = Proxy[g][d], a \in ns.nodes
        PROVE  Follows(a)
    <3>1. a \in Path /\ Alike(ns.slots["in"][a], ns.slots["out"][a])
      BY <1>9, <2>2
    <3>2. \A c \in Side : PutInto(ns.slots[c][a], ns'.slots[c][a], n)
      BY <2>1, <2>2
    <3> QED
      BY <1>1, <3>1, <3>2, InsertedPortFollows
  <2> QED
    BY <2>1, <2>2
<1>13. /\ \A a \in Interface \cap ns.nodes \cap ns'.nodes : Follows(a)
       /\ \A q \in Ordinary \cap ns'.nodes : q \notin ns'.changed => Kept2(q)
  <2> HIDE DEF Follows, Kept2
  <2>1. CASE SameTables(ns, ns')
    BY <1>4, <2>1
  <2>2. CASE \E p \in Path \ (SubGraph \cup ns.nodes) : ~ IsProxy(p) /\ NodeAdded(ns, ns', p)
    BY <1>5, <2>2
  <2>3. CASE \E g \in SubGraph : SubGraphAdded(ns, ns', g)
    BY <1>6, <2>3
  <2>4. CASE \E p \in Churn : Subtree(p) \in SUBSET Path /\ NodesGone(ns, ns', Subtree(p))
    BY <1>7, <2>4
  <2>5. CASE \E g \in SubGraph \cap ns.nodes, d \in Side : PortAppended(ns, ns', g, d)
    BY <1>8, <1>10, <2>5
  <2>6. CASE \E g \in SubGraph \cap ns.nodes, d \in Side, i \in Nat : PortCut(ns, ns', g, d, i)
    BY <1>8, <1>11, <2>6
  <2>7. CASE \E g \in SubGraph \cap ns.nodes, d \in Side, i \in Nat \ {0} : PortInserted(ns, ns', g, d, i)
    BY <1>8, <1>12, <2>7
  <2> QED
    BY <2>1, <2>2, <2>3, <2>4, <2>5, <2>6, <2>7, EditKinds
<1> QED
  BY <1>13 DEF PortsFollow

-----------------------------------------------------------------------------
(* The invariant: wherever no dirty port stands between, what is cached    *)
(* and what is shown is what would be computed and delivered.              *)

(* A holds with an edge the edges behind it, all the way back: no port it  *)
(* comes through is dirty.                                                 *)
Traced(s, A) ==
  /\ A \subseteq EdgesOf(s)
  /\ \A e \in A : FromPort(s, e) => s.edges[e]["out"].node \notin s.changed /\ Behind(s, e) \subseteq A

(* The clean node p is fed by such edges alone.                            *)
Settles(s, A, p) ==
  p \in Ordinary \cap s.nodes /\ p \notin s.changed /\ Traced(s, A) /\ Incoming(s, p) \subseteq A

(* What a run of p would set, and that it has been set.                    *)
RunIs(s, c, def, dat, p) == Compute(p, dat[p], InputValues(s, c, def, p))

Fresh(s, c, def, dat, p) ==
  \A j \in DOMAIN s.slots["out"][p] :
    \/ RunIs(s, c, def, dat, p)[j] = None
    \/ c[s.slots["out"][p][j].id] = RunIs(s, c, def, dat, p)[j]

(* Whoever settles is fresh and reported, and an edge that can be traced   *)
(* from a clean node was last said to deliver what it delivers.            *)
Current(s, c, def, dat, sh) ==
  /\ \A A \in SUBSET EdgeId : \A p : Settles(s, A, p) =>
       Fresh(s, c, def, dat, p) /\ sh.out[p] = NodeOutputs(s, c, def, p)
  /\ \A A \in SUBSET EdgeId : \A e \in A : Traced(s, A) /\ s.edges[e]["out"].node \notin s.changed =>
       sh.edge[e] \in {Absent, Delivered(s, c, def, e)}
  /\ \A e \in EdgeId : s.edges[e] = None => sh.edge[e] = Absent

(* Nothing that p depends on has changed.                                  *)
Stands(s, c, def, dat, t, k, dflt, been, p, B) ==
  /\ Settles(s, B, p) /\ Incoming(t, p) \subseteq B /\ Carried(s, c, def, t, k, dflt, B)
  /\ Intact(s, def, t, dflt, p) /\ been[p] = dat[p] /\ Held(t, c, k, p)

LEMMA NodeStays ==
  ASSUME NEW s, NEW t, NEW c \in Filing, NEW def \in Filing, NEW k \in Filing, NEW dflt \in Filing,
         NEW dat, NEW been, NEW sh, Good(s), Good(t), PortsFollow(s, t), Current(s, c, def, dat, sh),
         NEW p, NEW B \in SUBSET EdgeId, Stands(s, c, def, dat, t, k, dflt, been, p, B)
  PROVE  Fresh(t, k, dflt, been, p) /\ sh.out[p] = NodeOutputs(t, k, dflt, p)
<1>1. /\ Settles(s, B, p) /\ Incoming(t, p) \subseteq B /\ Carried(s, c, def, t, k, dflt, B)
      /\ Intact(s, def, t, dflt, p) /\ been[p] = dat[p] /\ Held(t, c, k, p)
  BY DEF Stands
<1>2. Fresh(s, c, def, dat, p) /\ sh.out[p] = NodeOutputs(s, c, def, p)
  BY <1>1 DEF Current
<1>3. p \in Path
  BY <1>1 DEF Settles, Ordinary
<1>4. InputValues(s, c, def, p) = InputValues(t, k, dflt, p)
  BY <1>1, <1>3, InputsAgree
<1>5. NodeOutputs(s, c, def, p) = NodeOutputs(t, k, dflt, p)
  BY <1>1, <1>3, OutputsAgree
<1>6. RunIs(t, k, dflt, been, p) = RunIs(s, c, def, dat, p)
  BY <1>1, <1>4 DEF RunIs
<1>7. t.slots["out"][p] = s.slots["out"][p]
  BY <1>1 DEF Intact, Side
<1>8. \A j \in DOMAIN t.slots["out"][p] : k[t.slots["out"][p][j].id] = c[t.slots["out"][p][j].id]
  BY <1>1 DEF Held, OutputIds, IdsOf
<1>9. Fresh(t, k, dflt, been, p)
  BY <1>2, <1>6, <1>7, <1>8 DEF Fresh
<1> QED
  BY <1>2, <1>5, <1>9

LEMMA EdgeStays ==
  ASSUME NEW s, NEW t, NEW c \in Filing, NEW def \in Filing, NEW k \in Filing, NEW dflt \in Filing,
         NEW dat, NEW sh, Good(s), Good(t), PortsFollow(s, t), Current(s, c, def, dat, sh),
         NEW B \in SUBSET EdgeId, Traced(s, B), Carried(s, c, def, t, k, dflt, B),
         NEW e \in B, s.edges[e]["out"].node \notin s.changed
  PROVE  sh.edge[e] \in {Absent, Delivered(t, k, dflt, e)}
<1>1. sh.edge[e] \in {Absent, Delivered(s, c, def, e)}
  BY DEF Current
<1>2. Delivered(s, c, def, e) = Delivered(t, k, dflt, e)
  BY DeliveriesAgree
<1> QED
  BY <1>1, <1>2

-----------------------------------------------------------------------------
(* Edits keep it.                                                          *)

(* The edges into a node that an edit has not marked are the same ones.    *)
LEMMA UnmarkedIsOld ==
  ASSUME NEW s, NEW t, Sound(s), Sound(t), Noted(s, t), NEW p \in Path, p \notin t.changed
  PROVE  /\ p \notin s.changed /\ t.touching["in"][p] = s.touching["in"][p]
         /\ \A i \in Ids[p] : t.conn["in"][i] = s.conn["in"][i]
         /\ \A e : e \in Incoming(t, p) <=> e \in Incoming(s, p)
         /\ \A e \in Incoming(t, p) : t.edges[e]["in"].slot = s.edges[e]["in"].slot
<1>1. /\ p \notin s.changed /\ t.touching["in"][p] = s.touching["in"][p]
      /\ \A i \in Ids[p] : SameFeed(s, t, i)
  BY DEF Noted
<1>2. \A i \in Ids[p] : t.conn["in"][i] = s.conn["in"][i]
  BY <1>1 DEF SameFeed
<1>3. ASSUME NEW e \in Incoming(s, p)
      PROVE  e \in Incoming(t, p) /\ t.edges[e]["in"].slot = s.edges[e]["in"].slot
  <2> DEFINE i == s.edges[e]["in"].slot
  <2>1. e \in EdgesOf(s) /\ s.edges[e]["in"].node = p
    BY <1>3 DEF Incoming
  <2>2. i \in Ids[p]
    <3>1. Resolves(s, "in", s.edges[e]["in"]) /\ "in" \in Side
      BY <2>1, EdgeFacts DEF Side
    <3>2. \E j \in DOMAIN s.slots["in"][p] : s.slots["in"][p][j].id = i
      BY <2>1, <3>1 DEF Resolves
    <3> QED
      BY <3>1, <3>2 DEF Sound, Owned
  <2> HIDE DEF i
  <2>3. e \in EdgesOf(t) /\ t.edges[e]["in"].slot = i
    BY <1>1, <2>1, <2>2 DEF SameFeed, i
  <2>4. t.edges[e]["in"].node = p
    BY <2>2, <2>3, FiledUnderItsNode DEF Side
  <2> QED
    BY <2>3, <2>4 DEF Incoming, i
<1>4. ASSUME NEW e \in Incoming(t, p)
      PROVE  e \in Incoming(s, p)
  <2> DEFINE i == t.edges[e]["in"].slot
  <2>1. e \in EdgesOf(t) /\ t.edges[e]["in"].node = p
    BY <1>4 DEF Incoming
  <2>2. i \in Ids[p] /\ i \in SlotId
    <3>1. Resolves(t, "in", t.edges[e]["in"]) /\ "in" \in Side /\ i \in SlotId
      BY <2>1, EdgeFacts DEF Side
    <3>2. \E j \in DOMAIN t.slots["in"][p] : t.slots["in"][p][j].id = i
      BY <2>1, <3>1 DEF Resolves
    <3>3. i \in Ids[p]
      BY <3>1, <3>2 DEF Sound, Owned
    <3> QED
      BY <3>1, <3>3
  <2>3. /\ Once(t.conn["in"][i], {f \in EdgesOf(t) : t.edges[f]["in"].slot = i})
        /\ Once(s.conn["in"][i], {f \in EdgesOf(s) : s.edges[f]["in"].slot = i})
    BY <2>2 DEF Sound, Filed, Side
  <2>4. e \in {f \in EdgesOf(t) : t.edges[f]["in"].slot = i}
    BY <2>1
  <2> HIDE DEF i
  <2>5. e \in {f \in EdgesOf(s) : s.edges[f]["in"].slot = i}
    BY <1>2, <2>2, <2>3, <2>4 DEF Once
  <2>6. s.edges[e]["in"].node = p
    BY <2>2, <2>5, FiledUnderItsNode DEF Side
  <2> QED
    BY <2>5, <2>6 DEF Incoming
<1> QED
  BY <1>1, <1>2, <1>3, <1>4

(* Slots that are there keep what is filed under them.                     *)
Retains(t, c, def, k, dflt) ==
  /\ \A p \in Path : Held(t, c, k, p)
  /\ \A p \in Path : \A i \in IdsOf(t.slots["in"][p]) : p \notin t.changed => dflt[i] = def[i]

(* What can be traced after an edit could be traced before it, and nothing *)
(* along it has changed: the edit has marked whatever it changed.          *)
LEMMA EditCarries ==
  ASSUME NEW s, NEW t, NEW c, NEW def, NEW k, NEW dflt, Good(s), Good(t), PortsFollow(s, t),
         Noted(s, t), Rooted(s, t), Retains(t, c, def, k, dflt), NEW A, Traced(t, A),
         NEW B, B = A \cap EdgesOf(s)
  PROVE  Traced(s, B) /\ Carried(s, c, def, t, k, dflt, B)
<1>1. Sound(s) /\ Sound(t) /\ A \subseteq EdgesOf(t) /\ B \subseteq EdgesOf(s) \cap EdgesOf(t)
  BY DEF Good, Traced
<1>2. ASSUME NEW e \in B
      PROVE  /\ Source(t, e) = Source(s, e) /\ (FromPort(s, e) <=> FromPort(t, e))
             /\ s.edges[e]["out"].node = t.edges[e]["out"].node
             /\ FromPort(t, e) => PortId(s, e) = PortId(t, e)
  BY <1>1, CarriedEdge DEF Rooted
<1>3. ASSUME NEW e \in B, ~ FromPort(t, e)
      PROVE  c[t.edges[e]["out"].slot] = k[t.edges[e]["out"].slot]
  <2> DEFINE x == t.edges[e]["out"]
  <2>1. x.node \in Path /\ Resolves(t, "out", x)
    BY <1>1, EdgeFacts DEF Side
  <2> HIDE DEF x
  <2>2. x.slot \in OutputIds(t, x.node)
    BY <2>1 DEF Resolves, OutputIds, IdsOf
  <2>3. k[x.slot] = c[x.slot]
    BY <2>1, <2>2 DEF Retains, Held
  <2> QED
    BY <2>3 DEF x
<1>4. ASSUME NEW e \in B, FromPort(t, e)
      PROVE  /\ s.edges[e]["out"].node \notin s.changed /\ Behind(s, e) \subseteq B
             /\ t.conn["in"][PortId(t, e)] = s.conn["in"][PortId(t, e)]
             /\ dflt[PortId(t, e)] = def[PortId(t, e)] /\ Behind(t, e) \subseteq B
  <2> DEFINE x == t.edges[e]["out"]
             p == x.node
             i == PortId(t, e)
  <2>1. p \notin t.changed /\ Behind(t, e) \subseteq A /\ e \in EdgesOf(t)
    BY <1>1, <1>4 DEF Traced
  <2>2. /\ p \in Path /\ x.index \in DOMAIN t.slots["in"][p]
        /\ i = t.slots["in"][p][x.index].id /\ i \in Ids[p]
    BY <1>4, <2>1, PortFacts
  <2>3. i \in IdsOf(t.slots["in"][p])
    BY <2>2 DEF IdsOf
  <2>4. FromPort(s, e) /\ PortId(s, e) = i /\ s.edges[e]["out"].node = p
    BY <1>2, <1>4
  <2>5. \A f \in Behind(t, e) : f \in EdgesOf(t) /\ t.edges[f]["in"].node = p /\ t.edges[f]["in"].slot = i
    BY <1>4, <2>1, BehindFacts DEF Behind
  <2>6. \A f \in Behind(s, e) : f \in EdgesOf(s) /\ s.edges[f]["in"].node = p /\ s.edges[f]["in"].slot = i
    BY <1>1, <2>4, BehindFacts DEF Behind
  <2> HIDE DEF i, p
  <2>7. /\ p \notin s.changed /\ t.conn["in"][i] = s.conn["in"][i]
        /\ \A f : f \in Incoming(t, p) <=> f \in Incoming(s, p)
        /\ \A f \in Incoming(t, p) : t.edges[f]["in"].slot = s.edges[f]["in"].slot
    <3>1. p \in Path /\ p \notin t.changed /\ i \in Ids[p] /\ Sound(s) /\ Sound(t) /\ Noted(s, t)
      BY <1>1, <2>1, <2>2
    <3>2. /\ p \notin s.changed /\ \A j \in Ids[p] : t.conn["in"][j] = s.conn["in"][j]
          /\ \A f : f \in Incoming(t, p) <=> f \in Incoming(s, p)
          /\ \A f \in Incoming(t, p) : t.edges[f]["in"].slot = s.edges[f]["in"].slot
      BY ONLY <3>1, UnmarkedIsOld
    <3> QED
      BY <3>1, <3>2
  <2>8. dflt[i] = def[i]
    BY <2>1, <2>2, <2>3 DEF Retains
  <2>9. \A f \in Behind(s, e) : f \in Behind(t, e)
    <3>1. ASSUME NEW f \in Behind(s, e)
          PROVE  f \in EdgesOf(t) /\ t.edges[f]["in"].slot = i
      BY <2>6, <2>7, <3>1 DEF Incoming
    <3> QED
      BY <3>1 DEF Behind, i
  <2>10. \A f \in Behind(t, e) : f \in EdgesOf(s)
    BY <2>5, <2>7 DEF Incoming
  <2> QED
    BY <1>1, <2>1, <2>4, <2>7, <2>8, <2>9, <2>10 DEF i
<1>5. Traced(s, B)
  BY <1>1, <1>2, <1>4 DEF Traced
<1>6. Carried(s, c, def, t, k, dflt, B)
  BY <1>1, <1>2, <1>3, <1>4 DEF Carried
<1> QED
  BY <1>5, <1>6

LEMMA UnmarkedIsIntact ==
  ASSUME NEW s, NEW t, NEW c, NEW def, NEW k, NEW dflt, Sound(s), Sound(t), Noted(s, t),
         Retains(t, c, def, k, dflt), NEW p \in Path, p \notin t.changed,
         \A d \in Side : t.slots[d][p] = s.slots[d][p]
  PROVE  Intact(s, def, t, dflt, p) /\ \A e : e \in Incoming(t, p) <=> e \in Incoming(s, p)
<1>1. /\ t.touching["in"][p] = s.touching["in"][p]
      /\ \A i \in Ids[p] : t.conn["in"][i] = s.conn["in"][i]
      /\ \A e : e \in Incoming(t, p) <=> e \in Incoming(s, p)
      /\ \A e \in Incoming(t, p) : t.edges[e]["in"].slot = s.edges[e]["in"].slot
  BY UnmarkedIsOld
<1>2. ASSUME NEW i \in IdsOf(t.slots["in"][p])
      PROVE  t.conn["in"][i] = s.conn["in"][i] /\ dflt[i] = def[i]
  <2>1. PICK j \in DOMAIN t.slots["in"][p] : t.slots["in"][p][j].id = i
    BY <1>2 DEF IdsOf
  <2>2. i \in Ids[p]
    BY <2>1 DEF Sound, Owned, Side
  <2> QED
    BY <1>1, <1>2, <2>2 DEF Retains
<1>3. ASSUME NEW e \in Incoming(t, p)
      PROVE  t.edges[e]["in"].index = s.edges[e]["in"].index
  <2> DEFINE x == s.edges[e]["in"]
             y == t.edges[e]["in"]
  <2>1. e \in EdgesOf(s) /\ e \in EdgesOf(t) /\ x.node = p /\ y.node = p /\ y.slot = x.slot
    BY <1>1, <1>3 DEF Incoming
  <2>2. Resolves(s, "in", x) /\ Resolves(t, "in", y) /\ "in" \in Side
    BY <2>1, EdgeFacts DEF Side
  <2> HIDE DEF x, y
  <2>3. /\ x.index \in DOMAIN s.slots["in"][p] /\ s.slots["in"][p][x.index].id = x.slot
        /\ y.index \in DOMAIN s.slots["in"][p] /\ s.slots["in"][p][y.index].id = x.slot
    BY <2>1, <2>2 DEF Resolves
  <2>4. y.index = x.index
    BY <2>2, <2>3, IdsTellSlots
  <2> QED
    BY <2>4 DEF x, y
<1>4. Intact(s, def, t, dflt, p)
  BY <1>1, <1>2, <1>3 DEF Intact
<1> QED
  BY <1>1, <1>4

LEMMA MarkingKeepsCurrent ==
  ASSUME NEW s, NEW t, NEW c \in Filing, NEW def \in Filing, NEW k \in Filing, NEW dflt \in Filing,
         NEW dat, NEW been, NEW sh, NEW seen, Good(s), Good(t), PortsFollow(s, t),
         Noted(s, t), Rooted(s, t), Retains(t, c, def, k, dflt), Current(s, c, def, dat, sh),
         \A p \in Ordinary \cap t.nodes : p \notin t.changed =>
           /\ p \in s.nodes /\ \A d \in Side : t.slots[d][p] = s.slots[d][p]
           /\ been[p] = dat[p] /\ seen.out[p] = sh.out[p],
         \A e \in EdgesOf(t) : seen.edge[e] = sh.edge[e],
         \A e \in EdgeId : t.edges[e] = None => seen.edge[e] = Absent
  PROVE  Current(t, k, dflt, been, seen)
<1>1. Sound(s) /\ Sound(t)
  BY DEF Good
<1>2. ASSUME NEW A \in SUBSET EdgeId, NEW p, Settles(t, A, p)
      PROVE  Fresh(t, k, dflt, been, p) /\ seen.out[p] = NodeOutputs(t, k, dflt, p)
  <2> DEFINE B == A \cap EdgesOf(s)
  <2>1. p \in Ordinary \cap t.nodes /\ p \in Path /\ p \notin t.changed /\ Traced(t, A) /\ Incoming(t, p) \subseteq A
    BY <1>2 DEF Settles, Ordinary
  <2>2. /\ p \in s.nodes /\ \A d \in Side : t.slots[d][p] = s.slots[d][p]
        /\ been[p] = dat[p] /\ seen.out[p] = sh.out[p]
    BY <2>1
  <2>3. Traced(s, B) /\ Carried(s, c, def, t, k, dflt, B)
    BY <2>1, EditCarries
  <2>4. Intact(s, def, t, dflt, p) /\ \A e : e \in Incoming(t, p) <=> e \in Incoming(s, p)
    BY <1>1, <2>1, <2>2, UnmarkedIsIntact
  <2>5. Incoming(t, p) \subseteq B /\ Incoming(s, p) \subseteq B /\ B \in SUBSET EdgeId
    BY <2>1, <2>4 DEF Incoming
  <2> HIDE DEF B
  <2>6. Settles(s, B, p)
    BY <2>1, <2>2, <2>3, <2>5 DEF Settles, Noted
  <2>7. Stands(s, c, def, dat, t, k, dflt, been, p, B)
    BY <2>1, <2>2, <2>3, <2>4, <2>5, <2>6 DEF Stands, Retains
  <2>8. Fresh(t, k, dflt, been, p) /\ sh.out[p] = NodeOutputs(t, k, dflt, p)
    BY <2>5, <2>7, NodeStays
  <2> QED
    BY <2>2, <2>8
<1>3. ASSUME NEW A \in SUBSET EdgeId, NEW e \in A, Traced(t, A), t.edges[e]["out"].node \notin t.changed
      PROVE  seen.edge[e] \in {Absent, Delivered(t, k, dflt, e)}
  <2> DEFINE B == A \cap EdgesOf(s)
  <2>1. e \in EdgesOf(t) /\ seen.edge[e] = sh.edge[e] /\ e \in EdgeId
    BY <1>3 DEF Traced
  <2>2. CASE e \notin EdgesOf(s)
    BY <2>1, <2>2 DEF Current, EdgesOf
  <2>3. CASE e \in EdgesOf(s)
    <3>1. Traced(s, B) /\ Carried(s, c, def, t, k, dflt, B)
      BY <1>3, EditCarries
    <3>2. B \in SUBSET EdgeId /\ e \in B
      BY <1>3, <2>3
    <3>3. s.edges[e]["out"].node \notin s.changed
      <4>1. Source(t, e) = Source(s, e)
        BY <2>1, <2>3 DEF Rooted
      <4> QED
        BY <1>3, <4>1 DEF Source, Noted
    <3> HIDE DEF B
    <3> QED
      BY <2>1, <3>1, <3>2, <3>3, EdgeStays
  <2> QED
    BY <2>2, <2>3
<1> QED
  BY <1>2, <1>3 DEF Current

FreshInv == TypeInv /\ Current(ns, cache, default, data, shown)

LEMMA ForgettingRetains ==
  ASSUME Good(ns'), Forget
  PROVE  /\ Retains(ns', cache, default, cache', default')
         /\ \A p \in Path \cap ns'.nodes : data'[p] = data[p] /\ shown'.out[p] = shown.out[p]
         /\ \A e \in EdgesOf(ns') : shown'.edge[e] = shown.edge[e]
         /\ \A e \in EdgeId : ns'.edges[e] = None => shown'.edge[e] = Absent
<1>1. Sound(ns')
  BY DEF Good
<1>2. ASSUME NEW p \in Path, NEW i \in OutputIds(ns', p)
      PROVE  cache'[i] = cache[i]
  <2>1. i \in SlotId
    BY <1>1, <1>2, IdsTellSlots DEF OutputIds, IdsOf, Side
  <2>2. \E q \in Path : i \in OutputIds(ns', q)
    BY <1>2
  <2> QED
    BY <2>1, <2>2, ForgetFacts
<1>3. ASSUME NEW p \in Path, NEW i \in IdsOf(ns'.slots["in"][p])
      PROVE  default'[i] = default[i]
  <2>1. i \in SlotId
    BY <1>1, <1>3, IdsTellSlots DEF IdsOf, Side
  <2>2. InputId(ns', i)
    BY <1>3 DEF InputId
  <2> QED
    BY <2>1, <2>2, ForgetFacts
<1>4. Retains(ns', cache, default, cache', default')
  BY <1>2, <1>3 DEF Retains, Held
<1>5. data' = [p \in Path |-> IF p \in ns'.nodes THEN data[p] ELSE DefaultData] /\ shown' = Kept(ns')
  BY DEF Forget
<1>6. /\ shown'.out = [p \in Path |-> IF p \in ns'.nodes THEN shown.out[p] ELSE Absent]
      /\ shown'.edge = [e \in EdgeId |-> IF ns'.edges[e] # None THEN shown.edge[e] ELSE Absent]
  BY <1>5 DEF Kept
<1>7. \A p \in Path \cap ns'.nodes : data'[p] = data[p] /\ shown'.out[p] = shown.out[p]
  BY <1>5, <1>6
<1>8. \A e \in EdgesOf(ns') : shown'.edge[e] = shown.edge[e]
  BY <1>6 DEF EdgesOf
<1>9. \A e \in EdgeId : ns'.edges[e] = None => shown'.edge[e] = Absent
  BY <1>6
<1> QED
  BY <1>4, <1>7, <1>8, <1>9

(* So does an edit of the graph, with what it makes the cache forget.      *)
LEMMA EditsKeepCurrent ==
  ASSUME ProxiesAreKept, FreshInv, Restructure \/ Rewire
  PROVE  FreshInv'
<1>1. TypeInv /\ Current(ns, cache, default, data, shown) /\ Good(ns) /\ cache \in Filing /\ default \in Filing
  BY DEF FreshInv, TypeInv, Stocked
<1>2. TypeInv'
  BY <1>1, EditsKeepTypes
<1>3. cache' \in Filing /\ default' \in Filing
  BY <1>2 DEF TypeInv, Stocked
<1>4. Good(ns') /\ Noted(ns, ns') /\ Rooted(ns, ns')
  BY <1>1, EditsMark
<1>5. /\ PortsFollow(ns, ns')
      /\ \A p \in Ordinary \cap ns'.nodes : p \notin ns'.changed =>
           p \in ns.nodes /\ \A d \in Side : ns'.slots[d][p] = ns.slots[d][p]
  BY <1>1, EditsKeepSlots
<1>6. Forget
  BY DEF Restructure, Rewire
<1>7. /\ Retains(ns', cache, default, cache', default')
      /\ \A p \in Path \cap ns'.nodes : data'[p] = data[p] /\ shown'.out[p] = shown.out[p]
      /\ \A e \in EdgesOf(ns') : shown'.edge[e] = shown.edge[e]
      /\ \A e \in EdgeId : ns'.edges[e] = None => shown'.edge[e] = Absent
  BY <1>4, <1>6, ForgettingRetains
<1>8. \A p \in Ordinary \cap ns'.nodes : p \notin ns'.changed =>
        /\ p \in ns.nodes /\ \A d \in Side : ns'.slots[d][p] = ns.slots[d][p]
        /\ data'[p] = data[p] /\ shown'.out[p] = shown.out[p]
  BY <1>5, <1>7 DEF Ordinary
<1>9. Current(ns', cache', default', data', shown')
  BY <1>1, <1>3, <1>4, <1>5, <1>7, <1>8, MarkingKeepsCurrent
<1> QED
  BY <1>2, <1>9 DEF FreshInv

(* Marking a node changes no feed.                                         *)
LEMMA MarkingFacts ==
  ASSUME NEW s, Good(s), NEW C \in SUBSET Path, NEW t, t = [s EXCEPT !.changed = C]
  PROVE  /\ Good(t) /\ t.changed = C /\ t.nodes = s.nodes /\ t.slots = s.slots /\ t.edges = s.edges
         /\ t.conn = s.conn /\ t.touching = s.touching /\ EdgesOf(t) = EdgesOf(s)
         /\ PortsFollow(s, t) /\ Rooted(s, t)
         /\ s.changed \subseteq C => Noted(s, t)
<1>1. s \in States /\ Sound(s)
  BY DEF Good, Sound
<1>2. /\ t.changed = C /\ t.nodes = s.nodes /\ t.slots = s.slots /\ t.edges = s.edges
      /\ t.conn = s.conn /\ t.touching = s.touching
  BY <1>1 DEF States
<1>3. EdgesOf(t) = EdgesOf(s)
  BY <1>2 DEF EdgesOf
<1>4. Good(t)
  BY <1>1, <1>2, MarkingIsSound, GoodElsewhere
<1>5. Rooted(s, t)
  BY <1>2 DEF Rooted, Source
<1>6. PortsFollow(s, t)
  <2>1. ASSUME NEW a \in Interface, NEW j \in DOMAIN s.slots["out"][a], NEW i \in DOMAIN t.slots["out"][a],
               s.slots["out"][a][j].id = t.slots["out"][a][i].id
        PROVE  s.slots["in"][a][j].id = t.slots["in"][a][i].id
    <3>1. a \in Path /\ \A d \in Side : t.slots[d][a] = s.slots[d][a]
      BY <1>2, PathAssumption
    <3> QED
      BY ONLY <1>1, <2>1, <3>1, SamePortFollows
  <2> QED
    BY <2>1 DEF PortsFollow
<1>7. ASSUME s.changed \subseteq C
      PROVE  Noted(s, t)
  <2>1. \A i : SameFeed(s, t, i)
    BY <1>2, <1>3 DEF SameFeed, Source
  <2> QED
    BY <1>2, <1>7, <2>1 DEF Noted
<1> QED
  BY <1>2, <1>3, <1>4, <1>5, <1>6, <1>7

(* What a setter changes belongs to the nodes it marks.                    *)
LEMMA DefaultsRetain ==
  ASSUME Good(ns), NEW p \in Path, NEW n, NEW v, SetDefault(p, n, v)
  PROVE  Retains(ns', cache, default, cache', default')
<1>1. Sound(ns) /\ ns \in States /\ Mirrored(p) \in SUBSET Path
  BY MirroredIsPaths DEF Good, Sound
<1>2. /\ ns' = [ns EXCEPT !.changed = ns.changed \cup Mirrored(p)] /\ cache' = cache
      /\ \A m \in Mirrored(p) : n \in DOMAIN ns.slots["in"][m]
      /\ default' = [j \in SlotId |-> IF \E m \in Mirrored(p) : ns.slots["in"][m][n].id = j
                                      THEN v ELSE default[j]]
  BY DEF SetDefault, HasSlot
<1>3. ns'.slots = ns.slots /\ ns'.changed = ns.changed \cup Mirrored(p)
  BY <1>1, <1>2 DEF States
<1>4. ASSUME NEW q \in Path, NEW i \in IdsOf(ns.slots["in"][q]), q \notin ns'.changed
      PROVE  default'[i] = default[i]
  <2>1. PICK j \in DOMAIN ns.slots["in"][q] : ns.slots["in"][q][j].id = i
    BY <1>4 DEF IdsOf
  <2>2. i \in SlotId
    BY <1>1, <2>1, IdsTellSlots DEF Side
  <2>3. ASSUME NEW m \in Mirrored(p), ns.slots["in"][m][n].id = i
        PROVE  FALSE
    <3>1. m \in Path /\ n \in DOMAIN ns.slots["in"][m] /\ m \in ns'.changed
      BY <1>1, <1>2, <1>3
    <3>2. m = q
      BY <1>1, <2>1, <2>3, <3>1, IdsTellSlots DEF Side
    <3> QED
      BY <1>4, <3>1, <3>2
  <2>4. ~ \E m \in Mirrored(p) : ns.slots["in"][m][n].id = i
    BY <2>3
  <2> QED
    BY <1>2, <2>2, <2>4
<1> QED
  BY <1>2, <1>3, <1>4 DEF Retains, Held

(* A setter marks what it makes out of date.                               *)
LEMMA SettingKeepsCurrent ==
  ASSUME FreshInv, SetStep
  PROVE  FreshInv'
<1>1. /\ TypeInv /\ Current(ns, cache, default, data, shown) /\ Good(ns) /\ ns \in States
      /\ cache \in Filing /\ default \in Filing /\ data \in [Path -> Data]
  BY DEF FreshInv, TypeInv, Stocked, Good, Sound
<1>2. TypeInv'
  BY <1>1, SettingKeepsTypes
<1>3. cache' \in Filing /\ default' \in Filing
  BY <1>2 DEF TypeInv, Stocked
<1>4. ASSUME NEW C \in SUBSET Path, ns' = [ns EXCEPT !.changed = ns.changed \cup C], shown' = shown,
             Retains(ns', cache, default, cache', default'),
             \A p \in Ordinary \ C : data'[p] = data[p]
      PROVE  Current(ns', cache', default', data', shown')
  <2> DEFINE D == ns.changed \cup C
  <2>1. D \in SUBSET Path
    BY <1>1 DEF States
  <2>2. /\ Good(ns') /\ ns'.changed = D /\ ns'.nodes = ns.nodes /\ ns'.slots = ns.slots /\ ns'.edges = ns.edges
        /\ EdgesOf(ns') = EdgesOf(ns) /\ PortsFollow(ns, ns') /\ Rooted(ns, ns') /\ Noted(ns, ns')
    BY <1>1, <1>4, <2>1, MarkingFacts
  <2>3. \A p \in Ordinary \cap ns'.nodes : p \notin ns'.changed =>
          /\ p \in ns.nodes /\ \A d \in Side : ns'.slots[d][p] = ns.slots[d][p]
          /\ data'[p] = data[p] /\ shown'.out[p] = shown.out[p]
    BY <1>4, <2>2
  <2>4. /\ \A e \in EdgesOf(ns') : shown'.edge[e] = shown.edge[e]
        /\ \A e \in EdgeId : ns'.edges[e] = None => shown'.edge[e] = Absent
    BY <1>1, <1>4, <2>2 DEF Current
  <2> QED
    BY <1>1, <1>3, <1>4, <2>2, <2>3, <2>4, MarkingKeepsCurrent
<1>5. ASSUME NEW p \in Path, NEW d \in Data, UpdateNodeData(p, d)
      PROVE  Current(ns', cache', default', data', shown')
  <2>1. /\ ns' = [ns EXCEPT !.changed = ns.changed \cup {p}] /\ data' = [data EXCEPT ![p] = d]
        /\ cache' = cache /\ default' = default /\ shown' = shown
    BY <1>5 DEF UpdateNodeData
  <2>2. Retains(ns', cache, default, cache', default')
    BY <2>1 DEF Retains, Held
  <2>3. \A q \in Ordinary \ {p} : data'[q] = data[q]
    BY <1>1, <2>1 DEF Ordinary
  <2> QED
    BY <1>4, <2>1, <2>2, <2>3
<1>6. ASSUME NEW p \in Path, NEW n, NEW v, SetDefault(p, n, v)
      PROVE  Current(ns', cache', default', data', shown')
  <2>1. /\ ns' = [ns EXCEPT !.changed = ns.changed \cup Mirrored(p)]
        /\ data' = data /\ shown' = shown
    BY <1>6 DEF SetDefault
  <2>2. Retains(ns', cache, default, cache', default') /\ Mirrored(p) \in SUBSET Path
    BY <1>1, <1>6, DefaultsRetain, MirroredIsPaths
  <2> QED
    BY <1>4, <2>1, <2>2
<1> QED
  BY <1>1, <1>2, <1>5, <1>6, SettingKinds DEF FreshInv

-----------------------------------------------------------------------------
(* What the walk of source_changed has shown when it finds no change.      *)

Known(s, seed, t, x) ==
  x.node \notin seed /\ Port(x) \notin t.seen /\ HasSlot(s, "in", x.node, x.index)

LEMMA FollowFacts ==
  ASSUME NEW s, Sound(s), NEW seed, NEW moved, NEW t \in Doubt, t.todo # <<>>,
         NEW x, x = Head(t.todo), NEW u, u = Follow(s, seed, moved, t)
  PROVE  /\ u \in Doubt /\ x \in End /\ Tail(t.todo) \in Seq(End)
         /\ ~ IsInterface(s, x.node) => u.todo = Tail(t.todo) /\ u.seen = t.seen /\ (u.hit <=> x.node \in moved)
         /\ IsInterface(s, x.node) /\ ~ Known(s, seed, t, x) => u.hit
         /\ IsInterface(s, x.node) /\ Known(s, seed, t, x) =>
              /\ u.todo = Feeders(s, InputOf(s, x)) \o Tail(t.todo)
              /\ Feeders(s, InputOf(s, x)) \in Seq(End)
              /\ u.seen = t.seen \cup {Port(x)} /\ (u.hit <=> t.hit)
<1>1. /\ t.todo \in Seq(End) /\ t.seen \in SUBSET (Path \X Nat) /\ t.hit \in BOOLEAN
      /\ t = [todo |-> t.todo, seen |-> t.seen, hit |-> t.hit]
  BY DEF Doubt
<1>2. x \in End /\ Tail(t.todo) \in Seq(End)
  BY <1>1
<1>3. x.node \in Path /\ x.index \in Nat /\ Port(x) \in Path \X Nat
  BY <1>2 DEF End, Port
<1>4. CASE ~ IsInterface(s, x.node)
  <2>1. u = [t EXCEPT !.todo = Tail(@), !.hit = x.node \in moved]
    BY <1>4 DEF Follow
  <2>2. u = [todo |-> Tail(t.todo), seen |-> t.seen, hit |-> x.node \in moved]
    BY <1>1, <2>1
  <2>3. u.todo = Tail(t.todo) /\ u.seen = t.seen /\ u.hit = (x.node \in moved)
    BY <2>2
  <2>4. (x.node \in moved) \in BOOLEAN
    OBVIOUS
  <2>5. u \in Doubt
    BY <1>1, <1>2, <2>2, <2>4 DEF Doubt
  <2> QED
    BY <1>2, <1>4, <2>3, <2>5
<1>5. CASE IsInterface(s, x.node) /\ ~ Known(s, seed, t, x)
  <2>1. u = [t EXCEPT !.hit = TRUE]
    BY <1>5 DEF Follow, Known
  <2>2. u = [todo |-> t.todo, seen |-> t.seen, hit |-> TRUE]
    BY <1>1, <2>1
  <2>3. u \in Doubt
    BY <1>1, <2>2 DEF Doubt
  <2>4. u.hit
    BY <2>2
  <2> QED
    BY <1>2, <1>5, <2>3, <2>4
<1>6. CASE IsInterface(s, x.node) /\ Known(s, seed, t, x)
  <2> DEFINE feeders == Feeders(s, InputOf(s, x))
  <2>1. u = [t EXCEPT !.todo = feeders \o Tail(@), !.seen = @ \cup {Port(x)}]
    BY <1>6 DEF Follow, Known
  <2>2. feeders \in Seq(End)
    <3> DEFINE p == x.node
               i == x.index
    <3>1. p \in Path /\ i \in DOMAIN s.slots["in"][p]
      BY <1>3, <1>6 DEF Known, HasSlot
    <3> HIDE DEF p, i
    <3>2. Feeders(s, s.slots["in"][p][i]) \in Seq(End)
      BY <3>1, FeedersFacts
    <3> QED
      BY <3>2 DEF InputOf, p, i
  <2> HIDE DEF feeders
  <2>3. u = [todo |-> feeders \o Tail(t.todo), seen |-> t.seen \cup {Port(x)}, hit |-> t.hit]
    BY <1>1, <2>1
  <2>4. feeders \o Tail(t.todo) \in Seq(End)
    BY <1>2, <2>2
  <2>5. u.todo = feeders \o Tail(t.todo) /\ u.seen = t.seen \cup {Port(x)} /\ u.hit = t.hit
    BY <2>3
  <2>6. u \in Doubt
    BY <1>1, <1>3, <2>3, <2>4 DEF Doubt
  <2> QED
    BY <1>2, <1>6, <2>2, <2>5, <2>6 DEF feeders
<1> QED
  BY <1>4, <1>5, <1>6

(* The edge g has been looked at, or will be.                              *)
Vouched(s, moved, t, g) ==
  \/ FromPort(s, g) /\ Port(s.edges[g]["out"]) \in t.seen
  \/ ~ FromPort(s, g) /\ s.edges[g]["out"].node \notin moved
Covers(s, moved, t, g) ==
  Vouched(s, moved, t, g) \/ \E k \in DOMAIN t.todo : t.todo[k] = s.edges[g]["out"]

Unhit(s, seed, moved, t, e) ==
  /\ Covers(s, moved, t, e)
  /\ \A f \in EdgesOf(s) : FromPort(s, f) /\ Port(s.edges[f]["out"]) \in t.seen =>
       /\ s.edges[f]["out"].node \notin seed
       /\ \A g \in Behind(s, f) : Covers(s, moved, t, g)

LEMMA SplitTodo ==
  ASSUME NEW q \in Seq(End), q # <<>>, NEW y, \E k \in DOMAIN q : q[k] = y
  PROVE  y = Head(q) \/ \E k \in DOMAIN Tail(q) : Tail(q)[k] = y
<1>1. PICK k \in DOMAIN q : q[k] = y
  OBVIOUS
<1>2. CASE k = 1
  BY <1>1, <1>2
<1>3. CASE k # 1
  <2>1. k - 1 \in DOMAIN Tail(q) /\ Tail(q)[k - 1] = q[k]
    BY <1>1, <1>3
  <2> QED
    BY <1>1, <2>1
<1> QED
  BY <1>2, <1>3

LEMMA JoinedTodo ==
  ASSUME NEW q \in Seq(End), NEW r \in Seq(End), NEW y,
         \/ \E k \in DOMAIN q : q[k] = y
         \/ \E k \in DOMAIN r : r[k] = y
  PROVE  \E k \in DOMAIN (q \o r) : (q \o r)[k] = y
<1>1. ASSUME NEW k \in DOMAIN q, q[k] = y
      PROVE  k \in DOMAIN (q \o r) /\ (q \o r)[k] = y
  BY <1>1
<1>2. ASSUME NEW k \in DOMAIN r, r[k] = y
      PROVE  Len(q) + k \in DOMAIN (q \o r) /\ (q \o r)[Len(q) + k] = y
  BY <1>2
<1> QED
  BY <1>1, <1>2

LEMMA BehindIsFed ==
  ASSUME NEW s, Good(s), NEW f \in EdgesOf(s), FromPort(s, f), NEW g \in Behind(s, f)
  PROVE  LET feeders == Feeders(s, InputOf(s, s.edges[f]["out"]))
         IN  \E m \in DOMAIN feeders : feeders[m] = s.edges[g]["out"]
<1> DEFINE q == s.conn["in"][PortId(s, f)]
           feeders == Feeders(s, InputOf(s, s.edges[f]["out"]))
<1>1. Sound(s) /\ PortId(s, f) \in SlotId
  BY PortFacts DEF Good
<1>2. Once(q, {h \in EdgesOf(s) : s.edges[h]["in"].slot = PortId(s, f)})
  BY <1>1 DEF Sound, Filed, Side
<1>3. \E m \in DOMAIN q : q[m] = g
  BY <1>2 DEF Once, Behind
<1>4. DOMAIN feeders = DOMAIN q /\ \A m \in DOMAIN q : feeders[m] = s.edges[q[m]]["out"]
  BY PortFeeders
<1> HIDE DEF q, feeders
<1>5. \E m \in DOMAIN feeders : feeders[m] = s.edges[g]["out"]
  BY <1>3, <1>4
<1> QED
  BY <1>5 DEF feeders

LEMMA FollowKeeps ==
  ASSUME NEW s, Good(s), NEW seed, NEW moved, NEW e \in EdgesOf(s),
         NEW t \in Doubt, t.todo # <<>>, Unhit(s, seed, moved, t, e),
         NEW u, u = Follow(s, seed, moved, t), ~ u.hit
  PROVE  Unhit(s, seed, moved, u, e)
<1> DEFINE x == Head(t.todo)
           rest == Tail(t.todo)
           feeders == Feeders(s, InputOf(s, x))
<1>1. Sound(s) /\ t.todo \in Seq(End)
  BY DEF Good, Doubt
<1>2. /\ x \in End /\ rest \in Seq(End)
      /\ ~ IsInterface(s, x.node) => u.todo = rest /\ u.seen = t.seen /\ x.node \notin moved
      /\ IsInterface(s, x.node) =>
           /\ Known(s, seed, t, x) /\ u.todo = feeders \o rest /\ feeders \in Seq(End)
           /\ u.seen = t.seen \cup {Port(x)}
  <2>1. /\ x \in End /\ rest \in Seq(End)
        /\ ~ IsInterface(s, x.node) => u.todo = rest /\ u.seen = t.seen /\ (u.hit <=> x.node \in moved)
        /\ IsInterface(s, x.node) /\ ~ Known(s, seed, t, x) => u.hit
        /\ IsInterface(s, x.node) /\ Known(s, seed, t, x) =>
              u.todo = feeders \o rest /\ feeders \in Seq(End) /\ u.seen = t.seen \cup {Port(x)}
    <3>1. x = Head(t.todo) /\ rest = Tail(t.todo) /\ feeders = Feeders(s, InputOf(s, x))
      OBVIOUS
    <3> HIDE DEF x, rest, feeders
    <3>2. /\ x \in End /\ Tail(t.todo) \in Seq(End)
          /\ ~ IsInterface(s, x.node) => u.todo = Tail(t.todo) /\ u.seen = t.seen /\ (u.hit <=> x.node \in moved)
      BY <1>1, <3>1, FollowFacts
    <3>3. IsInterface(s, x.node) /\ ~ Known(s, seed, t, x) => u.hit
      BY <1>1, <3>1, FollowFacts
    <3>4. IsInterface(s, x.node) /\ Known(s, seed, t, x) =>
              /\ u.todo = Feeders(s, InputOf(s, x)) \o Tail(t.todo)
              /\ Feeders(s, InputOf(s, x)) \in Seq(End) /\ u.seen = t.seen \cup {Port(x)}
      BY <1>1, <3>1, FollowFacts
    <3> QED
      BY <3>1, <3>2, <3>3, <3>4
  <2> HIDE DEF x, rest, feeders
  <2> QED
    BY <2>1
<1>3. \A y : (\E k \in DOMAIN t.todo : t.todo[k] = y) => y = x \/ \E k \in DOMAIN rest : rest[k] = y
  BY <1>1, SplitTodo
<1> HIDE DEF x, rest, feeders
<1>4. t.seen \subseteq u.seen
  BY <1>2
<1>5. \A y : (\E k \in DOMAIN rest : rest[k] = y) => \E k \in DOMAIN u.todo : u.todo[k] = y
  <2>1. CASE ~ IsInterface(s, x.node)
    BY <1>2, <2>1
  <2>2. CASE IsInterface(s, x.node)
    <3>1. u.todo = feeders \o rest /\ feeders \in Seq(End) /\ rest \in Seq(End)
      BY <1>2, <2>2
    <3> SUFFICES ASSUME NEW y, \E k \in DOMAIN rest : rest[k] = y
                 PROVE  \E k \in DOMAIN u.todo : u.todo[k] = y
      OBVIOUS
    <3>2. \E k \in DOMAIN (feeders \o rest) : (feeders \o rest)[k] = y
      BY <3>1, JoinedTodo
    <3> QED
      BY <3>1, <3>2
  <2> QED
    BY <2>1, <2>2
<1>6. ASSUME NEW g \in EdgesOf(s), Covers(s, moved, t, g)
      PROVE  Covers(s, moved, u, g)
  <2>1. CASE Vouched(s, moved, t, g)
    BY <1>4, <2>1 DEF Covers, Vouched
  <2>2. CASE \E k \in DOMAIN rest : rest[k] = s.edges[g]["out"]
    BY <1>5, <2>2 DEF Covers
  <2>3. CASE s.edges[g]["out"] = x
    <3>1. FromPort(s, g) <=> IsInterface(s, x.node)
      BY <2>3 DEF FromPort
    <3>2. Vouched(s, moved, u, g)
      BY <1>2, <2>3, <3>1 DEF Vouched
    <3> QED
      BY <3>2 DEF Covers
  <2> QED
    BY <1>3, <1>6, <2>1, <2>2, <2>3 DEF Covers
<1>7. ASSUME NEW f \in EdgesOf(s), FromPort(s, f), Port(s.edges[f]["out"]) \in u.seen
      PROVE  /\ s.edges[f]["out"].node \notin seed
             /\ \A g \in Behind(s, f) : Covers(s, moved, u, g)
  <2>1. CASE Port(s.edges[f]["out"]) \in t.seen
    BY <1>6, <1>7, <2>1, BehindFacts DEF Unhit
  <2>2. CASE Port(s.edges[f]["out"]) \notin t.seen
    <3> DEFINE y == s.edges[f]["out"]
    <3>1. IsInterface(s, x.node) /\ Port(y) = Port(x)
      BY <1>2, <1>7, <2>2
    <3> HIDE DEF y
    <3>2. y.node = x.node /\ y.index = x.index
      BY <3>1 DEF Port
    <3>3. InputOf(s, y) = InputOf(s, x)
      BY <3>2 DEF InputOf
    <3>4. y.node \notin seed
      BY <1>2, <3>1, <3>2 DEF Known
    <3>5. ASSUME NEW g \in Behind(s, f)
          PROVE  Covers(s, moved, u, g)
      <4>1. \E m \in DOMAIN Feeders(s, InputOf(s, y)) : Feeders(s, InputOf(s, y))[m] = s.edges[g]["out"]
        BY <1>7, <3>5, BehindIsFed DEF y
      <4>2. \E m \in DOMAIN feeders : feeders[m] = s.edges[g]["out"]
        BY <3>3, <4>1 DEF feeders
      <4>3. u.todo = feeders \o rest /\ feeders \in Seq(End) /\ rest \in Seq(End)
        BY <1>2, <3>1
      <4>4. \E m \in DOMAIN u.todo : u.todo[m] = s.edges[g]["out"]
        BY <4>2, <4>3, JoinedTodo
      <4> QED
        BY <4>4 DEF Covers
    <3> QED
      BY <3>4, <3>5 DEF y
  <2> QED
    BY <2>1, <2>2
<1>8. Covers(s, moved, u, e)
  BY <1>6 DEF Unhit
<1> QED
  BY <1>7, <1>8 DEF Unhit

DoubtTurn(s, seed, moved) ==
  [t \in Doubt |-> IF t.hit \/ t.todo = <<>> THEN t ELSE Follow(s, seed, moved, t)]
DoubtStart(from) == [todo |-> <<from>>, seen |-> {}, hit |-> FALSE]
Doubtless(s, seed, moved, e) == {t \in Doubt : t.hit \/ Unhit(s, seed, moved, t, e)}

LEMMA SourceChangedIsLoop ==
  ASSUME NEW s, NEW seed, NEW moved, NEW from,
         NEW found, found = Iterate(DoubtTurn(s, seed, moved), DoubtStart(from), Steps)
  PROVE  SourceChanged(s, seed, moved, from) <=> found.hit \/ found.todo # <<>>
BY DEF SourceChanged, DoubtTurn, DoubtStart

(* Edges whose ports are clean, with all that is behind them, and whose    *)
(* other sources have not moved.                                           *)
Still(s, seed, moved, A) ==
  /\ A \subseteq EdgesOf(s)
  /\ \A f \in A : FromPort(s, f) => s.edges[f]["out"].node \notin seed /\ Behind(s, f) \subseteq A
  /\ \A f \in A : ~ FromPort(s, f) => s.edges[f]["out"].node \notin moved

(* When the walk of source_changed finds no change, it has seen every edge *)
(* behind the one it began with, and their sources have not moved.         *)
LEMMA UnchangedIsStill ==
  ASSUME NEW s, Good(s), NEW seed, NEW moved, NEW e \in EdgesOf(s),
         ~ SourceChanged(s, seed, moved, s.edges[e]["out"])
  PROVE  \E A \in SUBSET EdgeId : e \in A /\ Still(s, seed, moved, A)
<1> DEFINE F == DoubtTurn(s, seed, moved)
           x == DoubtStart(s.edges[e]["out"])
           S == Doubtless(s, seed, moved, e)
           found == Iterate(F, x, Steps)
<1>1. x \in S
  <2>1. s.edges[e]["out"] \in End
    BY EdgeFacts DEF Good, Side
  <2>2. x \in Doubt
    BY <2>1 DEF DoubtStart, Doubt
  <2>3. x.todo = <<s.edges[e]["out"]>> /\ x.seen = {}
    BY DEF DoubtStart
  <2> HIDE DEF x
  <2>4. 1 \in DOMAIN x.todo /\ x.todo[1] = s.edges[e]["out"]
    BY <2>3
  <2>5. Unhit(s, seed, moved, x, e)
    BY <2>3, <2>4 DEF Unhit, Covers
  <2> QED
    BY <2>2, <2>5 DEF Doubtless
<1>2. ASSUME NEW t \in S
      PROVE  F[t] \in S
  <2>1. t \in Doubt /\ (t.hit \/ Unhit(s, seed, moved, t, e))
    BY <1>2 DEF Doubtless
  <2>2. F[t] = IF t.hit \/ t.todo = <<>> THEN t ELSE Follow(s, seed, moved, t)
    BY <2>1 DEF DoubtTurn
  <2> HIDE DEF F
  <2>3. CASE t.hit \/ t.todo = <<>>
    BY <1>2, <2>2, <2>3
  <2>4. CASE ~ t.hit /\ t.todo # <<>>
    <3>1. F[t] = Follow(s, seed, moved, t) /\ Unhit(s, seed, moved, t, e) /\ t.todo # <<>>
      BY <2>1, <2>2, <2>4
    <3>2. F[t] \in Doubt
      BY <2>1, <3>1, FollowFacts DEF Good
    <3>3. F[t].hit \/ Unhit(s, seed, moved, F[t], e)
      BY <2>1, <3>1, FollowKeeps
    <3> QED
      BY <3>2, <3>3 DEF Doubtless
  <2> QED
    BY <2>3, <2>4
<1> HIDE DEF F, x, S
<1>3. found \in S
  BY <1>1, <1>2, IterateKeeps, StepsAreMany
<1>4. ~ found.hit /\ found.todo = <<>>
  BY SourceChangedIsLoop DEF F, x
<1> HIDE DEF found
<1>5. found \in Doubt /\ Unhit(s, seed, moved, found, e)
  BY <1>3, <1>4 DEF S, Doubtless
<1> DEFINE A == {g \in EdgesOf(s) : Vouched(s, moved, found, g)}
<1>6. \A g \in EdgesOf(s) : Covers(s, moved, found, g) => g \in A
  BY <1>4 DEF Covers
<1>7. A \in SUBSET EdgeId /\ e \in A
  BY <1>5, <1>6 DEF EdgesOf, Unhit
<1>8. ASSUME NEW f \in A
      PROVE  /\ FromPort(s, f) => s.edges[f]["out"].node \notin seed /\ Behind(s, f) \subseteq A
             /\ ~ FromPort(s, f) => s.edges[f]["out"].node \notin moved
  <2>1. f \in EdgesOf(s) /\ Vouched(s, moved, found, f)
    OBVIOUS
  <2>2. CASE FromPort(s, f)
    <3>1. Port(s.edges[f]["out"]) \in found.seen
      BY <2>1, <2>2 DEF Vouched
    <3>2. s.edges[f]["out"].node \notin seed /\ \A g \in Behind(s, f) : Covers(s, moved, found, g)
      BY <1>5, <2>1, <2>2, <3>1 DEF Unhit
    <3>3. \A g \in Behind(s, f) : g \in EdgesOf(s)
      BY DEF Behind
    <3> HIDE DEF A
    <3> QED
      BY <1>6, <2>2, <3>2, <3>3
  <2>3. CASE ~ FromPort(s, f)
    BY <2>1, <2>3 DEF Vouched
  <2> QED
    BY <2>2, <2>3
<1>9. Still(s, seed, moved, A)
  <2>1. A \subseteq EdgesOf(s)
    OBVIOUS
  <2> HIDE DEF A
  <2> QED
    BY <1>8, <2>1 DEF Still
<1> QED
  BY <1>7, <1>9

(***************************************************************************)
(* A pass, level by level.                                                 *)
(***************************************************************************)

Passing(s, c, def, F, levels, f) ==
  /\ Good(s) /\ s.changed \in SUBSET Path
  /\ levels = Sort(s, Downstream(s, s.changed)) /\ levels \in Seq(SUBSET Downstream(s, s.changed))
  /\ Downstream(s, s.changed) \in SUBSET Path
  /\ f[0] = NothingRun(c)
  /\ \A k \in 1..Len(levels) : f[k] = RunLevel(s, def, s.changed, F, f[k - 1], levels[k])

LEMMA PassIsPassing ==
  ASSUME NEW s, Good(s), NEW c, NEW def, NEW F, NEW levels, levels = Sort(s, Downstream(s, s.changed))
  PROVE  /\ Len(levels) \in Nat
         /\ \E f : Passing(s, c, def, F, levels, f) /\ Pass(s, c, def, F) = f[Len(levels)]
<1> DEFINE P == Downstream(s, s.changed)
<1>1. s \in States /\ s.changed \in SUBSET Path
  BY DEF Good, Sound, States
<1>2. P \in SUBSET Path
  BY <1>1, DownstreamFacts
<1> HIDE DEF P
<1>3. levels \in Seq(SUBSET P)
  BY <1>2, SortFacts DEF P
<1>4. Len(levels) \in Nat
  BY <1>3
<1>5. PICK f : /\ f[0] = NothingRun(c)
               /\ \A k \in 1..Len(levels) : f[k] = RunLevel(s, def, s.changed, F, f[k - 1], levels[k])
               /\ Pass(s, c, def, F) = f[Len(levels)]
  BY <1>4, PassFacts
<1>6. Passing(s, c, def, F, levels, f)
  BY <1>1, <1>2, <1>3, <1>5 DEF Passing, P
<1> QED
  BY <1>4, <1>5, <1>6

(* The nodes of a level that run, and that succeed.                        *)
Chosen(s, t, level) == {p \in level : MustExecute(s, s.changed, t.moved, p)}
Succeeding(s, F, t, level) == (Chosen(s, t, level) \cap s.nodes) \ F

Effects(s, def, F, t, level, u) ==
  /\ u.cache = Written(s, t.cache, def, Succeeding(s, F, t, level))
  /\ u.ran = t.ran \cup Chosen(s, t, level)
  /\ u.failed = t.failed \cup (Chosen(s, t, level) \cap F \cap s.nodes)
  /\ t.moved \subseteq u.moved
  /\ \A p \in Chosen(s, t, level) : p \notin u.moved => Held(s, t.cache, u.cache, p)

LEMMA LevelEffects ==
  ASSUME NEW s, NEW def, NEW F, NEW t, NEW level
  PROVE  Effects(s, def, F, t, level, RunLevel(s, def, s.changed, F, t, level))
<1> DEFINE u == RunLevel(s, def, s.changed, F, t, level)
<1> DEFINE runs == Chosen(s, t, level)
           after == Written(s, t.cache, def, Succeeding(s, F, t, level))
           same == {p \in (runs \cap s.nodes \cap Cutoff) \ F : \A i \in OutputIds(s, p) : after[i] = t.cache[i]}
<1>1. u = [cache |-> after, moved |-> t.moved \cup (runs \ same), ran |-> t.ran \cup runs,
           failed |-> t.failed \cup (runs \cap F \cap s.nodes)]
  BY DEF RunLevel, Chosen, Succeeding
<1>2. \A p \in same : \A i \in OutputIds(s, p) : after[i] = t.cache[i]
  OBVIOUS
<1> HIDE DEF runs, after, same, u
<1>3. /\ u.cache = after /\ u.moved = t.moved \cup (runs \ same) /\ u.ran = t.ran \cup runs
      /\ u.failed = t.failed \cup (runs \cap F \cap s.nodes)
  BY <1>1
<1>4. \A p \in runs : p \notin u.moved => Held(s, t.cache, u.cache, p)
  BY <1>2, <1>3 DEF Held
<1>5. Effects(s, def, F, t, level, u)
  BY <1>3, <1>4 DEF runs, after, Effects
<1> QED
  BY <1>5 DEF u

(* Whoever does not run in a level keeps its outputs.                      *)
LEMMA RestingIsHeld ==
  ASSUME NEW s, Sound(s), NEW c, NEW def, NEW P \in SUBSET Path, NEW x \in Path, x \notin P
  PROVE  Held(s, c, Written(s, c, def, P), x)
<1> SUFFICES ASSUME NEW i \in OutputIds(s, x)
             PROVE  Written(s, c, def, P)[i] = c[i]
  BY DEF Held
<1>1. "out" \in Side
  BY DEF Side
<1>2. PICK k \in DOMAIN s.slots["out"][x] : s.slots["out"][x][k].id = i
  BY DEF OutputIds, IdsOf
<1>3. i \in SlotId /\ \A q \in Path : \A j \in DOMAIN s.slots["out"][q] :
                        s.slots["out"][q][j].id = i => q = x /\ j = k
  BY <1>1, <1>2, IdsTellSlots
<1>4. \A q \in Path : i \in OutputIds(s, q) => q = x
  BY <1>3 DEF OutputIds, IdsOf
<1>5. \A p \in Runnable(P) : i \notin OutputIds(s, p)
  BY <1>4 DEF Runnable
<1> QED
  BY <1>3, <1>5, WrittenFacts

LEMMA LevelHolds ==
  ASSUME NEW s, Sound(s), NEW def, NEW F, NEW t, NEW level \in SUBSET Path,
         NEW u, Effects(s, def, F, t, level, u), NEW x \in Path
  PROVE  /\ x \notin level \/ x \notin Chosen(s, t, level) => Held(s, t.cache, u.cache, x)
         /\ x \notin u.moved => Held(s, t.cache, u.cache, x)
<1>1. /\ u.cache = Written(s, t.cache, def, Succeeding(s, F, t, level))
      /\ \A p \in Chosen(s, t, level) : p \notin u.moved => Held(s, t.cache, u.cache, p)
  BY DEF Effects
<1>2. Succeeding(s, F, t, level) \subseteq Chosen(s, t, level) /\ Chosen(s, t, level) \subseteq level
  BY DEF Succeeding, Chosen
<1>3. Succeeding(s, F, t, level) \in SUBSET Path
  BY <1>2
<1>4. x \notin Chosen(s, t, level) => Held(s, t.cache, u.cache, x)
  BY <1>1, <1>2, <1>3, RestingIsHeld
<1> QED
  BY <1>1, <1>2, <1>4

LEMMA HeldFacts ==
  ASSUME NEW s, NEW x
  PROVE  /\ \A c : Held(s, c, c, x)
         /\ \A c, k, w : Held(s, c, k, x) /\ Held(s, k, w, x) => Held(s, c, w, x)
BY DEF Held

(* The level after the k-th has been run as RunLevel runs it.              *)
Stepped(s, def, F, levels, f, k) ==
  /\ f[k + 1] = RunLevel(s, def, s.changed, F, f[k], levels[k + 1])
  /\ Effects(s, def, F, f[k], levels[k + 1], f[k + 1])
  /\ levels[k + 1] \in SUBSET Path /\ k + 1 \in DOMAIN levels

LEMMA PassingStep ==
  ASSUME NEW s, NEW c, NEW def, NEW F, NEW levels, NEW f, Passing(s, c, def, F, levels, f),
         NEW k \in Nat, k + 1 <= Len(levels)
  PROVE  Stepped(s, def, F, levels, f, k)
<1>1. Len(levels) \in Nat /\ DOMAIN levels = 1..Len(levels)
  BY DEF Passing
<1>2. k + 1 \in 1..Len(levels) /\ (k + 1) - 1 = k
  BY <1>1
<1>3. f[k + 1] = RunLevel(s, def, s.changed, F, f[k], levels[k + 1])
  BY <1>2 DEF Passing
<1>4. levels[k + 1] \in SUBSET Downstream(s, s.changed)
  BY <1>1, <1>2 DEF Passing
<1>5. Effects(s, def, F, f[k], levels[k + 1], f[k + 1])
  BY <1>3, LevelEffects
<1> QED
  BY <1>1, <1>2, <1>3, <1>4, <1>5 DEF Passing, Stepped

(* From one point of a pass to a later one, a node of no level between has *)
(* neither run nor been written.                                           *)
LEMMA PassHolds ==
  ASSUME NEW s, NEW c, NEW def, NEW F, NEW levels, NEW f, Passing(s, c, def, F, levels, f),
         NEW i \in Nat, NEW x \in Path, \A k \in DOMAIN levels : k > i => x \notin levels[k]
  PROVE  \A j \in Nat : i <= j /\ j <= Len(levels) =>
           /\ Held(s, f[i].cache, f[j].cache, x)
           /\ x \in f[j].ran <=> x \in f[i].ran
           /\ x \in f[j].failed <=> x \in f[i].failed
<1> DEFINE S == {j \in Nat : i <= j /\ j <= Len(levels) =>
                   /\ Held(s, f[i].cache, f[j].cache, x)
                   /\ x \in f[j].ran <=> x \in f[i].ran
                   /\ x \in f[j].failed <=> x \in f[i].failed}
<1>1. 0 \in S
  <2>1. i <= 0 => i = 0
    OBVIOUS
  <2>2. Held(s, f[i].cache, f[i].cache, x)
    BY HeldFacts
  <2> QED
    BY <2>1, <2>2
<1>2. Len(levels) \in Nat
  BY DEF Passing
<1>3. ASSUME NEW j \in Nat, j \in S
      PROVE  j + 1 \in S
  <2>1. CASE j + 1 <= i
    <3>1. i <= j + 1 => j + 1 = i
      BY <2>1
    <3> QED
      BY <3>1, HeldFacts
  <2>2. CASE i <= j /\ j + 1 <= Len(levels)
    <3>1. f[j + 1] = RunLevel(s, def, s.changed, F, f[j], levels[j + 1])
          /\ Effects(s, def, F, f[j], levels[j + 1], f[j + 1])
          /\ levels[j + 1] \in SUBSET Path /\ j + 1 \in DOMAIN levels
      <4>1. Stepped(s, def, F, levels, f, j)
        BY <2>2, PassingStep
      <4> QED
        BY <4>1 DEF Stepped
    <3>2. x \notin levels[j + 1]
      BY <2>2, <3>1
    <3>3. Held(s, f[j].cache, f[j + 1].cache, x)
      BY <3>1, <3>2, LevelHolds DEF Passing, Good
    <3>4. x \notin Chosen(s, f[j], levels[j + 1])
      BY <3>2 DEF Chosen
    <3>5. (x \in f[j + 1].ran <=> x \in f[j].ran) /\ (x \in f[j + 1].failed <=> x \in f[j].failed)
      <4>1. /\ f[j + 1].ran = f[j].ran \cup Chosen(s, f[j], levels[j + 1])
            /\ f[j + 1].failed = f[j].failed \cup (Chosen(s, f[j], levels[j + 1]) \cap F \cap s.nodes)
        BY <3>1 DEF Effects
      <4> QED
        BY <3>4, <4>1
    <3>6. j <= Len(levels)
      BY <1>2, <2>2
    <3>7. /\ Held(s, f[i].cache, f[j].cache, x)
          /\ x \in f[j].ran <=> x \in f[i].ran
          /\ x \in f[j].failed <=> x \in f[i].failed
      BY <1>3, <2>2, <3>6
    <3> QED
      BY <3>3, <3>5, <3>7, HeldFacts
  <2>3. CASE ~ (j + 1 <= i) /\ ~ (i <= j /\ j + 1 <= Len(levels))
    BY <1>2, <2>3
  <2> QED
    BY <2>1, <2>2, <2>3
<1> HIDE DEF S
<1>4. \A j \in Nat : j \in S
  BY <1>1, <1>3, SetInduction
<1> QED
  BY <1>4 DEF S

(* Whoever has not moved holds what it did.                                *)
LEMMA UnmovedIsHeld ==
  ASSUME NEW s, NEW c, NEW def, NEW F, NEW levels, NEW f, Passing(s, c, def, F, levels, f), NEW x \in Path
  PROVE  \A j \in Nat : j <= Len(levels) /\ x \notin f[j].moved => Held(s, c, f[j].cache, x)
<1> DEFINE S == {j \in Nat : j <= Len(levels) /\ x \notin f[j].moved => Held(s, c, f[j].cache, x)}
<1>1. 0 \in S
  <2>1. f[0].cache = c
    BY DEF Passing, NothingRun
  <2> QED
    BY <2>1, HeldFacts
<1>2. Len(levels) \in Nat
  BY DEF Passing
<1>3. ASSUME NEW j \in Nat, j \in S
      PROVE  j + 1 \in S
  <2>6. j + 1 \in Nat /\ Sound(s)
    BY DEF Passing, Good
  <2> SUFFICES ASSUME j + 1 <= Len(levels), x \notin f[j + 1].moved
               PROVE  Held(s, c, f[j + 1].cache, x)
    BY <2>6
  <2>1. /\ f[j + 1] = RunLevel(s, def, s.changed, F, f[j], levels[j + 1]) /\ levels[j + 1] \in SUBSET Path
        /\ Effects(s, def, F, f[j], levels[j + 1], f[j + 1])
    <3>1. Stepped(s, def, F, levels, f, j)
      BY PassingStep
    <3> QED
      BY <3>1 DEF Stepped
  <2>2. Held(s, f[j].cache, f[j + 1].cache, x)
    BY <2>1, <2>6, LevelHolds
  <2>3. f[j].moved \subseteq f[j + 1].moved
    BY <2>1 DEF Effects
  <2>4. j <= Len(levels) /\ x \notin f[j].moved
    BY <1>2, <2>3
  <2>5. Held(s, c, f[j].cache, x)
    BY <1>3, <2>4
  <2> QED
    BY <2>2, <2>5, HeldFacts
<1> HIDE DEF S
<1>4. \A j \in Nat : j \in S
  BY <1>1, <1>3, SetInduction
<1> QED
  BY <1>4 DEF S

LEMMA PassingStocks ==
  ASSUME RunsAreTyped, data \in [Path -> Data],
         NEW s, Shaped(s), NEW c, Stocked(s, c), NEW def \in Filing, NEW F,
         NEW levels, NEW f, Passing(s, c, def, F, levels, f)
  PROVE  \A j \in Nat : j <= Len(levels) => Stocked(s, f[j].cache)
<1> DEFINE S == {j \in Nat : j <= Len(levels) => Stocked(s, f[j].cache)}
<1>1. 0 \in S
  <2>1. f[0].cache = c
    BY DEF Passing, NothingRun
  <2> QED
    BY <2>1
<1>2. Len(levels) \in Nat /\ Sound(s)
  BY DEF Passing, Good
<1>3. ASSUME NEW j \in Nat, j \in S
      PROVE  j + 1 \in S
  <2>6. j + 1 \in Nat /\ Sound(s)
    BY DEF Passing, Good
  <2> SUFFICES ASSUME j + 1 <= Len(levels)
               PROVE  Stocked(s, f[j + 1].cache)
    BY <2>6
  <2>1. /\ f[j + 1] = RunLevel(s, def, s.changed, F, f[j], levels[j + 1]) /\ levels[j + 1] \in SUBSET Path
        /\ Effects(s, def, F, f[j], levels[j + 1], f[j + 1])
    <3>1. Stepped(s, def, F, levels, f, j)
      BY PassingStep
    <3> QED
      BY <3>1 DEF Stepped
  <2>2. f[j + 1].cache = Written(s, f[j].cache, def, Succeeding(s, F, f[j], levels[j + 1]))
    BY <2>1 DEF Effects
  <2>3. Succeeding(s, F, f[j], levels[j + 1]) \in SUBSET s.nodes
    BY DEF Succeeding
  <2>4. Stocked(s, f[j].cache)
    BY <1>2, <1>3
  <2>5. Stocked(s, Written(s, f[j].cache, def, Succeeding(s, F, f[j], levels[j + 1])))
    BY <1>2, <2>3, <2>4, WritingStocks
  <2> QED
    BY <2>2, <2>5
<1> HIDE DEF S
<1>4. \A j \in Nat : j \in S
  BY <1>1, <1>3, SetInduction
<1> QED
  BY <1>4 DEF S

(* So does whoever has not run.                                            *)
LEMMA UnranIsHeld ==
  ASSUME NEW s, NEW c, NEW def, NEW F, NEW levels, NEW f, Passing(s, c, def, F, levels, f), NEW x \in Path
  PROVE  \A j \in Nat : j <= Len(levels) /\ x \notin f[j].ran => Held(s, c, f[j].cache, x)
<1> DEFINE S == {j \in Nat : j <= Len(levels) /\ x \notin f[j].ran => Held(s, c, f[j].cache, x)}
<1>1. 0 \in S
  <2>1. f[0].cache = c
    BY DEF Passing, NothingRun
  <2> QED
    BY <2>1, HeldFacts
<1>2. Len(levels) \in Nat /\ Sound(s)
  BY DEF Passing, Good
<1>3. ASSUME NEW j \in Nat, j \in S
      PROVE  j + 1 \in S
  <2>1. j + 1 \in Nat
    OBVIOUS
  <2> SUFFICES ASSUME j + 1 <= Len(levels), x \notin f[j + 1].ran
               PROVE  Held(s, c, f[j + 1].cache, x)
    BY <2>1
  <2>2. Effects(s, def, F, f[j], levels[j + 1], f[j + 1]) /\ levels[j + 1] \in SUBSET Path
    <3>1. Stepped(s, def, F, levels, f, j)
      BY PassingStep
    <3> QED
      BY <3>1 DEF Stepped
  <2>3. x \notin f[j].ran /\ x \notin Chosen(s, f[j], levels[j + 1]) /\ j <= Len(levels)
    BY <1>2, <2>2 DEF Effects
  <2>4. Held(s, f[j].cache, f[j + 1].cache, x)
    BY <1>2, <2>2, <2>3, LevelHolds
  <2>5. Held(s, c, f[j].cache, x)
    BY <1>3, <2>3
  <2> QED
    BY <2>4, <2>5, HeldFacts
<1> HIDE DEF S
<1>4. \A j \in Nat : j \in S
  BY <1>1, <1>3, SetInduction
<1> QED
  BY <1>4 DEF S

(* Whoever has run was chosen in some level.                               *)
LEMMA RanWasChosen ==
  ASSUME NEW s, NEW c, NEW def, NEW F, NEW levels, NEW f, Passing(s, c, def, F, levels, f), NEW x
  PROVE  \A j \in Nat : j <= Len(levels) /\ x \in f[j].ran =>
           \E i \in Nat : i + 1 <= j /\ x \in Chosen(s, f[i], levels[i + 1])
<1> DEFINE S == {j \in Nat : j <= Len(levels) /\ x \in f[j].ran =>
                   \E i \in Nat : i + 1 <= j /\ x \in Chosen(s, f[i], levels[i + 1])}
<1>1. 0 \in S
  <2>1. f[0].ran = {}
    BY DEF Passing, NothingRun
  <2> QED
    BY <2>1
<1>2. Len(levels) \in Nat
  BY DEF Passing
<1>3. ASSUME NEW j \in Nat, j \in S
      PROVE  j + 1 \in S
  <2>1. j + 1 \in Nat
    OBVIOUS
  <2> SUFFICES ASSUME j + 1 <= Len(levels), x \in f[j + 1].ran
               PROVE  \E i \in Nat : i + 1 <= j + 1 /\ x \in Chosen(s, f[i], levels[i + 1])
    BY <2>1
  <2>2. Effects(s, def, F, f[j], levels[j + 1], f[j + 1])
    <3>1. Stepped(s, def, F, levels, f, j)
      BY PassingStep
    <3> QED
      BY <3>1 DEF Stepped
  <2>3. CASE x \in Chosen(s, f[j], levels[j + 1])
    BY <2>3
  <2>4. CASE x \notin Chosen(s, f[j], levels[j + 1])
    <3>1. x \in f[j].ran /\ j <= Len(levels)
      BY <1>2, <2>2, <2>4 DEF Effects
    <3>2. PICK i \in Nat : i + 1 <= j /\ x \in Chosen(s, f[i], levels[i + 1])
      BY <1>3, <3>1
    <3>3. i + 1 <= j + 1
      BY <3>2
    <3> QED
      BY <3>2, <3>3
  <2> QED
    BY <2>3, <2>4
<1> HIDE DEF S
<1>4. \A j \in Nat : j \in S
  BY <1>1, <1>3, SetInduction
<1> QED
  BY <1>4 DEF S

-----------------------------------------------------------------------------
(* The edges from nodes of no level after the i-th.                        *)
Early(s, levels, i) ==
  {e \in EdgesOf(s) : \A k \in DOMAIN levels : k > i => s.edges[e]["out"].node \notin levels[k]}

LEMMA FeedsAreEarly ==
  ASSUME NEW s, NEW c, NEW def, NEW F, NEW levels, NEW f, Passing(s, c, def, F, levels, f),
         Placed(levels) = Downstream(s, s.changed), NEW i \in Nat,
         NEW a \in Path, \A k \in DOMAIN levels : k > i + 1 => a \notin levels[k],
         NEW e \in Incoming(s, a)
  PROVE  e \in Early(s, levels, i)
<1> DEFINE P == Downstream(s, s.changed)
           b == s.edges[e]["out"].node
<1>1. /\ Good(s) /\ s \in States /\ s.changed \in SUBSET Path /\ P \in SUBSET Path
      /\ levels = Sort(s, P) /\ levels \in Seq(SUBSET P) /\ Placed(levels) = P
  BY DEF Passing, Good, Sound
<1>2. Closed(s, P)
  BY <1>1, DownstreamFacts
<1>3. e \in EdgesOf(s) /\ s.edges[e]["in"].node = a
  BY DEF Incoming
<1> HIDE DEF P
<1> SUFFICES ASSUME NEW k \in DOMAIN levels, k > i, b \in levels[k]
             PROVE  FALSE
  BY <1>3 DEF Early
<1>4. b \in P
  BY <1>1, PlacedFacts
<1>5. a \in P /\ a \in Neighbors(s, b)
  BY <1>2, <1>3, <1>4 DEF Closed, Neighbors
<1>6. LevelOf(levels, b) < LevelOf(levels, a)
  BY <1>1, <1>4, <1>5, PlacedInOrder
<1>7. Disjoint(levels)
  BY <1>1, SortFacts
<1>8. k = LevelOf(levels, b) /\ LevelOf(levels, b) \in Nat
  BY <1>1, <1>4, <1>7, LevelFacts
<1>9. LevelOf(levels, a) \in DOMAIN levels /\ LevelOf(levels, a) \in Nat /\ a \in levels[LevelOf(levels, a)]
  BY <1>1, <1>5, <1>7, LevelFacts
<1>10. LevelOf(levels, a) > i + 1
  BY <1>6, <1>8, <1>9
<1> QED
  BY <1>9, <1>10

(* What is early is what it will be at the end.                            *)
LEMMA EarlyCarried ==
  ASSUME NEW s, NEW c, NEW def, NEW F, NEW levels, NEW f, Passing(s, c, def, F, levels, f),
         Placed(levels) = Downstream(s, s.changed), NEW i \in Nat, i <= Len(levels),
         NEW n, n = Len(levels), NEW A, A = Early(s, levels, i)
  PROVE  /\ Carried(s, f[i].cache, def, s, f[n].cache, def, A)
         /\ \A e \in A : FromPort(s, e) => Behind(s, e) \subseteq A
<1>1. Good(s) /\ Sound(s) /\ n \in Nat
  BY DEF Passing, Good
<1>2. \A e \in A : e \in EdgesOf(s) /\ \A k \in DOMAIN levels : k > i => s.edges[e]["out"].node \notin levels[k]
  BY DEF Early
<1>3. ASSUME NEW e \in A
      PROVE  f[i].cache[s.edges[e]["out"].slot] = f[n].cache[s.edges[e]["out"].slot]
  <2> DEFINE b == s.edges[e]["out"].node
             z == s.edges[e]["out"].slot
  <2>1. "out" \in Side
    BY DEF Side
  <2>2. b \in Path /\ Resolves(s, "out", s.edges[e]["out"])
    BY <1>1, <1>2, <2>1, EdgeFacts
  <2>3. z \in OutputIds(s, b)
    BY <2>2 DEF Resolves, OutputIds, IdsOf, HasSlot
  <2>4. \A k \in DOMAIN levels : k > i => b \notin levels[k]
    BY <1>2
  <2> HIDE DEF b, z
  <2>5. Held(s, f[i].cache, f[n].cache, b)
    BY <1>1, <2>2, <2>4, PassHolds
  <2> QED
    BY <2>3, <2>5 DEF Held, z
<1>4. ASSUME NEW e \in A, FromPort(s, e), NEW g \in Behind(s, e)
      PROVE  g \in A
  <2>1. g \in EdgesOf(s) /\ s.edges[g]["in"].node = s.edges[e]["out"].node
    BY <1>1, <1>2, <1>4, BehindFacts
  <2>2. s.edges[e]["out"].node \in Path
    BY <1>1, <1>2, <1>4, PortFacts
  <2>3. g \in Incoming(s, s.edges[e]["out"].node)
    BY <2>1 DEF Incoming
  <2>4. \A k \in DOMAIN levels : k > i + 1 => s.edges[e]["out"].node \notin levels[k]
    BY <1>2, <1>4 DEF Passing
  <2> QED
    BY <2>2, <2>3, <2>4, FeedsAreEarly
<1>5. \A e \in A : FromPort(s, e) => Behind(s, e) \subseteq A
  BY <1>4
<1> HIDE DEF Early
<1> QED
  BY <1>2, <1>3, <1>5 DEF Carried

-----------------------------------------------------------------------------
(* Intact in the tables that a pass leaves alone.                          *)
LEMMA SelfIsIntact ==
  ASSUME NEW s, NEW def, NEW p
  PROVE  Intact(s, def, s, def, p)
BY DEF Intact

(* Whoever has run and not failed holds what a run of it would set at the  *)
(* end: what feeds it is early.                                            *)
LEMMA RanIsFresh ==
  ASSUME RunsAreTyped, data \in [Path -> Data],
         NEW s, Shaped(s), NEW c, Stocked(s, c), NEW def \in Filing, NEW F,
         NEW levels, NEW f, Passing(s, c, def, F, levels, f), Placed(levels) = Downstream(s, s.changed),
         NEW n, n = Len(levels),
         NEW p \in Ordinary \cap s.nodes, p \in f[n].ran, p \notin f[n].failed
  PROVE  Fresh(s, f[n].cache, def, data, p)
<1>1. Good(s) /\ Sound(s) /\ n \in Nat /\ p \in Path
  BY DEF Passing, Good, Ordinary
<1>2. PICK i \in Nat : i + 1 <= n /\ p \in Chosen(s, f[i], levels[i + 1])
  BY <1>1, RanWasChosen
<1> DEFINE Q == Succeeding(s, F, f[i], levels[i + 1])
           A == Early(s, levels, i)
<1>3. Effects(s, def, F, f[i], levels[i + 1], f[i + 1]) /\ levels[i + 1] \in SUBSET Path /\ i + 1 \in DOMAIN levels
  <2>1. Stepped(s, def, F, levels, f, i)
    BY <1>2, PassingStep
  <2> QED
    BY <2>1 DEF Stepped
<1>4. p \in levels[i + 1] /\ i <= n /\ i + 1 \in Nat
  BY <1>1, <1>2 DEF Chosen
<1>5. \A k \in DOMAIN levels : k > i + 1 => p \notin levels[k]
  <2>1. Disjoint(levels)
    BY <1>1, SortFacts DEF Passing
  <2>2. DOMAIN levels = 1..n
    BY DEF Passing
  <2>3. \A k \in DOMAIN levels : k > i + 1 => k # i + 1
    BY <1>4, <2>2
  <2> QED
    BY <1>3, <1>4, <2>1, <2>3 DEF Disjoint
<1>6. /\ Held(s, f[i + 1].cache, f[n].cache, p)
      /\ p \in f[n].failed <=> p \in f[i + 1].failed
  BY <1>1, <1>2, <1>4, <1>5, PassHolds
<1>7. p \in Q
  <2>1. f[i + 1].failed = f[i].failed \cup (Chosen(s, f[i], levels[i + 1]) \cap F \cap s.nodes)
    BY <1>3 DEF Effects
  <2> QED
    BY <1>2, <1>6, <2>1 DEF Succeeding
<1>8. f[i].cache \in Filing /\ f[n].cache \in Filing
  BY <1>1, <1>4, PassingStocks DEF Stocked
<1>9. f[i + 1].cache = Written(s, f[i].cache, def, Q)
  BY <1>3 DEF Effects
<1>10. InputValues(s, f[i].cache, def, p) = InputValues(s, f[n].cache, def, p)
  <2>1. Carried(s, f[i].cache, def, s, f[n].cache, def, A)
    BY <1>1, <1>4, EarlyCarried
  <2>2. \A e \in Incoming(s, p) : e \in A
    BY <1>1, <1>5, FeedsAreEarly
  <2> HIDE DEF A
  <2>3. Incoming(s, p) \subseteq A
    BY <2>2
  <2>4. PortsFollow(s, s)
    <3>1. \A a \in Interface : a \in Path /\ \A d \in Side : s.slots[d][a] = s.slots[d][a]
      BY PathAssumption
    <3>2. ASSUME NEW a \in Interface, NEW j \in DOMAIN s.slots["out"][a], NEW m \in DOMAIN s.slots["out"][a],
                 s.slots["out"][a][j].id = s.slots["out"][a][m].id
          PROVE  s.slots["in"][a][j].id = s.slots["in"][a][m].id
      BY ONLY <1>1, <3>1, <3>2, SamePortFollows
    <3> QED
      BY <3>2 DEF PortsFollow
  <2> QED
    BY <1>1, <1>8, <2>1, <2>3, <2>4, SelfIsIntact, InputsAgree
<1> SUFFICES ASSUME NEW j \in DOMAIN s.slots["out"][p]
             PROVE  \/ RunIs(s, f[n].cache, def, data, p)[j] = None
                    \/ f[n].cache[s.slots["out"][p][j].id] = RunIs(s, f[n].cache, def, data, p)[j]
  BY DEF Fresh
<1> DEFINE v == RunIs(s, f[n].cache, def, data, p)[j]
           id == s.slots["out"][p][j].id
<1>11. v = RunOf(s, f[i].cache, def, p)[j]
  BY <1>10 DEF RunIs, RunOf
<1>12. p \in Runnable(Q)
  BY <1>7 DEF Runnable, Ordinary
<1>13. Q \in SUBSET Path
  BY <1>3 DEF Succeeding, Chosen
<1> HIDE DEF Q, v
<1>14. Written(s, f[i].cache, def, Q)[id] = IF v # None THEN v ELSE f[i].cache[id]
  BY <1>1, <1>11, <1>12, <1>13, WrittenFacts
<1>15. id \in OutputIds(s, p)
  BY DEF OutputIds, IdsOf
<1>16. f[n].cache[id] = f[i + 1].cache[id]
  BY <1>6, <1>15 DEF Held
<1> QED
  BY <1>9, <1>14, <1>16 DEF v

(* A node that is not marked, whose outputs and feeds are what they were.  *)
Resting(s, c, def, k, a) ==
  /\ a \notin s.changed /\ Held(s, c, k, a)
  /\ \E A \in SUBSET EdgeId : Traced(s, A) /\ Incoming(s, a) \subseteq A /\ Carried(s, c, def, s, k, def, A)

(* Whoever is in no level stays outside what is downstream.                *)
LEMMA UnplannedRests ==
  ASSUME NEW s, NEW c, NEW def, NEW F, NEW levels, NEW f, Passing(s, c, def, F, levels, f),
         Placed(levels) = Downstream(s, s.changed), NEW n, n = Len(levels),
         NEW a \in Path, a \notin Downstream(s, s.changed)
  PROVE  Resting(s, c, def, f[n].cache, a)
<1> DEFINE A == Early(s, levels, 0)
           P == Downstream(s, s.changed)
<1>1. /\ Good(s) /\ s \in States /\ n \in Nat /\ f[0].cache = c
      /\ levels \in Seq(SUBSET P) /\ s.changed \in SUBSET Path
      /\ \A k \in DOMAIN levels : k > 0
  BY DEF Passing, Good, Sound, NothingRun
<1>2. s.changed \subseteq P
  BY <1>1, DownstreamFacts
<1>3. Placed(levels) = P
  OBVIOUS
<1> HIDE DEF P
<1>4. \A k \in DOMAIN levels : levels[k] \subseteq P
  BY <1>1, <1>3, PlacedFacts
<1>5. \A k \in DOMAIN levels : a \notin levels[k]
  BY <1>4 DEF P
<1>6. Held(s, c, f[n].cache, a)
  BY <1>1, <1>5, PassHolds
<1>7. Carried(s, c, def, s, f[n].cache, def, A) /\ \A e \in A : FromPort(s, e) => Behind(s, e) \subseteq A
  BY <1>1, EarlyCarried
<1>8. \A e \in Incoming(s, a) : e \in A
  BY <1>5, FeedsAreEarly
<1>9. \A e \in A : s.edges[e]["out"].node \notin s.changed
  <2>1. \A p \in P : \E k \in DOMAIN levels : p \in levels[k]
    BY <1>1, <1>3, PlacedFacts
  <2> QED
    BY <1>1, <1>2, <2>1 DEF Early
<1>10. A \subseteq EdgesOf(s) /\ A \in SUBSET EdgeId
  BY DEF Early, EdgesOf
<1> HIDE DEF A
<1>11. Traced(s, A)
  BY <1>7, <1>9, <1>10 DEF Traced
<1> QED
  BY <1>2, <1>6, <1>7, <1>8, <1>10, <1>11 DEF Resting, P

(* And whoever a level has skipped has sources that have not changed.      *)
LEMMA SkippedRests ==
  ASSUME NEW s, NEW c, NEW def, NEW F, NEW levels, NEW f, Passing(s, c, def, F, levels, f),
         Placed(levels) = Downstream(s, s.changed), NEW n, n = Len(levels),
         NEW a \in Path, a \in Downstream(s, s.changed), a \notin f[n].ran
  PROVE  Resting(s, c, def, f[n].cache, a)
<1> DEFINE P == Downstream(s, s.changed)
           l == LevelOf(levels, a)
<1>1. /\ Good(s) /\ s \in States /\ n \in Nat /\ DOMAIN levels = 1..n
      /\ levels \in Seq(SUBSET P) /\ P \in SUBSET Path /\ levels = Sort(s, P) /\ Placed(levels) = P
  BY DEF Passing, Good, Sound
<1>2. Disjoint(levels)
  BY <1>1, SortFacts
<1> HIDE DEF P
<1>3. a \in Placed(levels)
  BY <1>1 DEF P
<1>4. l \in DOMAIN levels /\ l \in Nat /\ a \in levels[l] /\ \A k \in DOMAIN levels : a \in levels[k] => k = l
  BY <1>1, <1>2, <1>3, LevelFacts
<1> HIDE DEF l
<1>5. PICK i \in Nat : l = i + 1
  <2>1. l - 1 \in Nat /\ l = (l - 1) + 1
    BY <1>1, <1>4
  <2> QED
    BY <2>1
<1>6. i + 1 <= n /\ i <= n /\ i + 1 \in Nat
  BY <1>1, <1>4, <1>5
<1>7. Effects(s, def, F, f[i], levels[i + 1], f[i + 1])
  <2>1. Stepped(s, def, F, levels, f, i)
    BY <1>6, PassingStep
  <2> QED
    BY <2>1 DEF Stepped
<1>8. \A k \in DOMAIN levels : k > i + 1 => a \notin levels[k]
  <2>1. \A k \in DOMAIN levels : k > i + 1 => k # l
    BY <1>1, <1>5, <1>6
  <2> QED
    BY <1>4, <2>1
<1>9. a \in f[n].ran <=> a \in f[i + 1].ran
  BY <1>1, <1>6, <1>8, PassHolds
<1>10. a \notin Chosen(s, f[i], levels[i + 1])
  BY <1>7, <1>9 DEF Effects
<1>11. ~ MustExecute(s, s.changed, f[i].moved, a)
  BY <1>4, <1>5, <1>10 DEF Chosen
<1>12. a \notin s.changed /\ \A e \in Incoming(s, a) : ~ SourceChanged(s, s.changed, f[i].moved, s.edges[e]["out"])
  BY <1>11 DEF MustExecute, Incoming
<1>13. Held(s, c, f[n].cache, a)
  BY <1>1, UnranIsHeld
<1> DEFINE A == {e \in Early(s, levels, i) : \E X \in SUBSET EdgeId : e \in X /\ Still(s, s.changed, f[i].moved, X)}
<1>14. \A e \in A : e \in EdgesOf(s) /\ e \in Early(s, levels, i)
  BY DEF Early
<1>15. A \in SUBSET EdgeId
  BY <1>14 DEF EdgesOf
<1>16. /\ Carried(s, f[i].cache, def, s, f[n].cache, def, Early(s, levels, i))
       /\ \A e \in Early(s, levels, i) : FromPort(s, e) => Behind(s, e) \subseteq Early(s, levels, i)
  BY <1>1, <1>6, EarlyCarried
<1>17. ASSUME NEW e \in A, FromPort(s, e)
       PROVE  s.edges[e]["out"].node \notin s.changed /\ Behind(s, e) \subseteq A
  <2>1. PICK X \in SUBSET EdgeId : e \in X /\ Still(s, s.changed, f[i].moved, X)
    OBVIOUS
  <2>2. s.edges[e]["out"].node \notin s.changed /\ Behind(s, e) \subseteq X
    BY <1>17, <2>1 DEF Still
  <2>3. Behind(s, e) \subseteq Early(s, levels, i)
    BY <1>14, <1>16, <1>17
  <2>4. \A g \in Behind(s, e) : g \in A
    BY <2>1, <2>2, <2>3
  <2> QED
    BY <2>2, <2>4
<1>18. ASSUME NEW e \in A, ~ FromPort(s, e)
       PROVE  c[s.edges[e]["out"].slot] = f[n].cache[s.edges[e]["out"].slot]
  <2> DEFINE b == s.edges[e]["out"].node
             z == s.edges[e]["out"].slot
  <2>1. PICK X \in SUBSET EdgeId : e \in X /\ Still(s, s.changed, f[i].moved, X)
    OBVIOUS
  <2>2. b \notin f[i].moved
    BY <1>18, <2>1 DEF Still
  <2>3. "out" \in Side /\ e \in EdgesOf(s)
    BY <1>14 DEF Side
  <2>4. b \in Path /\ Resolves(s, "out", s.edges[e]["out"])
    BY <1>1, <2>3, EdgeFacts DEF Good
  <2>5. z \in OutputIds(s, b)
    BY <2>4 DEF Resolves, OutputIds, IdsOf, HasSlot
  <2>6. f[i].cache[z] = f[n].cache[z]
    BY <1>14, <1>16, <1>18 DEF Carried
  <2> HIDE DEF b, z
  <2>7. Held(s, c, f[i].cache, b)
    BY <1>6, <2>2, <2>4, UnmovedIsHeld
  <2>8. c[z] = f[i].cache[z]
    BY <2>5, <2>7 DEF Held
  <2> QED
    BY <2>6, <2>8 DEF z
<1>19. \A e \in Incoming(s, a) : e \in A
  <2> SUFFICES ASSUME NEW e \in Incoming(s, a)
               PROVE  e \in A
    OBVIOUS
  <2>1. e \in Early(s, levels, i)
    BY <1>8, FeedsAreEarly
  <2>2. e \in EdgesOf(s) /\ ~ SourceChanged(s, s.changed, f[i].moved, s.edges[e]["out"])
    BY <1>12 DEF Incoming
  <2>3. \E X \in SUBSET EdgeId : e \in X /\ Still(s, s.changed, f[i].moved, X)
    BY <1>1, <2>2, UnchangedIsStill
  <2> QED
    BY <2>1, <2>3
<1> HIDE DEF A
<1>20. Traced(s, A)
  BY <1>14, <1>17 DEF Traced
<1>21. Carried(s, c, def, s, f[n].cache, def, A)
  BY <1>14, <1>17, <1>18 DEF Carried
<1> QED
  BY <1>12, <1>13, <1>15, <1>19, <1>20, <1>21 DEF Resting

-----------------------------------------------------------------------------
(* To mark other nodes changes nothing that a walk reads.                  *)
SameButMarks(s, t) ==
  /\ t.nodes = s.nodes /\ t.slots = s.slots /\ t.edges = s.edges
  /\ t.conn = s.conn /\ t.touching = s.touching /\ EdgesOf(t) = EdgesOf(s)

LEMMA MarksChangeNoWalk ==
  ASSUME NEW s, NEW t, SameButMarks(s, t)
  PROVE  /\ \A e : FromPort(t, e) <=> FromPort(s, e)
         /\ \A e : PortId(t, e) = PortId(s, e)
         /\ \A e : Source(t, e) = Source(s, e)
         /\ \A e : Behind(t, e) = Behind(s, e)
         /\ \A p : Incoming(t, p) = Incoming(s, p)
<1>1. \A e : FromPort(t, e) <=> FromPort(s, e)
  BY DEF SameButMarks, FromPort, IsInterface
<1>2. \A e : PortId(t, e) = PortId(s, e)
  BY DEF SameButMarks, PortId, InputOf
<1>3. \A e : Behind(t, e) = Behind(s, e)
  BY <1>2 DEF SameButMarks, Behind
<1> QED
  BY <1>1, <1>2, <1>3 DEF SameButMarks, Source, Incoming

LEMMA CarriedToMarked ==
  ASSUME NEW s, NEW t, SameButMarks(s, t), NEW c, NEW def, NEW k, NEW A, Carried(s, c, def, s, k, def, A)
  PROVE  Carried(s, c, def, t, k, def, A)
<1>1. /\ \A e : FromPort(t, e) <=> FromPort(s, e)
      /\ \A e : PortId(t, e) = PortId(s, e)
      /\ \A e : Source(t, e) = Source(s, e)
      /\ \A e : Behind(t, e) = Behind(s, e)
  BY MarksChangeNoWalk
<1>2. t.edges = s.edges /\ t.conn = s.conn /\ EdgesOf(t) = EdgesOf(s)
  BY DEF SameButMarks
<1> QED
  BY <1>1, <1>2 DEF Carried

LEMMA AllIsCarried ==
  ASSUME NEW s, NEW t, SameButMarks(s, t), NEW k, NEW def
  PROVE  Carried(s, k, def, t, k, def, EdgesOf(s))
<1>1. \A e : Behind(s, e) \subseteq EdgesOf(s)
  BY DEF Behind
<1>2. Carried(s, k, def, s, k, def, EdgesOf(s))
  BY <1>1 DEF Carried
<1> QED
  BY <1>2, CarriedToMarked

LEMMA MarksAreIntact ==
  ASSUME NEW s, NEW t, SameButMarks(s, t), NEW def, NEW p
  PROVE  Intact(s, def, t, def, p) /\ Incoming(t, p) = Incoming(s, p) /\ Incoming(t, p) \subseteq EdgesOf(s)
<1>1. Incoming(t, p) = Incoming(s, p)
  BY MarksChangeNoWalk
<1> QED
  BY <1>1 DEF SameButMarks, Intact, Incoming

(* What holds of a node with the marks of s holds of it with those of t.   *)
LEMMA MarksChangeNoRun ==
  ASSUME NEW s, NEW t, Good(s), Good(t), PortsFollow(s, t), SameButMarks(s, t),
         NEW k \in Filing, NEW def \in Filing, NEW dat, NEW p \in Path
  PROVE  /\ Fresh(s, k, def, dat, p) => Fresh(t, k, def, dat, p)
         /\ NodeOutputs(s, k, def, p) = NodeOutputs(t, k, def, p)
         /\ \A e \in EdgesOf(s) : Delivered(s, k, def, e) = Delivered(t, k, def, e)
<1> DEFINE A == EdgesOf(s)
<1>1. Carried(s, k, def, t, k, def, A)
  BY AllIsCarried
<1>2. Intact(s, def, t, def, p) /\ Incoming(t, p) \subseteq A
  BY MarksAreIntact
<1> HIDE DEF A
<1>3. InputValues(s, k, def, p) = InputValues(t, k, def, p)
  BY <1>1, <1>2, InputsAgree
<1>4. Held(t, k, k, p)
  BY DEF Held
<1>5. NodeOutputs(s, k, def, p) = NodeOutputs(t, k, def, p)
  BY <1>1, <1>2, <1>4, OutputsAgree
<1>6. \A e \in A : Delivered(s, k, def, e) = Delivered(t, k, def, e)
  BY <1>1, DeliveriesAgree
<1>7. Fresh(s, k, def, dat, p) => Fresh(t, k, def, dat, p)
  <2>1. RunIs(s, k, def, dat, p) = RunIs(t, k, def, dat, p) /\ t.slots = s.slots
    BY <1>3 DEF RunIs, SameButMarks
  <2> QED
    BY <2>1 DEF Fresh
<1> QED
  BY <1>5, <1>6, <1>7 DEF A

(* What a resting node holds, it goes on holding; what its edges deliver,  *)
(* they go on delivering.                                                  *)
LEMMA RestingStays ==
  ASSUME NEW s, NEW t, Good(s), Good(t), PortsFollow(s, t), SameButMarks(s, t),
         NEW c \in Filing, NEW def \in Filing, NEW k \in Filing, NEW dat, NEW sh, Current(s, c, def, dat, sh),
         NEW a \in Path, Resting(s, c, def, k, a)
  PROVE  /\ a \in Ordinary \cap s.nodes => Fresh(t, k, def, dat, a) /\ sh.out[a] = NodeOutputs(t, k, def, a)
         /\ \A e \in EdgesOf(s) : s.edges[e]["out"].node = a =>
              sh.edge[e] \in {Absent, Delivered(t, k, def, e)}
<1>1. a \notin s.changed /\ Held(s, c, k, a)
  BY DEF Resting
<1>2. PICK A \in SUBSET EdgeId : Traced(s, A) /\ Incoming(s, a) \subseteq A /\ Carried(s, c, def, s, k, def, A)
  BY DEF Resting
<1>3. /\ \A e : FromPort(t, e) <=> FromPort(s, e)
      /\ \A e : PortId(t, e) = PortId(s, e)
      /\ \A e : Source(t, e) = Source(s, e)
      /\ \A e : Behind(t, e) = Behind(s, e)
      /\ Incoming(t, a) = Incoming(s, a)
      /\ t.edges = s.edges /\ t.conn = s.conn /\ EdgesOf(t) = EdgesOf(s) /\ t.slots = s.slots
  BY MarksChangeNoWalk DEF SameButMarks
<1>4. ASSUME a \in Ordinary \cap s.nodes
      PROVE  Fresh(t, k, def, dat, a) /\ sh.out[a] = NodeOutputs(t, k, def, a)
  <2>1. Settles(s, A, a)
    BY <1>1, <1>2, <1>4 DEF Settles
  <2>2. Carried(s, c, def, t, k, def, A) /\ Incoming(t, a) \subseteq A
    BY <1>2, <1>3, CarriedToMarked
  <2>3. Intact(s, def, t, def, a)
    BY MarksAreIntact
  <2>4. Held(t, c, k, a)
    BY <1>1, <1>3 DEF Held, OutputIds
  <2>5. Stands(s, c, def, dat, t, k, def, dat, a, A)
    BY <2>1, <2>2, <2>3, <2>4 DEF Stands
  <2> QED
    BY <1>2, <2>5, NodeStays
<1>5. ASSUME NEW e \in EdgesOf(s), s.edges[e]["out"].node = a
      PROVE  sh.edge[e] \in {Absent, Delivered(t, k, def, e)}
  <2> DEFINE B == A \cup {e}
             z == s.edges[e]["out"].slot
  <2>1. Behind(s, e) \subseteq A \/ ~ FromPort(s, e)
    <3>1. FromPort(s, e) => \A g \in Behind(s, e) : g \in Incoming(s, a)
      BY <1>5, BehindFacts DEF Incoming
    <3> QED
      BY <1>2, <3>1
  <2>2. "out" \in Side
    BY DEF Side
  <2>3. Resolves(s, "out", s.edges[e]["out"])
    BY <2>2, EdgeFacts DEF Good
  <2>4. z \in OutputIds(s, a)
    BY <1>5, <2>3 DEF Resolves, OutputIds, IdsOf, HasSlot
  <2>5. c[z] = k[z]
    BY <1>1, <2>4 DEF Held
  <2>6. Traced(s, B)
    BY <1>1, <1>2, <1>5, <2>1 DEF Traced
  <2>7. Carried(s, c, def, s, k, def, B)
    BY <1>2, <1>5, <2>1, <2>5 DEF Carried
  <2>8. B \in SUBSET EdgeId /\ e \in B
    BY <1>2 DEF EdgesOf
  <2> HIDE DEF B
  <2>9. Carried(s, c, def, t, k, def, B)
    BY <2>7, CarriedToMarked
  <2> QED
    BY <1>1, <1>5, <2>6, <2>8, <2>9, EdgeStays
<1> QED
  BY <1>4, <1>5

(* A pass keeps the invariant, whatever it skips and whichever runs fail.  *)
LEMMA PassKeepsCurrent ==
  ASSUME RunsAreTyped, FreshInv, NEW F \in SUBSET Path,
         Placed(Sort(ns, Downstream(ns, ns.changed))) = Downstream(ns, ns.changed),
         NEW u, u = Pass(ns, cache, default, F),
         NEW t, t = [ns EXCEPT !.changed = u.failed],
         NEW sh, sh = Fold(ns, u.cache, default, u.ran)
  PROVE  Current(t, u.cache, default, data, sh)
<1> DEFINE levels == Sort(ns, Downstream(ns, ns.changed))
           n == Len(levels)
           k == u.cache
<1>1. /\ Good(ns) /\ Shaped(ns) /\ data \in [Path -> Data] /\ default \in Filing
      /\ Stocked(ns, cache) /\ cache \in Filing /\ Current(ns, cache, default, data, shown)
  BY DEF FreshInv, TypeInv, Stocked
<1>2. PICK f : Passing(ns, cache, default, F, levels, f) /\ Pass(ns, cache, default, F) = f[n]
  BY <1>1, PassIsPassing
<1>3. n \in Nat
  BY <1>1, PassIsPassing
<1>4. u = f[n]
  BY <1>2
<1>5. u.failed \in SUBSET Path
  BY <1>1, PassStaysInPlan
<1>6. k \in Filing
  BY <1>1, PassStocks DEF Stocked
<1>7. Placed(levels) = Downstream(ns, ns.changed)
  OBVIOUS
<1> HIDE DEF levels, n, k
<1> DEFINE C == u.failed
<1>16. C \in SUBSET Path /\ t = [ns EXCEPT !.changed = C]
  BY <1>5
<1> HIDE DEF C
<1>8. Good(t) /\ PortsFollow(ns, t) /\ SameButMarks(ns, t) /\ t.changed = u.failed
  <2>1. /\ Good(t) /\ t.changed = C /\ t.nodes = ns.nodes /\ t.slots = ns.slots /\ t.edges = ns.edges
        /\ t.conn = ns.conn /\ t.touching = ns.touching /\ EdgesOf(t) = EdgesOf(ns)
        /\ PortsFollow(ns, t)
    BY ONLY <1>1, <1>16, MarkingFacts
  <2> QED
    BY <2>1 DEF SameButMarks, C
<1>9. t.nodes = ns.nodes /\ t.edges = ns.edges /\ EdgesOf(t) = EdgesOf(ns)
  BY <1>8 DEF SameButMarks
<1>10. ASSUME NEW a \in Path, a \notin u.ran
       PROVE  Resting(ns, cache, default, k, a)
  <2>1. a \notin f[n].ran /\ k = f[n].cache
    BY <1>4, <1>10 DEF k
  <2>2. CASE a \in Downstream(ns, ns.changed)
    BY <1>2, <1>7, <2>1, <2>2, SkippedRests DEF n
  <2>3. CASE a \notin Downstream(ns, ns.changed)
    BY <1>2, <1>7, <2>1, <2>3, UnplannedRests DEF n
  <2> QED
    BY <2>2, <2>3
<1>11. /\ \A p \in Path : sh.out[p] = IF p \in u.ran THEN NodeOutputs(ns, k, default, p) ELSE shown.out[p]
       /\ \A e \in EdgeId : sh.edge[e] = IF e \in EdgesOf(ns) /\ ns.edges[e]["out"].node \in u.ran
                                         THEN Delivered(ns, k, default, e) ELSE shown.edge[e]
  <2>1. /\ sh.out = [p \in Path |-> IF p \in u.ran THEN NodeOutputs(ns, k, default, p) ELSE shown.out[p]]
        /\ sh.edge = [e \in EdgeId |-> IF e \in EdgesOf(ns) /\ ns.edges[e]["out"].node \in u.ran
                                       THEN Delivered(ns, k, default, e) ELSE shown.edge[e]]
    BY DEF Fold, k
  <2> QED
    BY <2>1
<1>12. ASSUME NEW A \in SUBSET EdgeId, NEW p, Settles(t, A, p)
       PROVE  Fresh(t, k, default, data, p) /\ sh.out[p] = NodeOutputs(t, k, default, p)
  <2>1. p \in Ordinary \cap ns.nodes /\ p \notin u.failed /\ p \in Path
    BY <1>8, <1>9, <1>12 DEF Settles, Ordinary
  <2>2. CASE p \in u.ran
    <3>1. Fresh(ns, k, default, data, p)
      BY <1>1, <1>2, <1>4, <1>7, <2>1, <2>2, RanIsFresh DEF k, n
    <3>2. Fresh(t, k, default, data, p) /\ NodeOutputs(ns, k, default, p) = NodeOutputs(t, k, default, p)
      BY <1>1, <1>6, <1>8, <2>1, <3>1, MarksChangeNoRun
    <3> QED
      BY <1>11, <2>1, <2>2, <3>2
  <2>3. CASE p \notin u.ran
    <3>1. Fresh(t, k, default, data, p) /\ shown.out[p] = NodeOutputs(t, k, default, p)
      BY <1>1, <1>6, <1>8, <1>10, <2>1, <2>3, RestingStays
    <3> QED
      BY <1>11, <2>1, <2>3, <3>1
  <2> QED
    BY <2>2, <2>3
<1>13. ASSUME NEW A \in SUBSET EdgeId, NEW e \in A, Traced(t, A), t.edges[e]["out"].node \notin t.changed
       PROVE  sh.edge[e] \in {Absent, Delivered(t, k, default, e)}
  <2> DEFINE a == ns.edges[e]["out"].node
  <2>1. e \in EdgesOf(ns)
    BY <1>9, <1>13 DEF Traced
  <2>2. "out" \in Side /\ e \in EdgeId
    BY <2>1 DEF Side, EdgesOf
  <2>3. a \in Path
    BY <1>1, <2>1, <2>2, EdgeFacts DEF Good
  <2>4. CASE a \in u.ran
    <3>1. \A g \in EdgesOf(ns) : Delivered(ns, k, default, g) = Delivered(t, k, default, g)
      <4>1. Carried(ns, k, default, t, k, default, EdgesOf(ns))
        BY <1>8, AllIsCarried
      <4> QED
        BY ONLY <1>1, <1>6, <1>8, <4>1, DeliveriesAgree
    <3>2. Delivered(ns, k, default, e) = Delivered(t, k, default, e)
      BY <2>1, <3>1
    <3> QED
      BY <1>11, <2>1, <2>2, <2>4, <3>2
  <2>5. CASE a \notin u.ran
    <3>1. Resting(ns, cache, default, k, a)
      BY <1>10, <2>3, <2>5
    <3>2. \A g \in EdgesOf(ns) : ns.edges[g]["out"].node = a =>
            shown.edge[g] \in {Absent, Delivered(t, k, default, g)}
      BY <1>1, <1>6, <1>8, <2>3, <3>1, RestingStays
    <3>3. sh.edge[e] = shown.edge[e]
      BY <1>11, <2>2, <2>5
    <3> QED
      BY <2>1, <3>2, <3>3
  <2> QED
    BY <2>4, <2>5
<1>14. ASSUME NEW e \in EdgeId, t.edges[e] = None
       PROVE  sh.edge[e] = Absent
  <2>1. ns.edges[e] = None /\ e \notin EdgesOf(ns)
    BY <1>9, <1>14 DEF EdgesOf
  <2>2. shown.edge[e] = Absent
    BY <1>1, <2>1 DEF Current
  <2> QED
    BY <1>11, <2>1, <2>2
<1>15. Current(t, k, default, data, sh)
  BY <1>12, <1>13, <1>14 DEF Current
<1> QED
  BY <1>15 DEF k

LEMMA ExecutingKeepsCurrent ==
  ASSUME RunsAreTyped, FreshInv, NEW F, Execute(F)
  PROVE  FreshInv'
<1> DEFINE P == Downstream(ns, ns.changed)
           u == Pass(ns, cache, default, F)
<1>1. /\ Placed(Sort(ns, P)) = P /\ F \subseteq ns.nodes \cap P /\ cache' = u.cache
      /\ ns' = [ns EXCEPT !.changed = u.failed]
      /\ shown' = Fold(ns, u.cache, default, u.ran)
      /\ data' = data /\ default' = default
  BY DEF Execute
<1>2. TypeInv'
  BY ExecutingKeepsTypes DEF FreshInv
<1>3. F \in SUBSET Path
  BY <1>1 DEF FreshInv, TypeInv, Good, Sound, States
<1> HIDE DEF u
<1>4. Current(ns', u.cache, default, data, shown')
  BY ONLY RunsAreTyped, FreshInv, <1>1, <1>3, PassKeepsCurrent DEF P, u
<1>5. Current(ns', cache', default', data', shown')
  BY <1>1, <1>4
<1> QED
  BY <1>2, <1>5 DEF FreshInv

LEMMA FreshStep ==
  ASSUME ProxiesAreKept, RunsAreTyped, FreshInv, [EngineNext]_engine
  PROVE  FreshInv'
<1>1. CASE Restructure \/ Rewire
  BY <1>1, EditsKeepCurrent
<1>2. CASE SetStep
  BY <1>2, SettingKeepsCurrent
<1>3. CASE ExecuteStep
  BY <1>3, ExecutingKeepsCurrent DEF ExecuteStep
<1>4. CASE UNCHANGED engine
  <2>1. ns' = ns /\ data' = data /\ default' = default /\ cache' = cache /\ shown' = shown
    BY <1>4 DEF engine
  <2>2. TypeInv'
    BY TypeStep DEF FreshInv
  <2>3. Current(ns', cache', default', data', shown')
    BY <2>1 DEF FreshInv
  <2> QED
    BY <2>2, <2>3 DEF FreshInv
<1> QED
  BY <1>1, <1>2, <1>3, <1>4 DEF EngineNext, EditStep

LEMMA FreshInit ==
  ASSUME EngineInit
  PROVE  FreshInv
<1>1. ns.nodes = {} /\ \A e \in EdgeId : ns.edges[e] = None
  BY DEF EngineInit, Init
<1>2. EdgesOf(ns) = {}
  BY <1>1 DEF EdgesOf
<1>3. \A e \in EdgeId : shown.edge[e] = Absent
  BY DEF EngineInit
<1>4. Current(ns, cache, default, data, shown)
  BY <1>1, <1>2, <1>3 DEF Current, Settles, Traced
<1> QED
  BY <1>4, TypeInit DEF FreshInv

-----------------------------------------------------------------------------
(* What is outside what is downstream of the marks is fed from outside it. *)
LEMMA SettledIsTraced ==
  ASSUME FreshInv, NEW D, D = Downstream(ns, ns.changed),
         NEW A, A = {e \in EdgesOf(ns) : ns.edges[e]["out"].node \notin D}
  PROVE  /\ A \in SUBSET EdgeId /\ Traced(ns, A)
         /\ \A p \in Settled \ (Interface \cup SubGraph) : Settles(ns, A, p)
<1>1. Good(ns) /\ ns \in States /\ ns.changed \in SUBSET Path /\ ns.nodes \subseteq Path
  BY DEF FreshInv, TypeInv, Good, Sound, States
<1>2. ns.changed \subseteq D /\ Closed(ns, D)
  BY <1>1, DownstreamFacts
<1>3. \A e \in A : e \in EdgesOf(ns) /\ ns.edges[e]["out"].node \notin D
  OBVIOUS
<1>4. \A e \in EdgesOf(ns) : ns.edges[e]["in"].node \notin D => e \in A
  BY <1>2 DEF Closed
<1> HIDE DEF Settled
<1>5. ASSUME NEW e \in A, FromPort(ns, e)
      PROVE  ns.edges[e]["out"].node \notin ns.changed /\ Behind(ns, e) \subseteq A
  <2>1. \A g \in Behind(ns, e) : g \in EdgesOf(ns) /\ ns.edges[g]["in"].node = ns.edges[e]["out"].node
    BY <1>1, <1>3, <1>5, BehindFacts
  <2>2. \A g \in Behind(ns, e) : g \in A
    BY <1>3, <1>4, <2>1
  <2> QED
    BY <1>2, <1>3, <2>2
<1>6. A \in SUBSET EdgeId /\ A \subseteq EdgesOf(ns)
  BY <1>3 DEF EdgesOf
<1>7. Traced(ns, A)
  BY <1>5, <1>6 DEF Traced
<1>8. ASSUME NEW p \in Settled \ (Interface \cup SubGraph)
      PROVE  Settles(ns, A, p)
  <2>1. p \in ns.nodes /\ p \notin D /\ p \in Ordinary
    BY <1>1 DEF Settled, Ordinary
  <2>2. \A e \in Incoming(ns, p) : e \in A
    BY <1>4, <2>1 DEF Incoming
  <2> QED
    BY <1>2, <1>7, <2>1, <2>2 DEF Settles
<1> QED
  BY <1>6, <1>7, <1>8

LEMMA CurrentIsFresh ==
  ASSUME FreshInv
  PROVE  FreshThroughPorts /\ ReportsAreCurrent /\ EdgeValuesAreCurrent
<1> DEFINE D == Downstream(ns, ns.changed)
           A == {e \in EdgesOf(ns) : ns.edges[e]["out"].node \notin D}
<1>1. /\ A \in SUBSET EdgeId /\ Traced(ns, A)
      /\ \A p \in Settled \ (Interface \cup SubGraph) : Settles(ns, A, p)
  BY SettledIsTraced
<1>2. \A e \in EdgesOf(ns) : ns.edges[e]["out"].node \in Settled =>
        e \in A /\ ns.edges[e]["out"].node \notin ns.changed
  <2>1. ns.changed \subseteq D
    BY DownstreamFacts DEF FreshInv, TypeInv, Good, Sound, States
  <2> QED
    BY <2>1 DEF Settled
<1> HIDE DEF A
<1>3. \A p \in Settled \ (Interface \cup SubGraph) :
        Fresh(ns, cache, default, data, p) /\ shown.out[p] = NodeOutputs(ns, cache, default, p)
  BY <1>1 DEF FreshInv, Current
<1>4. \A e \in EdgesOf(ns) : ns.edges[e]["out"].node \in Settled =>
        shown.edge[e] \in {Absent, Delivered(ns, cache, default, e)}
  BY <1>1, <1>2 DEF FreshInv, Current
<1>5. FreshThroughPorts
  BY <1>3 DEF FreshThroughPorts, Fresh, RunIs
<1> QED
  BY <1>3, <1>4, <1>5 DEF ReportsAreCurrent, EdgeValuesAreCurrent

(* A node that is not to be run again holds what a run of it would set:    *)
(* its inputs, resolved through the ports and proxies of SubGraphs, are    *)
(* those of its last run, in every graph, whichever runs fail.             *)
THEOREM OutputsStayFresh ==
  ASSUME ProxiesAreKept, RunsAreTyped
  PROVE  EngineSpec => []FreshThroughPorts
<1>1. EngineInit => FreshInv
  BY FreshInit
<1>2. FreshInv /\ [EngineNext]_engine => FreshInv'
  BY FreshStep
<1>3. FreshInv => FreshThroughPorts
  BY CurrentIsFresh
<1> QED
  BY <1>1, <1>2, <1>3, PTL DEF EngineSpec

(* What the results say of such a node, folded in as they came, is what it *)
(* has: a result that leaves a node out leaves out nothing new.            *)
THEOREM ReportsStayCurrent ==
  ASSUME ProxiesAreKept, RunsAreTyped
  PROVE  EngineSpec => []ReportsAreCurrent
<1>1. EngineInit => FreshInv
  BY FreshInit
<1>2. FreshInv /\ [EngineNext]_engine => FreshInv'
  BY FreshStep
<1>3. FreshInv => ReportsAreCurrent
  BY CurrentIsFresh
<1> QED
  BY <1>1, <1>2, <1>3, PTL DEF EngineSpec

(* And the value last reported for an edge out of such a node, a proxy     *)
(* included, is what the edge delivers.                                    *)
THEOREM EdgeValuesStayCurrent ==
  ASSUME ProxiesAreKept, RunsAreTyped
  PROVE  EngineSpec => []EdgeValuesAreCurrent
<1>1. EngineInit => FreshInv
  BY FreshInit
<1>2. FreshInv /\ [EngineNext]_engine => FreshInv'
  BY FreshStep
<1>3. FreshInv => EdgeValuesAreCurrent
  BY CurrentIsFresh
<1> QED
  BY <1>1, <1>2, <1>3, PTL DEF EngineSpec

=============================================================================
