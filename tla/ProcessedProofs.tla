--------------------------- MODULE ProcessedProofs ---------------------------
(***************************************************************************)
(* Proof that what the block store publishes is one chain through the      *)
(* confirmed block, that it is published whenever it can be, and that a    *)
(* processed answer is one state of that chain, for every tree of blocks,  *)
(* every order in which the feed delivers them, skips or repeats them, and *)
(* every interleaving of the anchor, the cached slots and the request.     *)
(***************************************************************************)
EXTENDS Processed, FiniteSetTheorems, WellFoundedInduction, TLAPS

----------------------------------------------------------------------------
(* Walks from parent to parent                                             *)

\* A set of blocks in which a slot and a hash name one block.
Named(B) ==
  /\ B \subseteq Block
  /\ \A b, c \in B : b.slot = c.slot /\ b.hash = c.hash => b = c

\* A walk holds its block and, with every block, its parent.
LEMMA WalkClosed ==
  ASSUME NEW B, NEW b \in B
  PROVE  /\ Walk(B, b) \subseteq B /\ b \in Walk(B, b)
         /\ \A c \in Walk(B, b) : ParentIn(B, c) \subseteq Walk(B, b)
<1>1. \A c \in B : ParentIn(B, c) \subseteq B
  BY DEF ParentIn
<1> QED
  BY <1>1 DEF Walk

\* It is the least such set.
LEMMA WalkLeast ==
  ASSUME NEW B, NEW b \in B, NEW S \in SUBSET B, b \in S,
         \A d \in S : ParentIn(B, d) \subseteq S
  PROVE  Walk(B, b) \subseteq S
BY DEF Walk

\* Down a walk the slots fall.
LEMMA WalkBelow ==
  ASSUME NEW B, Named(B), NEW b \in B, NEW c \in Walk(B, b)
  PROVE  c = b \/ c.slot < b.slot
<1> DEFINE S == {d \in B : d = b \/ d.slot < b.slot}
<1>1. \A d \in S : ParentIn(B, d) \subseteq S
  BY DEF Named, Block, ParentIn
<1>2. b \in S /\ S \in SUBSET B
  OBVIOUS
<1> HIDE DEF S
<1>3. c \in S
  BY <1>1, <1>2, WalkLeast
<1> QED
  BY <1>3 DEF S

\* The walk of a block on a walk is part of it.
LEMMA WalkInside ==
  ASSUME NEW B, NEW b \in B, NEW c \in Walk(B, b)
  PROVE  c \in B /\ Walk(B, c) \subseteq Walk(B, b)
<1>1. /\ Walk(B, b) \in SUBSET B /\ c \in B
      /\ \A d \in Walk(B, b) : ParentIn(B, d) \subseteq Walk(B, b)
  BY WalkClosed
<1> QED
  BY <1>1, WalkLeast

\* Below its block a walk is the walk of the parent.
LEMMA WalkFromParent ==
  ASSUME NEW B, NEW b \in B, NEW c \in Walk(B, b), c # b
  PROVE  \E p \in ParentIn(B, b) : c \in Walk(B, p)
<1>0. ParentIn(B, b) \subseteq B
  BY DEF ParentIn
<1> DEFINE S == {b} \cup UNION {Walk(B, p) : p \in ParentIn(B, b)}
<1>1. b \in S /\ S \in SUBSET B
  BY <1>0, WalkClosed
<1>2. ASSUME NEW d \in S PROVE ParentIn(B, d) \subseteq S
  <2>1. CASE d = b
    BY <1>0, <2>1, WalkClosed
  <2>2. ASSUME NEW p \in ParentIn(B, b), d \in Walk(B, p) PROVE ParentIn(B, d) \subseteq S
    BY <1>0, <2>2, WalkClosed
  <2> QED
    BY <2>1, <2>2
<1> HIDE DEF S
<1>3. c \in S
  BY <1>1, <1>2, WalkLeast
<1> QED
  BY <1>3 DEF S

\* A block has at most one parent, at a lower slot.
LEMMA OneParent ==
  ASSUME NEW B, Named(B), NEW b \in B, NEW p \in ParentIn(B, b)
  PROVE  /\ p \in B /\ p.slot < b.slot /\ p.slot = b.parent /\ p.hash = b.phash
         /\ \A q \in ParentIn(B, b) : q = p
BY DEF Named, Block, ParentIn

\* Of two blocks on a walk, one is on the walk of the other.
LEMMA WalkTotal ==
  ASSUME NEW B, Named(B), NEW b \in B, NEW c \in Walk(B, b), NEW d \in Walk(B, b)
  PROVE  d \in Walk(B, c) \/ c \in Walk(B, d)
<1> DEFINE S == {e \in Walk(B, b) : \A f \in Walk(B, b) : f \in Walk(B, e) \/ e \in Walk(B, f)}
<1>1. S \in SUBSET B /\ b \in S
  BY WalkClosed
<1>2. ASSUME NEW e \in S, NEW p \in ParentIn(B, e) PROVE p \in S
  <2>1. e \in B /\ e \in Walk(B, b) /\ p \in Walk(B, b)
    BY WalkClosed
  <2>2. ASSUME NEW f \in Walk(B, b) PROVE f \in Walk(B, p) \/ p \in Walk(B, f)
    <3>0. f \in B
      BY WalkClosed
    <3>1. CASE e \in Walk(B, f)
      BY <3>0, <3>1, WalkClosed
    <3>2. CASE f \in Walk(B, e) /\ f # e
      <4>1. PICK q \in ParentIn(B, e) : f \in Walk(B, q)
        BY <2>1, <3>2, WalkFromParent
      <4> QED
        BY <2>1, <4>1, OneParent
    <3>3. CASE f = e
      BY <2>1, <3>3, WalkClosed
    <3> QED
      BY <3>1, <3>2, <3>3
  <2> QED
    BY <2>1, <2>2
<1>3. \A e \in S : ParentIn(B, e) \subseteq S
  BY <1>2
<1> HIDE DEF S
<1>4. c \in S
  BY <1>1, <1>3, WalkLeast
<1> QED
  BY <1>4 DEF S

\* On a walk the slot says who is below whom.
LEMMA WalkOrdered ==
  ASSUME NEW B, Named(B), NEW b \in B, NEW c \in Walk(B, b), NEW d \in Walk(B, b),
         d.slot <= c.slot
  PROVE  d \in Walk(B, c)
<1>1. c \in B /\ d \in B /\ c.slot \in Nat /\ d.slot \in Nat
  BY WalkClosed DEF Named, Block
<1>2. CASE c \in Walk(B, d)
  <2>1. c = d
    BY <1>1, <1>2, WalkBelow
  <2> QED
    BY <1>1, <2>1, WalkClosed
<1> QED
  BY <1>2, WalkTotal

\* The walk in a part of the blocks is part of the walk.
LEMMA SubWalk ==
  ASSUME NEW B, NEW C \in SUBSET B, NEW b \in C
  PROVE  Walk(C, b) \subseteq Walk(B, b)
<1> DEFINE S == Walk(B, b) \cap C
<1>1. b \in S /\ S \in SUBSET C
  BY WalkClosed
<1>2. \A d \in S : ParentIn(C, d) \subseteq S
  <2>1. \A d : ParentIn(C, d) \subseteq ParentIn(B, d) /\ ParentIn(C, d) \subseteq C
    BY DEF ParentIn
  <2> QED
    BY <2>1, WalkClosed
<1> HIDE DEF S
<1>3. Walk(C, b) \subseteq S
  BY <1>1, <1>2, WalkLeast
<1> QED
  BY <1>3 DEF S

\* It leaves out nothing above its lowest block.
LEMMA SubWalkAbove ==
  ASSUME NEW B, Named(B), NEW C \in SUBSET B, NEW b \in C,
         NEW c \in Walk(C, b), NEW d \in Walk(B, b), c.slot <= d.slot
  PROVE  d \in Walk(C, b)
<1>0. Named(C) /\ c \in B /\ c \in C /\ Walk(C, b) \subseteq C
  BY WalkClosed DEF Named
<1> DEFINE S == {e \in Walk(B, b) : e \in Walk(C, b) \/ e.slot < c.slot}
<1>1. b \in S /\ S \in SUBSET B
  BY WalkClosed
<1>2. ASSUME NEW e \in S, NEW p \in ParentIn(B, e) PROVE p \in S
  <2>1. e \in B /\ p \in Walk(B, b) /\ p.slot < e.slot /\ p \in B
    BY WalkClosed, OneParent
  <2>2. e.slot \in Nat /\ p.slot \in Nat /\ c.slot \in Nat
    BY <1>0, <2>1 DEF Named, Block
  <2>3. CASE e.slot <= c.slot
    BY <2>1, <2>2, <2>3
  <2>4. CASE e.slot > c.slot
    <3>1. e \in Walk(C, b) /\ e \in C
      BY <1>0, <2>2, <2>4
    <3>2. c \in Walk(C, e) /\ c # e
      BY <1>0, <2>2, <2>4, <3>1, WalkOrdered
    <3>3. PICK q \in ParentIn(C, e) : c \in Walk(C, q)
      BY <3>1, <3>2, WalkFromParent
    <3>4. q \in ParentIn(B, e)
      BY <3>3 DEF ParentIn
    <3>5. q = p
      BY <2>1, <3>4, OneParent
    <3> QED
      BY <2>1, <3>1, <3>3, <3>5, WalkClosed
  <2> QED
    BY <2>2, <2>3, <2>4
<1>3. \A e \in S : ParentIn(B, e) \subseteq S
  BY <1>2
<1>4. Walk(B, b) \subseteq S
  <2> HIDE DEF S
  <2> QED
    BY <1>1, <1>3, WalkLeast
<1>5. d \in B
  BY WalkClosed
<1> QED
  BY <1>0, <1>4, <1>5 DEF Named, Block

----------------------------------------------------------------------------
(* The blocks of the network                                               *)

\* Every block of the scene is named, and its path is its walk.
LEMMA BlocksNamed ==
  ASSUME scene \in Scenes
  PROVE  /\ Named(Blocks) /\ scene.feed \in Seq(Block)
         /\ \A b \in Blocks : Path(b.slot, b.hash) = Walk(Blocks, b)
         /\ \A b \in Blocks : b.canonical => b.hash = 0
<1>1. Named(Blocks) /\ scene.feed \in Seq(Block) /\ \A b \in Blocks : b.canonical => b.hash = 0
  BY FeedAssumption DEF Blocks, BlocksOf, Named
<1>2. ASSUME NEW b \in Blocks PROVE Path(b.slot, b.hash) = Walk(Blocks, b)
  <2>1. Known(b.slot, b.hash) = {b}
    BY <1>1 DEF Known, Named
  <2>2. Paths[scene][b] = Walk(Blocks, b)
    BY DEF Paths, Blocks
  <2> QED
    BY <2>1, <2>2 DEF Path
<1> QED
  BY <1>1, <1>2

\* A non-empty set of naturals below a bound has a greatest element, and any
\* non-empty set of naturals a least one.
LEMMA LeastNat ==
  ASSUME NEW S \in SUBSET Nat, S # {}
  PROVE  \E m \in S : \A n \in S : m <= n
<1>1. PICK m \in S : \A n \in S : ~(<<n, m>> \in OpToRel(<, Nat))
  BY WFMin, NatLessThanWellFounded
<1>2. \A n \in S : ~(n < m)
  BY <1>1 DEF OpToRel
<1> QED
  BY <1>2

LEMMA GreatestNat ==
  ASSUME NEW S \in SUBSET Nat, S # {}, NEW bound \in Nat, \A n \in S : n <= bound
  PROVE  \E m \in S : \A n \in S : n <= m
<1> DEFINE U == {n \in Nat : \A m \in S : m <= n}
<1>1. U \in SUBSET Nat /\ U # {}
  OBVIOUS
<1>2. PICK u \in U : \A n \in U : u <= n
  <2> HIDE DEF U
  <2> QED
    BY <1>1, LeastNat
<1>3. u \in S
  <2> SUFFICES ASSUME u \notin S PROVE FALSE
    OBVIOUS
  <2>1. \A m \in S : m \in Nat /\ m < u
    OBVIOUS
  <2>2. PICK m \in S : m \in Nat /\ m < u
    BY <2>1
  <2>3. u - 1 \in Nat /\ u - 1 < u
    BY <2>2
  <2>4. \A n \in S : n <= u - 1
    BY <2>1
  <2>5. u - 1 \in U
    BY <2>3, <2>4
  <2> QED
    BY <1>2, <2>3, <2>5
<1> QED
  BY <1>3

\* The slots of a feed have a bound.
LEMMA FeedBounded ==
  ASSUME NEW feed \in Seq(Block)
  PROVE  \E bound \in Nat : \A i \in DOMAIN feed : feed[i].slot <= bound
<1> DEFINE free == {n \in 0..Len(feed) :
                       \E bound \in Nat : \A i \in 1..n : feed[i].slot <= bound}
           bad == (0..Len(feed)) \ free
<1>0. Len(feed) \in Nat /\ DOMAIN feed = 1..Len(feed) /\ \A i \in 1..Len(feed) : feed[i].slot \in Nat
  <2>1. Len(feed) \in Nat /\ DOMAIN feed = 1..Len(feed) /\ \A i \in 1..Len(feed) : feed[i] \in Block
    OBVIOUS
  <2>2. \A b \in Block : b.slot \in Nat
    BY DEF Block
  <2> QED
    BY <2>1, <2>2
<1>1. 0 \in free
  <2>1. \A i \in 1..0 : feed[i].slot <= 0
    OBVIOUS
  <2> QED
    BY <1>0, <2>1
<1>2. ASSUME NEW n \in 0..Len(feed), n # 0, n - 1 \in free PROVE n \in free
  <2>1. PICK bound \in Nat : \A i \in 1..(n - 1) : feed[i].slot <= bound
    BY <1>2
  <2>2. feed[n].slot \in Nat
    BY <1>0, <1>2
  <2>3. PICK top \in Nat : bound <= top /\ feed[n].slot <= top
    BY <2>2
  <2>4. \A i \in 1..n : feed[i].slot \in Nat /\ (i = n \/ i \in 1..(n - 1))
    BY <1>0, <1>2
  <2>5. \A i \in 1..n : feed[i].slot <= top
    BY <2>1, <2>2, <2>3, <2>4
  <2> QED
    BY <2>5
<1>3. bad = {}
  <2> SUFFICES ASSUME bad # {} PROVE FALSE
    OBVIOUS
  <2>1. bad \in SUBSET Nat
    BY <1>0
  <2>2. PICK n \in bad : \A m \in bad : n <= m
    <3> HIDE DEF bad
    <3> QED
      BY <2>1, LeastNat
  <2>3. n # 0 /\ n \in 0..Len(feed) /\ n \notin free
    BY <1>1
  <2> HIDE DEF free
  <2>4. n - 1 \in 0..Len(feed) /\ n - 1 \notin bad
    BY <1>0, <2>2, <2>3
  <2>5. n - 1 \in free
    BY <2>4
  <2> QED
    BY <1>2, <2>3, <2>5
<1>4. Len(feed) \in free
  <2>1. Len(feed) \in 0..Len(feed)
    BY <1>0
  <2> HIDE DEF free
  <2> QED
    BY <1>3, <2>1
<1> QED
  BY <1>0, <1>4

\* Of some blocks of the network, one has the highest slot.
LEMMA HighestBlock ==
  ASSUME scene \in Scenes, NEW B \in SUBSET Blocks, B # {}
  PROVE  \E b \in B : \A c \in B : c.slot <= b.slot
<1>1. PICK bound \in Nat : \A b \in Blocks : b.slot <= bound
  BY BlocksNamed, FeedBounded DEF Blocks, BlocksOf
<1> DEFINE S == {b.slot : b \in B}
<1>2. S \in SUBSET Nat /\ S # {} /\ \A n \in S : n <= bound
  BY <1>1, BlocksNamed DEF Named, Block
<1>3. PICK m \in S : \A n \in S : n <= m
  <2> HIDE DEF S
  <2> QED
    BY <1>2, GreatestNat
<1> QED
  BY <1>3

\* And one the lowest.
LEMMA LowestBlock ==
  ASSUME scene \in Scenes, NEW B \in SUBSET Blocks, B # {}
  PROVE  \E b \in B : \A c \in B : b.slot <= c.slot
<1> DEFINE S == {b.slot : b \in B}
<1>1. S \in SUBSET Nat /\ S # {}
  BY BlocksNamed DEF Named, Block
<1>2. PICK m \in S : \A n \in S : m <= n
  <2> HIDE DEF S
  <2> QED
    BY <1>1, LeastNat
<1> QED
  BY <1>2

----------------------------------------------------------------------------
(* The store and what it publishes                                         *)

\* An anchor is a confirmed block of the chain.
Confirms(anchor, b) == b.canonical /\ anchor = [slot |-> b.slot, hash |-> 0]
Anchors == {NoAnchor} \cup {[slot |-> b.slot, hash |-> 0] : b \in {c \in Blocks : c.canonical}}

OnePerSlot(blocks) == \A b, c \in blocks : b.slot = c.slot => b = c

\* One block per slot, and an anchor the chain confirmed.
StoreOK(st) ==
  /\ st \in [blocks : SUBSET Blocks, conflict : Nat, anchor : Anchors]
  /\ OnePerSlot(st.blocks)

\* What a request may read through: the top part of a walk that passes through the
\* confirmed block, down to it at least.
Good(pub) ==
  \E head \in Blocks : \E a \in Walk(Blocks, head) :
     /\ a.canonical /\ pub = [slot |-> head.slot, hash |-> head.hash, anchor |-> a.slot,
                              blocks |-> pub.blocks]
     /\ pub.blocks \subseteq Walk(Blocks, head)
     /\ \A d \in Walk(Blocks, head) :
          (d.slot > a.slot \/ \E c \in pub.blocks : c.slot <= d.slot) => d \in pub.blocks

\* The highest block of a store, and the lowest of its walk above the anchor.
HeadOf(st) == CHOOSE b \in st.blocks : \A c \in st.blocks : c.slot <= b.slot
LastOf(st) ==
  CHOOSE b \in ChainOf(st, HeadOf(st)) :
     b.slot > st.anchor.slot
     /\ \A c \in ChainOf(st, HeadOf(st)) : c.slot > st.anchor.slot => b.slot <= c.slot

\* When the walk of the store ends at the confirmed block.
Linked(st) ==
  /\ st.anchor # NoAnchor
  /\ ~(st.conflict # 0 /\ st.anchor.slot <= st.conflict)
  /\ st.blocks # {}
  /\ HeadOf(st).time
  /\ HeadOf(st).slot >= st.anchor.slot
  /\ IF HeadOf(st).slot = st.anchor.slot THEN HeadOf(st).hash = st.anchor.hash
     ELSE LinksTo(LastOf(st), st.anchor)

Result(st) == [slot |-> HeadOf(st).slot, hash |-> HeadOf(st).hash, anchor |-> st.anchor.slot,
               blocks |-> ChainOf(st, HeadOf(st))]

\* latest_chained_blocks in these words.
LEMMA LatestIs ==
  ASSUME NEW st
  PROVE  LatestChained(st) = IF Linked(st) THEN Result(st) ELSE None
BY Zenon DEF LatestChained, Linked, Result, HeadOf, LastOf

\* None is no publication.
LEMMA PublicationIsNotNone == ASSUME NEW st PROVE Result(st) # None
<1>1. DOMAIN Result(st) # DOMAIN None
  BY DEF Result, None
<1> QED
  BY <1>1

\* The head of a store that holds blocks, and its chain.
LEMMA HeadIs ==
  ASSUME scene \in Scenes, NEW st, StoreOK(st), st.blocks # {}
  PROVE  /\ HeadOf(st) \in st.blocks /\ \A c \in st.blocks : c.slot <= HeadOf(st).slot
         /\ HeadOf(st) \in Blocks
         /\ HeadOf(st) \in ChainOf(st, HeadOf(st))
         /\ ChainOf(st, HeadOf(st)) \subseteq Walk(Blocks, HeadOf(st))
         /\ ChainOf(st, HeadOf(st)) \subseteq st.blocks
<1>1. st.blocks \in SUBSET Blocks
  BY DEF StoreOK
<1>2. \E b \in st.blocks : \A c \in st.blocks : c.slot <= b.slot
  BY <1>1, HighestBlock
<1>3. HeadOf(st) \in st.blocks /\ \A c \in st.blocks : c.slot <= HeadOf(st).slot
  BY <1>2 DEF HeadOf
<1> QED
  BY <1>1, <1>3, SubWalk, WalkClosed DEF ChainOf

\* The lowest block of the chain above the anchor, when the head is above it.
LEMMA LastIs ==
  ASSUME scene \in Scenes, NEW st, StoreOK(st), st.blocks # {}, HeadOf(st).slot > st.anchor.slot
  PROVE  /\ LastOf(st) \in ChainOf(st, HeadOf(st)) /\ LastOf(st).slot > st.anchor.slot
         /\ \A c \in ChainOf(st, HeadOf(st)) : c.slot > st.anchor.slot => LastOf(st).slot <= c.slot
<1> DEFINE C == {c \in ChainOf(st, HeadOf(st)) : c.slot > st.anchor.slot}
<1>1. C \in SUBSET Blocks /\ C # {}
  BY HeadIs DEF StoreOK
<1>2. \E b \in C : \A c \in C : b.slot <= c.slot
  <2> HIDE DEF C
  <2> QED
    BY <1>1, LowestBlock
<1>3. \E b \in ChainOf(st, HeadOf(st)) : b.slot > st.anchor.slot
        /\ \A c \in ChainOf(st, HeadOf(st)) : c.slot > st.anchor.slot => b.slot <= c.slot
  BY <1>2
<1> QED
  BY <1>3, Zenon DEF LastOf

\* The confirmed block an anchor names.
LEMMA AnchorBlock ==
  ASSUME scene \in Scenes, NEW anchor \in Anchors, anchor # NoAnchor
  PROVE  /\ anchor.slot \in Nat /\ anchor.hash = 0
         /\ \E a \in Blocks : /\ a.canonical /\ a.slot = anchor.slot /\ a.hash = anchor.hash
                            /\ \A b \in Blocks : b.slot = a.slot /\ b.hash = a.hash => b = a
<1>1. PICK a \in Blocks : a.canonical /\ anchor = [slot |-> a.slot, hash |-> 0]
  BY DEF Anchors
<1> QED
  BY <1>1, BlocksNamed DEF Named, Block

\* Blocks that are published pass through the confirmed block and leave out nothing above
\* their lowest one (latest_chained_blocks).
LEMMA LinkedIsGood ==
  ASSUME scene \in Scenes, NEW st, StoreOK(st), Linked(st)
  PROVE  Good(Result(st))
<1> DEFINE head == HeadOf(st)
           chain == ChainOf(st, head)
           path == Walk(Blocks, head)
<1>0. Named(Blocks) /\ st.blocks \in SUBSET Blocks /\ st.blocks # {} /\ st.anchor \in Anchors
  BY BlocksNamed DEF StoreOK, Linked
<1>1. head \in st.blocks /\ head \in Blocks /\ head \in chain /\ chain \subseteq path
  BY <1>0, HeadIs
<1>2. path \subseteq Blocks /\ \A d \in path : d.slot \in Nat
  BY <1>0, <1>1, WalkClosed DEF Named, Block
<1>3. st.anchor # NoAnchor /\ st.anchor.slot \in Nat
  BY <1>0, AnchorBlock DEF Linked
<1>4. PICK a \in Blocks : /\ a.canonical /\ a.slot = st.anchor.slot /\ a.hash = st.anchor.hash
                         /\ \A b \in Blocks : b.slot = a.slot /\ b.hash = a.hash => b = a
  BY <1>0, <1>3, AnchorBlock
<1>5. ASSUME NEW c \in chain, NEW d \in path, c.slot <= d.slot PROVE d \in chain
  BY <1>0, <1>1, <1>5, SubWalkAbove DEF ChainOf
<1>6. /\ a \in path
      /\ \A d \in path : d.slot > a.slot => \E c \in chain : c.slot <= d.slot
  <2>1. CASE head.slot = st.anchor.slot
    <3>1. head = a
      BY <1>1, <1>4, <2>1 DEF Linked
    <3>2. \A d \in path : d.slot <= head.slot
      BY <1>0, <1>1, <1>2, WalkBelow
    <3> QED
      BY <1>1, <1>2, <3>1, <3>2
  <2>2. CASE head.slot # st.anchor.slot
    <3>1. head.slot > st.anchor.slot /\ LinksTo(LastOf(st), st.anchor)
      BY <1>1, <1>2, <1>3, <2>2 DEF Linked
    <3> DEFINE last == LastOf(st)
    <3>2. last \in chain /\ last \in path /\ last \in Blocks /\ last.slot > st.anchor.slot
      BY <1>0, <1>1, <1>2, <3>1, LastIs
    <3>3. last.parent = a.slot /\ last.phash = a.hash
      BY <1>4, <3>1 DEF LinksTo
    <3> HIDE DEF last
    <3>4. a \in ParentIn(Blocks, last)
      <4>1. last.parent \in Nat /\ last.slot \in Nat
        BY <1>0, <3>2 DEF Named, Block
      <4> QED
        BY <1>4, <3>2, <3>3, <4>1 DEF ParentIn
    <3>5. a \in path
      BY <1>1, <3>2, <3>4, WalkClosed
    <3>6. ASSUME NEW d \in path, d.slot > a.slot PROVE last.slot <= d.slot
      <4> SUFFICES ASSUME d.slot < last.slot PROVE FALSE
        BY <1>2, <3>2
      <4>1. d \in Walk(Blocks, last) /\ d # last
        BY <1>0, <1>1, <1>2, <3>2, WalkOrdered
      <4>2. PICK p \in ParentIn(Blocks, last) : d \in Walk(Blocks, p)
        BY <3>2, <4>1, WalkFromParent
      <4>3. p = a
        BY <1>0, <3>2, <3>4, <4>2, OneParent
      <4>4. d = a \/ d.slot < a.slot
        BY <1>0, <1>4, <4>2, <4>3, WalkBelow
      <4> QED
        BY <1>2, <1>4, <3>6, <4>4, <3>5
    <3> QED
      BY <3>2, <3>5, <3>6
  <2> QED
    BY <2>1, <2>2
<1> HIDE DEF chain, path, head
<1>7. /\ Result(st).blocks = chain
      /\ Result(st) = [slot |-> head.slot, hash |-> head.hash, anchor |-> a.slot, blocks |-> chain]
  BY <1>4 DEF Result, chain, head
<1>8. \A d \in path :
         (d.slot > a.slot \/ \E c \in chain : c.slot <= d.slot) => d \in chain
  BY <1>5, <1>6
<1> QED
  <2>1. head \in Blocks /\ a \in path /\ a.canonical /\ chain \subseteq path
    BY <1>1, <1>4, <1>6
  <2> QED
    BY <1>7, <1>8, <2>1 DEF Good, path

\* When the branch of the head is stored above the confirmed block, its walk ends there.
LEMMA BranchIsLinked ==
  ASSUME scene \in Scenes, NEW st, StoreOK(st), NEW head \in st.blocks,
         st.anchor # NoAnchor, st.conflict = 0, head.time,
         \A b \in st.blocks : b.slot <= head.slot,
         \E b \in Walk(Blocks, head) : b.slot = st.anchor.slot /\ b.hash = st.anchor.hash,
         \A b \in Walk(Blocks, head) : b.slot > st.anchor.slot => b \in st.blocks
  PROVE  Linked(st)
<1> DEFINE chain == ChainOf(st, head)
           path == Walk(Blocks, head)
<1>0. /\ Named(Blocks) /\ st.blocks \in SUBSET Blocks /\ st.anchor \in Anchors /\ head \in Blocks
      /\ OnePerSlot(st.blocks) /\ st.anchor.slot \in Nat
  BY BlocksNamed, AnchorBlock DEF StoreOK
<1>1. /\ path \subseteq Blocks /\ chain \subseteq path /\ head \in chain /\ chain \subseteq st.blocks
      /\ \A d \in Blocks : d.slot \in Nat /\ d.parent \in Nat
  BY <1>0, SubWalk, WalkClosed DEF Named, Block, ChainOf
<1>2. HeadOf(st) = head
  <2>1. HeadOf(st) \in st.blocks /\ head.slot <= HeadOf(st).slot
    BY HeadIs
  <2> QED
    BY <1>0, <1>1, <2>1 DEF OnePerSlot
<1>3. PICK a \in path : a.slot = st.anchor.slot /\ a.hash = st.anchor.hash
  OBVIOUS
<1>4. a = head \/ a.slot < head.slot
  BY <1>0, WalkBelow
<1>5. ASSUME head.slot # st.anchor.slot PROVE LinksTo(LastOf(st), st.anchor)
  <2>1. head.slot > st.anchor.slot
    BY <1>0, <1>1, <1>3, <1>4, <1>5
  <2> DEFINE last == LastOf(st)
  <2>2. /\ last \in chain /\ last.slot > st.anchor.slot
        /\ \A c \in chain : c.slot > st.anchor.slot => last.slot <= c.slot
    BY <1>0, <1>2, <2>1, LastIs
  <2> HIDE DEF last
  <2>3. last \in path /\ last \in Blocks /\ last \in st.blocks
    BY <1>1, <2>2
  <2>4. a \in Walk(Blocks, last) /\ a # last
    BY <1>0, <1>1, <1>3, <2>2, <2>3, WalkOrdered
  <2>5. PICK p \in ParentIn(Blocks, last) : a \in Walk(Blocks, p)
    BY <2>3, <2>4, WalkFromParent
  <2>6. /\ p \in path /\ p \in Blocks /\ p.slot < last.slot
        /\ p.slot = last.parent /\ p.hash = last.phash
    BY <1>0, <2>3, <2>5, OneParent, WalkClosed
  <2>7. a = p \/ a.slot < p.slot
    BY <1>0, <2>5, <2>6, WalkBelow
  <2>8. ~(p.slot > st.anchor.slot)
    <3> SUFFICES ASSUME p.slot > st.anchor.slot PROVE FALSE
      OBVIOUS
    <3>1. p \in st.blocks
      BY <2>6
    <3>2. p \in ParentIn(st.blocks, last)
      BY <2>5, <3>1 DEF ParentIn
    <3>3. p \in chain
      BY <1>1, <2>2, <3>2, WalkClosed DEF ChainOf
    <3> QED
      BY <1>1, <2>2, <2>3, <2>6, <3>3
  <2>9. a = p
    BY <1>0, <1>1, <1>3, <2>6, <2>7, <2>8
  <2> QED
    BY <1>3, <2>6, <2>9 DEF LinksTo, last
<1>6. head.slot = st.anchor.slot => head.hash = st.anchor.hash
  BY <1>0, <1>1, <1>3, <1>4
<1>7. head.slot >= st.anchor.slot
  BY <1>0, <1>1, <1>3, <1>4
<1> QED
  BY <1>2, <1>5, <1>6, <1>7 DEF Linked

\* The greater of two numbers is a number.
LEMMA MaxOfTwo == ASSUME NEW m \in Nat, NEW n \in Nat PROVE Max({m, n}) \in Nat
<1>1. \E x \in {m, n} : \A y \in {m, n} : x >= y
  BY DEF Max
<1> QED
  BY <1>1 DEF Max

\* on_block, set_anchor and prune keep one block per slot.
LEMMA ConflictOK ==
  ASSUME NEW st, StoreOK(st), NEW slot \in Nat
  PROVE  StoreOK(Conflict(st, slot))
<1>1. st.conflict \in Nat /\ Max({st.conflict, slot}) \in Nat
  BY MaxOfTwo DEF StoreOK
<1> QED
  BY <1>1 DEF StoreOK, Conflict, OnePerSlot

LEMMA StoreBlockOK ==
  ASSUME scene \in Scenes, NEW st, StoreOK(st), NEW b \in Blocks
  PROVE  StoreOK(StoreBlock(st, b))
<1>1. b.slot \in Nat /\ b.parent \in Nat
  BY BlocksNamed DEF Named, Block
<1>2. StoreOK(Conflict(st, b.slot)) /\ StoreOK(Conflict(st, b.parent))
  BY <1>1, ConflictOK
<1>3. ASSUME ~HasSlot(st, b.slot) PROVE StoreOK([st EXCEPT !.blocks = @ \cup {b}])
  BY <1>3 DEF StoreOK, OnePerSlot, HasSlot
<1> QED
  BY <1>2, <1>3 DEF StoreBlock

LEMMA SetAnchorOK ==
  ASSUME NEW st, StoreOK(st), NEW anchor \in Anchors
  PROVE  StoreOK(SetAnchor(st, anchor))
BY DEF StoreOK, SetAnchor

LEMMA PruneOK ==
  ASSUME NEW st, StoreOK(st)
  PROVE  StoreOK(Prune(st))
BY DEF StoreOK, Prune, OnePerSlot

----------------------------------------------------------------------------
(* What a request reads                                                    *)

Writers(blocks, k) == {b \in blocks : k \in Writes(b)}

\* The newest writer of a key decides, and there is one.
LEMMA NewestIs ==
  ASSUME scene \in Scenes, NEW B \in SUBSET Blocks, OnePerSlot(B), NEW k, NEW else
  PROVE  IF Writers(B, k) = {} THEN Newest(B, k, else) = else
         ELSE \E w \in Writers(B, k) : /\ \A c \in Writers(B, k) : c.slot <= w.slot
                                     /\ Newest(B, k, else) = Entry(w, k)
<1> DEFINE W == Writers(B, k)
           w == CHOOSE b \in W : \A c \in W : c.slot <= b.slot
<1>1. Newest(B, k, else) = IF W = {} THEN else ELSE Entry(w, k)
  BY Zenon DEF Newest, Writers
<1>2. W # {} => w \in W /\ \A c \in W : c.slot <= w.slot
  <2>1. W \in SUBSET Blocks
    BY DEF Writers
  <2> HIDE DEF W
  <2>2. W # {} => \E b \in W : \A c \in W : c.slot <= b.slot
    BY <2>1, HighestBlock
  <2> QED
    BY <2>2
<1> QED
  BY <1>1, <1>2

\* On a walk no slot occurs twice.
LEMMA WalkOnePerSlot ==
  ASSUME NEW B, Named(B), NEW b \in B
  PROVE  OnePerSlot(Walk(B, b))
<1> SUFFICES ASSUME NEW c \in Walk(B, b), NEW d \in Walk(B, b), c.slot = d.slot PROVE c = d
  BY DEF OnePerSlot
<1>1. c \in B /\ d \in B /\ c.slot \in Nat /\ d.slot \in Nat
  BY WalkClosed DEF Named, Block
<1>2. d \in Walk(B, c)
  BY <1>1, WalkOrdered
<1> QED
  BY <1>1, <1>2, WalkBelow

\* What Postgres returns at a confirmed slot it still has: the state of the chain there.
LEMMA PgReadsChain ==
  ASSUME scene \in Scenes, NEW a \in Blocks, a.canonical, cleaned <= a.slot, cleaned \in Nat, NEW k
  PROVE  PgRead(k, a.slot) = Newest(Walk(Blocks, a), k, 0)
<1> DEFINE S == {0} \cup {b.slot : b \in {c \in Blocks : c.hash = 0 /\ c.slot <= a.slot /\ c.canonical}}
<1>1. a.hash = 0 /\ \A b \in Blocks : b.slot \in Nat
  BY BlocksNamed DEF Named, Block
<1>2. a.slot \in S /\ \A n \in S : n \in Nat /\ n <= a.slot
  BY <1>1
<1>3. Max(S) = a.slot
  <2>1. Max(S) \in S /\ \A n \in S : Max(S) >= n
    <3> HIDE DEF S
    <3>1. \E x \in S : \A y \in S : x >= y
      BY <1>1, <1>2
    <3> QED
      BY <3>1 DEF Max
  <2> HIDE DEF S
  <2> QED
    BY <1>1, <1>2, <2>1
<1>4. ~(a.slot < cleaned)
  BY <1>1
<1>5. PgRead(k, a.slot) = StateAt(a.slot, 0, k)
  BY <1>3, <1>4 DEF PgRead
<1> QED
  BY <1>1, <1>5, BlocksNamed DEF StateAt

\* The published blocks over Postgres at their anchor are the state of the head's chain.
LEMMA AnswerIsState ==
  ASSUME scene \in Scenes, NEW pub, Good(pub), cleaned \in Nat, cleaned <= pub.anchor, NEW k
  PROVE  /\ Newest(pub.blocks, k, PgRead(k, pub.anchor)) = StateAt(pub.slot, pub.hash, k)
         /\ Writers(pub.blocks, k) = {} => PgRead(k, pub.anchor) = StateAt(pub.slot, pub.hash, k)
<1>0. PICK head \in Blocks : \E a \in Walk(Blocks, head) :
         /\ a.canonical /\ pub = [slot |-> head.slot, hash |-> head.hash, anchor |-> a.slot,
                                  blocks |-> pub.blocks]
         /\ pub.blocks \subseteq Walk(Blocks, head)
         /\ \A d \in Walk(Blocks, head) :
              (d.slot > a.slot \/ \E c \in pub.blocks : c.slot <= d.slot) => d \in pub.blocks
  BY DEF Good
<1>1. PICK a \in Walk(Blocks, head) :
         /\ a.canonical /\ pub = [slot |-> head.slot, hash |-> head.hash, anchor |-> a.slot,
                                  blocks |-> pub.blocks]
         /\ pub.blocks \subseteq Walk(Blocks, head)
         /\ \A d \in Walk(Blocks, head) :
              (d.slot > a.slot \/ \E c \in pub.blocks : c.slot <= d.slot) => d \in pub.blocks
  BY <1>0
<1> DEFINE path == Walk(Blocks, head)
<1>2. /\ Named(Blocks) /\ path \in SUBSET Blocks /\ OnePerSlot(path)
      /\ pub.blocks \in SUBSET Blocks /\ OnePerSlot(pub.blocks)
      /\ a \in Blocks /\ Walk(Blocks, a) \subseteq path /\ OnePerSlot(Walk(Blocks, a))
      /\ Walk(Blocks, a) \in SUBSET Blocks
  BY <1>1, BlocksNamed, WalkClosed, WalkInside, WalkOnePerSlot DEF OnePerSlot
<1>3. pub.slot = head.slot /\ pub.hash = head.hash /\ pub.anchor = a.slot
  BY <1>1
<1>4. StateAt(pub.slot, pub.hash, k) = Newest(path, k, 0)
  BY <1>3, BlocksNamed DEF StateAt
<1>5. PgRead(k, pub.anchor) = Newest(Walk(Blocks, a), k, 0)
  BY <1>1, <1>2, <1>3, PgReadsChain
<1>6. \A b \in Blocks : b.slot \in Nat
  BY <1>2 DEF Named, Block
<1>7. ASSUME Writers(pub.blocks, k) # {}
      PROVE  Newest(pub.blocks, k, PgRead(k, pub.anchor)) = Newest(path, k, 0)
  <2>1. PICK v \in Writers(pub.blocks, k) :
           /\ \A c \in Writers(pub.blocks, k) : c.slot <= v.slot
           /\ Newest(pub.blocks, k, PgRead(k, pub.anchor)) = Entry(v, k)
    BY <1>2, <1>7, NewestIs
  <2>2. v \in Writers(path, k)
    BY <1>1 DEF Writers
  <2>3. PICK w \in Writers(path, k) : /\ \A c \in Writers(path, k) : c.slot <= w.slot
                                      /\ Newest(path, k, 0) = Entry(w, k)
    BY <1>2, <2>2, NewestIs
  <2>4. w \in Writers(pub.blocks, k)
    BY <1>1, <2>2, <2>3 DEF Writers
  <2>5. v = w
    BY <1>2, <1>6, <2>1, <2>2, <2>3, <2>4 DEF OnePerSlot, Writers
  <2> QED
    BY <2>1, <2>3, <2>5
<1>8. ASSUME Writers(pub.blocks, k) = {}
      PROVE  PgRead(k, pub.anchor) = Newest(path, k, 0)
  <2>1. Writers(path, k) = Writers(Walk(Blocks, a), k)
    <3>1. ASSUME NEW d \in path, k \in Writes(d) PROVE d \in Walk(Blocks, a)
      <4>1. d \notin pub.blocks
        BY <1>8, <3>1 DEF Writers
      <4>2. d.slot <= a.slot
        BY <1>1, <1>2, <1>6, <4>1
      <4> QED
        BY <1>1, <1>2, <4>2, WalkOrdered
    <3> QED
      BY <1>2, <3>1 DEF Writers
  <2>2. CASE Writers(path, k) = {}
    BY <1>2, <1>5, <2>1, <2>2, NewestIs
  <2>3. CASE Writers(path, k) # {}
    <3>1. PICK v \in Writers(path, k) : /\ \A c \in Writers(path, k) : c.slot <= v.slot
                                        /\ Newest(path, k, 0) = Entry(v, k)
      BY <1>2, <2>3, NewestIs
    <3>2. PICK w \in Writers(path, k) :
             /\ \A c \in Writers(path, k) : c.slot <= w.slot
             /\ Newest(Walk(Blocks, a), k, 0) = Entry(w, k)
      BY <1>2, <2>1, <2>3, NewestIs
    <3>3. v = w
      BY <1>2, <1>6, <3>1, <3>2 DEF OnePerSlot, Writers
    <3> QED
      BY <1>5, <3>1, <3>2, <3>3
  <2> QED
    BY <2>2, <2>3
<1>9. Writers(pub.blocks, k) = {} => Newest(pub.blocks, k, PgRead(k, pub.anchor)) = PgRead(k, pub.anchor)
  BY <1>2, NewestIs
<1> QED
  BY <1>4, <1>7, <1>8, <1>9

----------------------------------------------------------------------------
(* The invariants                                                          *)

Grpc == [pc : {"connect", "stream", "dead"}, window : Int, again : BOOLEAN, pos : Nat,
         got : BOOLEAN, errored : BOOLEAN, errors : Int]

\* The feed delivers blocks of the network.
FeedInv ==
  /\ scene \in Scenes
  /\ published \in 0..Len(scene.feed)
  /\ grpc \in Grpc
  /\ chan \in Seq(Blocks)

Slots == [confirmed : Nat, finalized : Nat, healthy : BOOLEAN, sending : BOOLEAN]

\* The store is sound, the anchor on its way is a confirmed block, and what is published is
\* what the store holds now.
StoreInv ==
  /\ StoreOK(store)
  /\ slots \in Slots
  /\ slots.sending => \E b \in Blocks : b.canonical /\ b.slot = slots.confirmed
  /\ watch \in Anchors
  /\ latest = LatestChained(store)

\* A request reads good blocks; from the check of the slots on, Postgres still has the
\* versions of their anchor; and what it has read is the state at their head.
RequestInv ==
  /\ cleaned \in Nat /\ cleaned <= slots.finalized
  /\ req = [pc |-> req.pc, blocks |-> req.blocks, account |-> req.account, mint |-> req.mint]
  /\ req.pc # "idle" => Good(req.blocks)
  /\ req.pc \in {"keys", "mint"} => cleaned <= req.blocks.anchor
  /\ req.pc \in {"mint", "done"} => req.account = StateAt(req.blocks.slot, req.blocks.hash, "t")
  /\ req.pc = "mint" =>
        \/ req.mint = StateAt(req.blocks.slot, req.blocks.hash, "m")
        \/ req.mint = Unread /\ Writers(req.blocks.blocks, "m") = {}
  /\ req.pc = "done" => req.mint = StateAt(req.blocks.slot, req.blocks.hash, "m")

\* A block keeps its place in the network.
LEMMA SceneKept ==
  ASSUME scene' = scene
  PROVE  /\ Blocks' = Blocks /\ Anchors' = Anchors
         /\ \A st : StoreOK(st)' = StoreOK(st)
         /\ \A pub : Good(pub)' = Good(pub)
         /\ \A slot, hash, k : StateAt(slot, hash, k)' = StateAt(slot, hash, k)
<1>1. Blocks' = Blocks
  BY DEF Blocks, BlocksOf
<1>2. Anchors' = Anchors /\ \A st : StoreOK(st)' = StoreOK(st)
  BY <1>1 DEF Anchors, StoreOK
<1>3. \A pub : Good(pub)' = Good(pub)
  BY <1>1 DEF Good
<1>4. \A slot, hash : Path(slot, hash)' = Path(slot, hash)
  BY <1>1 DEF Path, Known
<1>5. \A slot, hash, k : StateAt(slot, hash, k)' = StateAt(slot, hash, k)
  BY <1>4 DEF StateAt
<1> QED
  BY <1>1, <1>2, <1>3, <1>5

\* The fields of the subscription task, one at a time.
LEMMA GrpcFields ==
  ASSUME NEW g \in Grpc
  PROVE  /\ \A n \in Nat : [g EXCEPT !.pos = n] \in Grpc
         /\ \A n \in Int : [g EXCEPT !.errors = n] \in Grpc
         /\ [g EXCEPT !.errors = 0] \in Grpc
         /\ \A x \in BOOLEAN : [g EXCEPT !.got = x] \in Grpc
         /\ \A x \in BOOLEAN : [g EXCEPT !.errored = x] \in Grpc
         /\ [g EXCEPT !.pc = "stream"] \in Grpc
         /\ g.pos + 1 \in Nat /\ g.errors + 1 \in Int
BY DEF Grpc

\* The feed's own steps.
LEMMA FeedStep ==
  ASSUME FeedInv, FeedNext, scene' = scene
  PROVE  FeedInv'
<1>0. Len(scene.feed) \in Nat /\ Blocks' = Blocks /\ published \in Nat
      /\ \A i \in 1..Len(scene.feed) : scene.feed[i] \in Blocks
  BY SceneKept, BlocksNamed DEF FeedInv, Blocks, BlocksOf
<1>1. CASE Publish
  BY <1>0, <1>1 DEF FeedInv, Publish
<1>2. CASE Elapse
  BY <1>0, <1>2 DEF FeedInv, Elapse, Grpc
<1>3. CASE GiveUp
  BY <1>0, <1>3 DEF FeedInv, GiveUp, Grpc
<1>4. CASE ConnectFails
  BY <1>0, <1>4 DEF FeedInv, ConnectFails, Grpc, Opened, Open
<1>5. CASE Subscribe
  <2> DEFINE older == {i \in 1..published : scene.feed[i].slot < FromSlot}
  <2>0. IsFiniteSet(1..published) /\ older \subseteq 1..published
    BY <1>0, FS_Interval
  <2>1. Cardinality(older) \in Nat
    <3> HIDE DEF older
    <3> QED
      BY <2>0, FS_Subset, FS_CardinalityType
  <2>2. \E n \in Nat : grpc' = [grpc EXCEPT !.pc = "stream", !.got = FALSE, !.errored = FALSE,
                                           !.errors = 0, !.pos = n]
    <3> DEFINE held == FromSlot = 0 \/ published - Cardinality(older) <= scene.replay
               n == IF FromSlot = 0 THEN published ELSE IF held THEN Cardinality(older)
                    ELSE Len(scene.feed) + 1
    <3>1. grpc' = [grpc EXCEPT !.pc = "stream", !.got = FALSE, !.errored = FALSE,
                               !.errors = 0, !.pos = n]
      BY <1>5, Zenon DEF Subscribe
    <3>2. n \in Nat
      BY <1>0, <2>1
    <3> QED
      BY <3>1, <3>2
  <2>3. grpc' \in Grpc
    <3>1. PICK n \in Nat : grpc' = [[[[[grpc EXCEPT !.pc = "stream"] EXCEPT !.got = FALSE]
                                  EXCEPT !.errored = FALSE] EXCEPT !.errors = 0] EXCEPT !.pos = n]
      BY <2>2
    <3>2. grpc \in Grpc
      BY DEF FeedInv
    <3>3. [grpc EXCEPT !.pc = "stream"] \in Grpc
      BY <3>2, GrpcFields
    <3>4. [[grpc EXCEPT !.pc = "stream"] EXCEPT !.got = FALSE] \in Grpc
      BY <3>3, GrpcFields
    <3>5. [[[grpc EXCEPT !.pc = "stream"] EXCEPT !.got = FALSE] EXCEPT !.errored = FALSE] \in Grpc
      BY <3>4, GrpcFields
    <3>6. [[[[grpc EXCEPT !.pc = "stream"] EXCEPT !.got = FALSE] EXCEPT !.errored = FALSE]
              EXCEPT !.errors = 0] \in Grpc
      BY <3>5, GrpcFields
    <3> QED
      BY <3>1, <3>6, GrpcFields
  <2> QED
    BY <1>0, <1>5, <2>3 DEF FeedInv, Subscribe
<1>6. CASE Forward
  <2>1. grpc.pos + 1 \in 1..Len(scene.feed)
    BY <1>0, <1>6 DEF FeedInv, Forward, Grpc
  <2>2. chan' \in Seq(Blocks)
    BY <1>0, <1>6, <2>1 DEF FeedInv, Forward
  <2>3. grpc' = [grpc EXCEPT !.pos = @ + 1, !.got = TRUE] /\ grpc \in Grpc
    BY <1>6 DEF FeedInv, Forward
  <2>4. grpc' \in Grpc
    <3>1. [grpc EXCEPT !.pos = @ + 1] \in Grpc
      BY <2>3, GrpcFields
    <3>2. grpc' = [[grpc EXCEPT !.pos = @ + 1] EXCEPT !.got = TRUE]
      BY <2>3
    <3> QED
      BY <3>1, <3>2, GrpcFields
  <2> QED
    BY <1>0, <1>6, <2>2, <2>4 DEF FeedInv, Forward
<1>e. ASSUME NEW g \in Grpc, NEW errored PROVE RunEnds(g, errored) \in Grpc
  <2>1. Opened(g.window) \in Int /\ Closed \in Int
    BY DEF Grpc, Opened, Open, Closed
  <2> QED
    BY <2>1 DEF RunEnds, Grpc
<1>g. grpc \in Grpc /\ [grpc EXCEPT !.errors = @ + 1, !.errored = TRUE] \in Grpc
  <2>1. grpc \in Grpc
    BY DEF FeedInv
  <2>2. [grpc EXCEPT !.errors = @ + 1] \in Grpc
    BY <2>1, GrpcFields
  <2>3. [[grpc EXCEPT !.errors = @ + 1] EXCEPT !.errored = TRUE] \in Grpc
    BY <2>2, GrpcFields
  <2> QED
    BY <2>1, <2>3
<1>7. CASE StreamError
  <2>1. grpc' \in Grpc
    BY <1>7, <1>e, <1>g DEF StreamError
  <2> QED
    BY <1>0, <1>7, <2>1 DEF FeedInv, StreamError
<1>8. CASE StreamEnds
  <2>1. grpc' \in Grpc
    BY <1>8, <1>e, <1>g DEF StreamEnds
  <2> QED
    BY <1>0, <1>8, <2>1 DEF FeedInv, StreamEnds
<1> QED
  BY <1>1, <1>2, <1>3, <1>4, <1>5, <1>6, <1>7, <1>8 DEF FeedNext

\* publish_latest keeps the store sound and publishes what it holds.
LEMMA PublishStep ==
  ASSUME NEW st, StoreOK(st), Publishes(st), scene' = scene
  PROVE  StoreOK(store)' /\ latest' = LatestChained(store')
BY PruneOK, SceneKept DEF Publishes

\* The store under every step.
LEMMA StoreStep ==
  ASSUME FeedInv, StoreInv, [Next]_vars
  PROVE  FeedInv' /\ StoreInv' /\ scene' = scene
<1>0. scene \in Scenes /\ (\A b \in Blocks : b.slot \in Nat)
  BY BlocksNamed DEF FeedInv, Named, Block
<1>1. ASSUME UNCHANGED <<scene, feedVars, store, latest, slots, watch>>
      PROVE  FeedInv' /\ StoreInv' /\ scene' = scene
  BY <1>1, SceneKept DEF FeedInv, StoreInv, feedVars
<1>2. ASSUME FeedNext, UNCHANGED <<scene, store, latest, slots, watch, cleaned, req>>
      PROVE  FeedInv' /\ StoreInv' /\ scene' = scene
  BY <1>2, SceneKept, FeedStep DEF StoreInv
<1>3. CASE OnBlock
  <2>1. Head(chan) \in Blocks /\ Tail(chan) \in Seq(Blocks)
    BY <1>3 DEF FeedInv, OnBlock
  <2>2. StoreOK(StoreBlock(store, Head(chan)))
    BY <1>0, <2>1, StoreBlockOK DEF StoreInv
  <2>3. Publishes(StoreBlock(store, Head(chan))) /\ scene' = scene
    BY <1>3 DEF OnBlock
  <2>4. StoreOK(store)' /\ latest' = LatestChained(store')
    BY <2>2, <2>3, PublishStep
  <2> QED
    BY <1>3, <2>1, <2>3, <2>4, SceneKept DEF OnBlock, FeedInv, StoreInv
<1>4. CASE OnAnchor
  <2>1. StoreOK(SetAnchor(store, watch)) /\ Publishes(SetAnchor(store, watch)) /\ scene' = scene
    BY <1>4, SetAnchorOK DEF OnAnchor, StoreInv
  <2>2. StoreOK(store)' /\ latest' = LatestChained(store')
    BY <2>1, PublishStep
  <2> QED
    BY <1>4, <2>1, <2>2, SceneKept DEF OnAnchor, FeedInv, StoreInv, feedVars, Anchors
<1>5. CASE ConfirmedRow
  <2>1. PICK b \in Blocks, healthy \in scene.health :
           b.canonical /\ slots' = [slots EXCEPT !.confirmed = b.slot, !.healthy = healthy, !.sending = TRUE]
    BY <1>5 DEF ConfirmedRow
  <2>2. healthy \in BOOLEAN
    BY <1>0, FeedAssumption
  <2>3. slots' \in Slots /\ slots'.confirmed = b.slot
    BY <1>0, <2>1, <2>2 DEF StoreInv, Slots
  <2> QED
    BY <1>5, <2>1, <2>3, SceneKept DEF ConfirmedRow, FeedInv, StoreInv, feedVars
<1>6. CASE SendAnchor
  <2>1. slots' \in Slots /\ ~slots'.sending
    BY <1>6 DEF SendAnchor, StoreInv, Slots
  <2>2. watch' \in Anchors
    BY <1>6 DEF SendAnchor, StoreInv, Anchors
  <2> QED
    BY <1>6, <2>1, <2>2, SceneKept DEF SendAnchor, FeedInv, StoreInv, feedVars
<1>7. CASE FinalizedRow
  <2>1. slots' \in Slots /\ slots'.sending = slots.sending /\ slots'.confirmed = slots.confirmed
    BY <1>7 DEF FinalizedRow, StoreInv, Slots
  <2> QED
    BY <1>7, <2>1, SceneKept DEF FinalizedRow, FeedInv, StoreInv, feedVars
<1>8. CASE CleanUp \/ Request
  BY <1>1, <1>8 DEF CleanUp, Request, TakeBlocks, CheckSlots, ReadKeys, ReadMint, Respond
<1>9. CASE UNCHANGED vars
  BY <1>1, <1>9 DEF vars
<1> QED
  BY <1>2, <1>3, <1>4, <1>5, <1>6, <1>7, <1>8, <1>9 DEF Next

\* Nothing is published or stored at the start.
LEMMA StoreInit == Init => FeedInv /\ StoreInv
<1> SUFFICES ASSUME Init PROVE FeedInv /\ StoreInv
  OBVIOUS
<1>1. FeedInv
  <2>1. scene.feed \in Seq(Block) /\ scene \in Scenes
    BY BlocksNamed DEF Init
  <2> QED
    BY <2>1 DEF Init, FeedInit, FeedInv, Grpc, Closed
<1>2. StoreOK(store) /\ ~Linked(store)
  BY DEF Init, StoreOK, Anchors, OnePerSlot, Linked
<1>3. latest = LatestChained(store)
  BY <1>2, LatestIs DEF Init
<1> QED
  BY <1>1, <1>2, <1>3 DEF StoreInv, Init, Slots, Anchors

\* The store of every reachable state.
LEMMA StoreAlways == Spec => [](FeedInv /\ StoreInv)
<1> DEFINE Inv == FeedInv /\ StoreInv
<1>1. Init => Inv
  BY StoreInit
<1>2. Inv /\ [Next]_vars => Inv'
  BY StoreStep
<1> QED
  BY <1>1, <1>2, PTL DEF Spec

\* Whatever is published is good to read through.
LEMMA LatestGood ==
  ASSUME FeedInv, StoreInv, latest # None
  PROVE  Good(latest)
<1>1. Linked(store) /\ latest = Result(store)
  BY LatestIs DEF StoreInv
<1> QED
  BY <1>1, LinkedIsGood DEF FeedInv, StoreInv

\* What is published is one chain, without a gap above the confirmed block it passes through
\* (latest_chained_blocks), whatever the feed repeats, skips or forks.
THEOREM PublishesAChain == Spec => []PublishedIsAChain
<1>1. FeedInv /\ StoreInv => PublishedIsAChain
  <2> SUFFICES ASSUME FeedInv, StoreInv, latest # None PROVE PublishedIsAChain
    BY DEF PublishedIsAChain
  <2>1. PICK head \in Blocks : \E a \in Walk(Blocks, head) :
         /\ a.canonical /\ latest = [slot |-> head.slot, hash |-> head.hash, anchor |-> a.slot,
                                     blocks |-> latest.blocks]
         /\ latest.blocks \subseteq Walk(Blocks, head)
         /\ \A d \in Walk(Blocks, head) :
              (d.slot > a.slot \/ \E c \in latest.blocks : c.slot <= d.slot) => d \in latest.blocks
    BY LatestGood DEF Good
  <2>2. latest.slot = head.slot /\ latest.hash = head.hash
    BY <2>1
  <2>3. Path(latest.slot, latest.hash) = Walk(Blocks, head)
    BY <2>2, BlocksNamed DEF FeedInv
  <2> QED
    BY <2>1, <2>3 DEF PublishedIsAChain
<1> QED
  BY <1>1, StoreAlways, PTL

\* Blocks are published whenever the head's branch is stored above the confirmed block and no
\* conflict is open (conflict, latest_chained_blocks).
THEOREM PublishesWhenLinked == Spec => []ServesWhenLinked
<1>1. FeedInv /\ StoreInv => ServesWhenLinked
  <2> SUFFICES ASSUME FeedInv, StoreInv, NEW head \in store.blocks,
                      store.anchor # NoAnchor, store.conflict = 0, head.time,
                      \A b \in store.blocks : b.slot <= head.slot,
                      \E b \in Path(head.slot, head.hash) :
                         b.slot = store.anchor.slot /\ b.hash = store.anchor.hash,
                      \A b \in Path(head.slot, head.hash) :
                         b.slot > store.anchor.slot => b \in store.blocks
               PROVE  latest # None
    BY DEF ServesWhenLinked
  <2>1. scene \in Scenes /\ StoreOK(store) /\ head \in Blocks
    BY DEF FeedInv, StoreInv, StoreOK
  <2>2. Path(head.slot, head.hash) = Walk(Blocks, head)
    BY <2>1, BlocksNamed
  <2>3. Linked(store)
    BY <2>1, <2>2, BranchIsLinked
  <2> QED
    BY <2>3, LatestIs, PublicationIsNotNone DEF StoreInv
<1> QED
  BY <1>1, StoreAlways, PTL

\* A version the chain holds is no mark of an unread one.
LEMMA StateIsRead ==
  ASSUME scene \in Scenes, NEW head \in Blocks, NEW k
  PROVE  StateAt(head.slot, head.hash, k) # Unread
<1>1. StateAt(head.slot, head.hash, k) = Newest(Walk(Blocks, head), k, 0)
  BY BlocksNamed DEF StateAt
<1>2. Walk(Blocks, head) \in SUBSET Blocks /\ OnePerSlot(Walk(Blocks, head))
  BY BlocksNamed, WalkClosed, WalkOnePerSlot
<1>3. \A b \in Blocks : Entry(b, k) # Unread
  BY BlocksNamed DEF Named, Block, Entry, Gone, Unread
<1>4. CASE Writers(Walk(Blocks, head), k) = {}
  BY <1>1, <1>2, <1>4, NewestIs DEF Unread
<1>5. CASE Writers(Walk(Blocks, head), k) # {}
  BY <1>1, <1>2, <1>3, <1>5, NewestIs DEF Writers
<1> QED
  BY <1>4, <1>5

\* The request's own steps, with the cached slots and the cleanup where they are.
LEMMA ReadStep ==
  ASSUME FeedInv, StoreInv, RequestInv, Request
  PROVE  RequestInv'
<1>0. /\ scene \in Scenes /\ scene' = scene /\ slots' = slots /\ cleaned' = cleaned
      /\ req = [pc |-> req.pc, blocks |-> req.blocks, account |-> req.account, mint |-> req.mint]
      /\ cleaned \in Nat /\ cleaned <= slots.finalized
  BY DEF Request, TakeBlocks, CheckSlots, ReadKeys, ReadMint, Respond, FeedInv, RequestInv
<1>1. CASE TakeBlocks
  <2>1. req' = [pc |-> "slots", blocks |-> latest, account |-> req.account, mint |-> req.mint]
        /\ Good(latest)
    BY <1>0, <1>1, LatestGood DEF TakeBlocks
  <2> QED
    BY <1>0, <2>1, SceneKept DEF RequestInv
<1>2. CASE CheckSlots
  <2>1. CASE Fallback(req.blocks)
    <3>1. req' = [pc |-> "idle", blocks |-> None, account |-> req.account, mint |-> req.mint]
      BY <1>0, <1>2, <2>1 DEF CheckSlots
    <3> QED
      BY <1>0, <3>1, SceneKept DEF RequestInv
  <2>2. CASE ~Fallback(req.blocks)
    <3>1. /\ req' = [pc |-> "keys", blocks |-> req.blocks, account |-> req.account, mint |-> req.mint]
          /\ Good(req.blocks)
      BY <1>0, <1>2, <2>2 DEF CheckSlots, RequestInv
    <3>2. req.blocks.anchor \in Nat
      BY <1>0, <3>1, BlocksNamed, WalkClosed DEF Good, Named, Block
    <3>3. cleaned <= req.blocks.anchor
      BY <1>0, <2>2, <3>2 DEF Fallback, StoreInv, Slots
    <3> QED
      BY <1>0, <3>1, <3>3, SceneKept DEF RequestInv
  <2> QED
    BY <2>1, <2>2
<1>3. CASE ReadKeys
  <2> DEFINE pub == req.blocks
             inBlocks(k) == \E b \in pub.blocks : k \in Writes(b)
             account == Newest(pub.blocks, "t", PgRead("t", pub.anchor))
             mint == IF inBlocks("t") /\ ~inBlocks("m") THEN Unread
                     ELSE Newest(pub.blocks, "m", PgRead("m", pub.anchor))
  <2>1. Good(pub) /\ cleaned <= pub.anchor /\ req.pc = "keys"
    BY <1>3 DEF ReadKeys, RequestInv
  <2>2. req' = [pc |-> "mint", blocks |-> pub, account |-> account, mint |-> mint]
    BY <1>0, <1>3 DEF ReadKeys
  <2>3. account = StateAt(pub.slot, pub.hash, "t")
    BY <1>0, <2>1, AnswerIsState
  <2>4. \/ mint = StateAt(pub.slot, pub.hash, "m")
        \/ mint = Unread /\ Writers(pub.blocks, "m") = {}
    BY <1>0, <2>1, AnswerIsState DEF Writers
  <2> HIDE DEF account, mint, pub
  <2> QED
    BY <1>0, <2>1, <2>2, <2>3, <2>4, SceneKept DEF RequestInv
<1>4. CASE ReadMint
  <2> DEFINE pub == req.blocks
             mint == IF req.mint = Unread THEN PgRead("m", pub.anchor) ELSE req.mint
  <2>1. /\ Good(pub) /\ cleaned <= pub.anchor /\ req.pc = "mint"
        /\ req.account = StateAt(pub.slot, pub.hash, "t")
        /\ \/ req.mint = StateAt(pub.slot, pub.hash, "m")
           \/ req.mint = Unread /\ Writers(pub.blocks, "m") = {}
    BY <1>4 DEF ReadMint, RequestInv
  <2>2. req' = [pc |-> "done", blocks |-> pub, account |-> req.account, mint |-> mint]
    BY <1>0, <1>4 DEF ReadMint
  <2>3. StateAt(pub.slot, pub.hash, "m") # Unread
    <3>1. \E head \in Blocks : pub.slot = head.slot /\ pub.hash = head.hash
      BY <2>1 DEF Good
    <3> QED
      BY <1>0, <3>1, StateIsRead
  <2>4. mint = StateAt(pub.slot, pub.hash, "m")
    BY <1>0, <2>1, <2>3, AnswerIsState
  <2> HIDE DEF mint, pub
  <2> QED
    BY <1>0, <2>1, <2>2, <2>4, SceneKept DEF RequestInv
<1>5. CASE Respond
  BY <1>0, <1>5, SceneKept DEF RequestInv, Respond
<1> QED
  BY <1>1, <1>2, <1>3, <1>4, <1>5 DEF Request

\* No cleanup while a request is under way: the code does not prevent it, the hazard is listed.
NoCleanup == \A s \in Scenes : "cleanup" \notin s.hazards

\* Every other step leaves the request alone; the finalized slot only grows, and the cleanup
\* waits for the request.
LEMMA RequestStep ==
  ASSUME NoCleanup, FeedInv, StoreInv, RequestInv, [Next]_vars
  PROVE  RequestInv'
<1>0. scene' = scene /\ scene \in Scenes /\ slots \in Slots
  BY StoreStep DEF FeedInv, StoreInv
<1>1. ASSUME UNCHANGED <<cleaned, req>>, slots'.finalized \in Nat, slots'.finalized >= slots.finalized
      PROVE  RequestInv'
  <2>1. cleaned' \in Nat /\ cleaned' <= slots'.finalized
    BY <1>0, <1>1 DEF RequestInv, Slots
  <2> QED
    BY <1>0, <1>1, <2>1, SceneKept DEF RequestInv
<1>2. slots.finalized \in Nat /\ slots.finalized >= slots.finalized
  BY <1>0 DEF Slots
<1>3. ASSUME UNCHANGED <<slots, cleaned, req>> PROVE RequestInv'
  BY <1>1, <1>2, <1>3
<1>4. CASE FeedNext /\ UNCHANGED <<scene, store, latest, slots, watch, cleaned, req>>
  BY <1>3, <1>4
<1>5. CASE OnBlock \/ OnAnchor
  BY <1>3, <1>5 DEF OnBlock, OnAnchor
<1>6. CASE ConfirmedRow \/ SendAnchor
  <2>1. UNCHANGED <<cleaned, req>> /\ slots'.finalized = slots.finalized
    BY <1>0, <1>6 DEF ConfirmedRow, SendAnchor, Slots
  <2> QED
    BY <1>1, <1>2, <2>1
<1>7. CASE FinalizedRow
  <2>1. UNCHANGED <<cleaned, req>> /\ slots'.finalized = slots.finalized + 1
    BY <1>0, <1>7 DEF FinalizedRow, Slots
  <2> QED
    BY <1>1, <1>2, <2>1
<1>8. CASE CleanUp
  <2>1. req.pc = "idle" /\ req' = req /\ slots' = slots /\ cleaned' = cleaned + 1 /\ cleaned < slots.finalized
    BY <1>0, <1>8 DEF CleanUp, NoCleanup
  <2>2. cleaned' \in Nat /\ cleaned' <= slots'.finalized
    BY <1>2, <2>1 DEF RequestInv
  <2> QED
    BY <2>1, <2>2 DEF RequestInv
<1>9. CASE Request
  BY <1>9, ReadStep
<1>10. CASE UNCHANGED vars
  BY <1>3, <1>10 DEF vars
<1> QED
  BY <1>4, <1>5, <1>6, <1>7, <1>8, <1>9, <1>10 DEF Next

\* A processed answer is the state of one block's chain: the account and its mint of the block
\* the context names, though blocks, anchor and cached slots move between the reads
\* (read_accounts, resolve_mints, fallback_reason).
THEOREM ProcessedAnswersExact == NoCleanup => (Spec => []ProcessedExact)
<1> SUFFICES ASSUME NoCleanup PROVE Spec => []ProcessedExact
  OBVIOUS
<1> DEFINE Inv == FeedInv /\ StoreInv /\ RequestInv
<1>1. Init => Inv
  <2> SUFFICES ASSUME Init PROVE Inv
    OBVIOUS
  <2>1. RequestInv
    BY DEF Init, RequestInv
  <2> QED
    BY <2>1, StoreInit
<1>2. Inv /\ [Next]_vars => Inv'
  BY StoreStep, RequestStep
<1>3. Inv => ProcessedExact
  BY DEF RequestInv, ProcessedExact
<1> QED
  BY <1>1, <1>2, <1>3, PTL DEF Spec
=============================================================================
