---------------------------- MODULE MyMalloc_proofs ----------------------------
(***************************************************************************)
(* Proofs about the heap, for every size of region and header, every set   *)
(* of requests and of callers, if nobody comes in during a call.           *)
(*                                                                         *)
(* Cut and Absorb keep the tiling; everything that mymalloc and myfree do  *)
(* to the list is made of them and of changes of the free mark.  From that *)
(* follows the inductive invariant Inv, and from Inv that a search which   *)
(* gives up has passed every block and that no free place lies across two  *)
(* blocks: the heap implements the module Heap.                            *)
(***************************************************************************)
EXTENDS MyMalloc, TLAPS, FiniteSetTheorems, WellFoundedInduction

-----------------------------------------------------------------------------
(* Lists of blocks.                                                        *)

\* A function from addresses to headers.
Blocks(b) == DOMAIN b \subseteq Addr /\ \A a \in DOMAIN b : b[a] \in Mementry

\* A region whose blocks tile it.
TiledRegion(b) == Blocks(b) /\ Tiled(b)

\* The constants are natural numbers, and -1 is no address.
LEMMA Numbers ==
  /\ HeaderSize \in Nat /\ HeaderSize > 0 /\ Region \in Nat /\ Region > HeaderSize
  /\ Addr \subseteq Nat /\ Null \notin Nat /\ Null \notin Addr
BY MallocAssumption, SMT DEF Addr, Null

\* What is known of a block of a tiled region.
LEMMA BlockFacts ==
  ASSUME NEW b, TiledRegion(b), NEW a \in DOMAIN b
  PROVE  /\ a \in Nat /\ b[a].size \in Nat /\ b[a].free \in BOOLEAN
         /\ End(b, a) \in Nat /\ End(b, a) > a /\ End(b, a) <= Region
         /\ b[a].next = Null \/ (b[a].next \in DOMAIN b /\ b[a].next = End(b, a))
         /\ b[a].next = Null => End(b, a) = Region
         /\ b[a].prev = Null \/ (b[a].prev \in DOMAIN b /\ b[b[a].prev].next = a)
         /\ b[a].prev = Null => a = 0
<1>1. a \in Addr /\ b[a] \in Mementry
    BY DEF TiledRegion, Blocks
<1>2. a \in Nat /\ b[a].size \in Nat /\ b[a].free \in BOOLEAN
    BY <1>1, Numbers, SMT DEF Addr, Mementry
<1>3. End(b, a) \in Nat /\ End(b, a) > a
    BY <1>2, Numbers, SMT DEF End
<1>4. IF End(b, a) = Region THEN b[a].next = Null
      ELSE b[a].next = End(b, a) /\ End(b, a) \in DOMAIN b
    BY DEF TiledRegion, Tiled, EndsMeet
<1>5. End(b, a) <= Region
    BY <1>3, <1>4, Numbers, SMT DEF TiledRegion, Blocks, Addr
<1>6. b[a].next = Null => End(b, a) = Region
    BY <1>3, <1>4, Numbers
<1>7. IF a = 0 THEN b[a].prev = Null
      ELSE b[a].prev \in DOMAIN b /\ b[b[a].prev].next = a
    BY DEF TiledRegion, Tiled, LinkedBack
<1>8. b[a].prev = Null => a = 0
    BY <1>7, Numbers DEF TiledRegion, Blocks
<1> QED BY <1>2, <1>3, <1>4, <1>5, <1>6, <1>7, <1>8

\* The headers d after block a of b was cut at t.
WasCut(b, a, s, f, g, t, d) ==
  /\ DOMAIN d = DOMAIN b \cup {t}
  /\ d[t] = [size |-> b[a].size - HeaderSize - s, free |-> g, next |-> b[a].next, prev |-> a]
  /\ d[a].size = s /\ d[a].free = f /\ d[a].next = t /\ d[a].prev = b[a].prev
  /\ \A c \in DOMAIN b \ {a} :
       /\ d[c].size = b[c].size /\ d[c].free = b[c].free /\ d[c].next = b[c].next
       /\ d[c].prev = IF c = b[a].next THEN t ELSE b[c].prev

\* The fields of the headers after a cut.
LEMMA CutFields ==
  ASSUME NEW b, Blocks(b), NEW a \in DOMAIN b, NEW s \in Nat, NEW f \in BOOLEAN, NEW g \in BOOLEAN,
         NEW t, t = a + HeaderSize + s, NEW d, d = Cut(b, a, s, f, g), t \notin DOMAIN b
  PROVE  WasCut(b, a, s, f, g, t, d)
<1>1. d = [c \in DOMAIN b \cup {t} |->
             IF c = t THEN [size |-> b[a].size - HeaderSize - s, free |-> g,
                            next |-> b[a].next, prev |-> a]
             ELSE IF c = a THEN [b[a] EXCEPT !.size = s, !.free = f, !.next = t]
             ELSE IF c = b[a].next THEN [b[c] EXCEPT !.prev = t]
             ELSE b[c]]
    BY DEF Cut
<1>2. \A c \in DOMAIN b : b[c] \in Mementry
    BY DEF Blocks
<1>3. a # t
    OBVIOUS
<1>4. d[a] = [b[a] EXCEPT !.size = s, !.free = f, !.next = t]
    BY <1>1, <1>3
<1>5. d[a].size = s /\ d[a].free = f /\ d[a].next = t /\ d[a].prev = b[a].prev
    BY <1>2, <1>4 DEF Mementry
<1>6. ASSUME NEW c \in DOMAIN b \ {a}
      PROVE  /\ d[c].size = b[c].size /\ d[c].free = b[c].free /\ d[c].next = b[c].next
             /\ d[c].prev = IF c = b[a].next THEN t ELSE b[c].prev
    <2>1. d[c] = IF c = b[a].next THEN [b[c] EXCEPT !.prev = t] ELSE b[c]
        BY <1>1, <1>6
    <2>2. b[c] \in Mementry
        BY <1>2
    <2> QED BY <2>1, <2>2 DEF Mementry
<1> QED BY <1>1, <1>5, <1>6 DEF WasCut

\* A block with room for two headers can be cut in two: the region stays tiled.
LEMMA CutTiled ==
  ASSUME NEW b, TiledRegion(b), NEW a \in DOMAIN b, NEW s \in Nat, NEW f \in BOOLEAN, NEW g \in BOOLEAN,
         s + HeaderSize <= b[a].size
  PROVE  /\ TiledRegion(Cut(b, a, s, f, g))
         /\ a + HeaderSize + s \notin DOMAIN b
         /\ End(Cut(b, a, s, f, g), a + HeaderSize + s) = End(b, a)
<1> DEFINE t == a + HeaderSize + s
           d == Cut(b, a, s, f, g)
<1>1. /\ a \in Nat /\ b[a].size \in Nat
      /\ End(b, a) \in Nat /\ End(b, a) <= Region
      /\ b[a].next = Null \/ (b[a].next \in DOMAIN b /\ b[a].next = End(b, a))
      /\ b[a].next = Null => End(b, a) = Region
    BY BlockFacts
<1>2. t \in Nat /\ a < t /\ t + HeaderSize <= End(b, a) /\ t < End(b, a) /\ t < Region
    BY <1>1, Numbers, SMT DEF End
<1>3. \A c \in DOMAIN b : c \in Nat /\ (c > a => End(b, a) <= c) /\ (c < a => End(b, c) <= a)
    BY BlockFacts DEF TiledRegion, Tiled, NoOverlap
<1>4. t \notin DOMAIN b
    BY <1>1, <1>2, <1>3, SMT
<1>5. Blocks(b)
    BY DEF TiledRegion
<1> HIDE DEF t, d
<1>6. /\ DOMAIN d = DOMAIN b \cup {t}
      /\ d[t] = [size |-> b[a].size - HeaderSize - s, free |-> g, next |-> b[a].next, prev |-> a]
      /\ d[a].size = s /\ d[a].free = f /\ d[a].next = t /\ d[a].prev = b[a].prev
      /\ \A c \in DOMAIN b \ {a} :
           /\ d[c].size = b[c].size /\ d[c].free = b[c].free /\ d[c].next = b[c].next
           /\ d[c].prev = IF c = b[a].next THEN t ELSE b[c].prev
    <2>1. WasCut(b, a, s, f, g, t, d)
        BY <1>4, <1>5, CutFields DEF t, d
    <2> QED BY <2>1 DEF WasCut
<1>7. d[t].size = b[a].size - HeaderSize - s /\ d[t].free = g /\ d[t].next = b[a].next /\ d[t].prev = a
    BY <1>6
<1>8. End(d, t) = End(b, a) /\ End(d, a) = t
    BY <1>1, <1>6, <1>7, Numbers, SMT DEF End, t
<1>9. \A c \in DOMAIN b \ {a} : End(d, c) = End(b, c)
    BY <1>6 DEF End
<1>10. 0 \in DOMAIN d
    BY <1>6 DEF TiledRegion, Tiled
<1>11. Blocks(d)
    <2>1. DOMAIN d \subseteq Addr
        BY <1>2, <1>5, <1>6, Numbers, SMT DEF Blocks, Addr
    <2>2. d[t] \in Mementry
        <3>1. b[a].size - HeaderSize - s \in 0 .. Region
            BY <1>1, <1>2, Numbers, SMT DEF End, t
        <3>2. b[a].next \in Addr \cup {Null} /\ a \in Addr
            BY <1>5 DEF Blocks, Mementry
        <3> QED BY <1>6, <3>1, <3>2 DEF Mementry
    <2>3. \A c \in DOMAIN d \ {t} : d[c] \in Mementry
        <3>0. t \in Addr
            BY <1>6, <2>1
        <3>1. d = [c \in DOMAIN b \cup {t} |->
             IF c = t THEN [size |-> b[a].size - HeaderSize - s, free |-> g,
                            next |-> b[a].next, prev |-> a]
             ELSE IF c = a THEN [b[a] EXCEPT !.size = s, !.free = f, !.next = t]
             ELSE IF c = b[a].next THEN [b[c] EXCEPT !.prev = t]
             ELSE b[c]]
            BY DEF d, Cut, t
        <3>2. s \in 0 .. Region
            BY <1>1, <1>2, Numbers, SMT DEF t
        <3>3. ASSUME NEW c \in DOMAIN b PROVE b[c] \in Mementry
            BY <1>5 DEF Blocks
        <3>4. [b[a] EXCEPT !.size = s, !.free = f, !.next = t] \in Mementry
            BY <3>0, <3>2, <3>3 DEF Mementry
        <3>5. ASSUME NEW c \in DOMAIN b PROVE [b[c] EXCEPT !.prev = t] \in Mementry
            BY <3>0, <3>3 DEF Mementry
        <3>6. TAKE c \in DOMAIN d \ {t}
        <3> QED BY <1>6, <3>1, <3>3, <3>4, <3>5
    <2> QED BY <2>1, <2>2, <2>3 DEF Blocks
<1>12. EndsMeet(d)
    <2> SUFFICES ASSUME NEW c \in DOMAIN d
                 PROVE  IF End(d, c) = Region THEN d[c].next = Null
                        ELSE d[c].next = End(d, c) /\ End(d, c) \in DOMAIN d
        BY DEF EndsMeet
    <2>0. \A e \in DOMAIN b : IF End(b, e) = Region THEN b[e].next = Null
                            ELSE b[e].next = End(b, e) /\ End(b, e) \in DOMAIN b
        BY DEF TiledRegion, Tiled, EndsMeet
    <2>1. CASE c = t
        BY <1>6, <1>7, <1>8, <2>0, <2>1
    <2>2. CASE c = a
        <3>1. t # Region
            BY <1>2, Numbers, SMT DEF t
        <3> QED BY <1>6, <1>8, <2>2, <3>1
    <2>3. CASE c \in DOMAIN b \ {a}
        BY <1>6, <1>9, <2>0, <2>3
    <2> QED BY <1>6, <2>1, <2>2, <2>3
<1>13. LinkedBack(d)
    <2> SUFFICES ASSUME NEW c \in DOMAIN d
                 PROVE  IF c = 0 THEN d[c].prev = Null
                        ELSE d[c].prev \in DOMAIN d /\ d[d[c].prev].next = c
        BY DEF LinkedBack
    <2>0. \A e \in DOMAIN b : IF e = 0 THEN b[e].prev = Null
                            ELSE b[e].prev \in DOMAIN b /\ b[b[e].prev].next = e
        BY DEF TiledRegion, Tiled, LinkedBack
    <2>4. t # 0 /\ (b[a].next # Null => b[a].next # 0)
        BY <1>1, <1>2, SMT DEF t
    <2>1. CASE c = t
        BY <1>6, <1>7, <2>1, <2>4
    <2>2. CASE c = a
        <3>1. b[a].next # a
            BY <1>1, <1>2, Numbers, SMT DEF t
        <3> QED BY <1>6, <2>0, <2>2, <3>1
    <2>3. CASE c \in DOMAIN b \ {a} /\ c = b[a].next
        BY <1>6, <1>7, <2>3, <2>4, Numbers DEF TiledRegion, Blocks
    <2>5. CASE c \in DOMAIN b \ {a} /\ c # b[a].next
        BY <1>6, <2>0, <2>5
    <2> QED BY <1>6, <2>1, <2>2, <2>3, <2>5
<1>14. NoOverlap(d)
    <2> SUFFICES ASSUME NEW c \in DOMAIN d, NEW e \in DOMAIN d, c < e PROVE End(d, c) <= e
        BY DEF NoOverlap
    <2>0. \A x, y \in DOMAIN b : x < y => End(b, x) <= y
        BY DEF TiledRegion, Tiled, NoOverlap
    <2>1. CASE c = t /\ e \in DOMAIN b
        BY <1>1, <1>2, <1>3, <1>8, <2>1, SMT DEF t
    <2>2. CASE c = a /\ e = t
        BY <1>2, <1>8, <2>2, SMT DEF t
    <2>3. CASE c = a /\ e \in DOMAIN b
        BY <1>1, <1>2, <1>3, <1>8, <2>3, SMT DEF t
    <2>4. CASE c \in DOMAIN b \ {a} /\ e = t
        <3>1. c \in Nat /\ End(b, c) \in Nat
            BY <2>4, BlockFacts
        <3>2. c < a
            BY <1>1, <1>2, <1>3, <2>4, <3>1, SMT DEF t
        <3> QED BY <1>1, <1>2, <1>3, <1>9, <2>4, <3>1, <3>2, SMT DEF t
    <2>5. CASE c \in DOMAIN b \ {a} /\ e \in DOMAIN b
        BY <1>9, <2>0, <2>5
    <2>6. ~(c = t /\ e = t)
        BY <1>2, SMT DEF t
    <2> QED BY <1>6, <2>1, <2>2, <2>3, <2>4, <2>5, <2>6
<1> QED BY <1>4, <1>8, <1>10, <1>11, <1>12, <1>13, <1>14 DEF TiledRegion, Tiled, t, d

\* A block is the successor of one block only.
LEMMA OnePredecessor ==
  ASSUME NEW b, TiledRegion(b), NEW a \in DOMAIN b, NEW c \in DOMAIN b,
         b[a].next = b[c].next, b[a].next # Null
  PROVE  a = c
<1>1. \A e \in {a, c} : e \in Nat /\ End(b, e) = b[a].next /\ End(b, e) > e /\ End(b, e) \in Nat
    BY BlockFacts
<1>2. (a < c => End(b, a) <= c) /\ (c < a => End(b, c) <= a)
    BY DEF TiledRegion, Tiled, NoOverlap
<1> QED BY <1>1, <1>2, SMT

\* The headers d after block l of b took in its successor r.
Absorbed(b, l, r, d) ==
  /\ DOMAIN d = DOMAIN b \ {r}
  /\ d[l].size = b[l].size + HeaderSize + b[r].size /\ d[l].free = b[l].free
  /\ d[l].next = b[r].next /\ d[l].prev = b[l].prev
  /\ \A c \in DOMAIN b \ {l, r} :
       /\ d[c].size = b[c].size /\ d[c].free = b[c].free /\ d[c].next = b[c].next
       /\ d[c].prev = IF c = b[r].next THEN l ELSE b[c].prev
       /\ End(d, c) = End(b, c)

\* What Absorb makes of the headers.
LEMMA AbsorbFields ==
  ASSUME NEW b, Blocks(b), NEW l \in DOMAIN b, NEW r \in DOMAIN b, l # r,
         NEW d, d = Absorb(b, l, r)
  PROVE  Absorbed(b, l, r, d)
<1>1. d = [c \in DOMAIN b \ {r} |->
             IF c = l THEN [b[l] EXCEPT !.size = @ + HeaderSize + b[r].size, !.next = b[r].next]
             ELSE IF c = b[r].next THEN [b[c] EXCEPT !.prev = l]
             ELSE b[c]]
    BY DEF Absorb
<1>2. \A c \in DOMAIN b : b[c] \in Mementry
    BY DEF Blocks
<1>3. d[l] = [b[l] EXCEPT !.size = b[l].size + HeaderSize + b[r].size, !.next = b[r].next]
    BY <1>1
<1>4. /\ d[l].size = b[l].size + HeaderSize + b[r].size /\ d[l].free = b[l].free
      /\ d[l].next = b[r].next /\ d[l].prev = b[l].prev
    BY <1>2, <1>3 DEF Mementry
<1>5. ASSUME NEW c \in DOMAIN b \ {l, r}
      PROVE  /\ d[c].size = b[c].size /\ d[c].free = b[c].free /\ d[c].next = b[c].next
             /\ d[c].prev = IF c = b[r].next THEN l ELSE b[c].prev
    <2>1. d[c] = IF c = b[r].next THEN [b[c] EXCEPT !.prev = l] ELSE b[c]
        BY <1>1, <1>5
    <2>2. b[c] \in Mementry
        BY <1>2
    <2> QED BY <2>1, <2>2 DEF Mementry
<1> QED BY <1>1, <1>4, <1>5 DEF Absorbed, End

\* A block can take in its successor: the region stays tiled.
LEMMA AbsorbTiled ==
  ASSUME NEW b, TiledRegion(b), NEW l \in DOMAIN b, NEW r, r = b[l].next, r # Null,
         NEW d, d = Absorb(b, l, r)
  PROVE  TiledRegion(d) /\ r \in DOMAIN b /\ r # l
<1>1. r \in DOMAIN b /\ r = End(b, l) /\ l \in Nat /\ l < r /\ r \in Nat /\ b[l].size \in Nat
    BY BlockFacts
<1>2. /\ b[r].size \in Nat /\ End(b, r) \in Nat /\ End(b, r) > r /\ End(b, r) <= Region
      /\ b[r].next = Null \/ (b[r].next \in DOMAIN b /\ b[r].next = End(b, r))
      /\ b[r].next = Null => End(b, r) = Region
    BY <1>1, BlockFacts
<1>3. Blocks(b) /\ l # r
    BY <1>1 DEF TiledRegion
<1>a. Absorbed(b, l, r, d)
    BY <1>1, <1>3, AbsorbFields
<1>4. /\ DOMAIN d = DOMAIN b \ {r}
      /\ d[l].size = b[l].size + HeaderSize + b[r].size /\ d[l].free = b[l].free
      /\ d[l].next = b[r].next /\ d[l].prev = b[l].prev
      /\ \A c \in DOMAIN b \ {l, r} :
           /\ d[c].size = b[c].size /\ d[c].free = b[c].free /\ d[c].next = b[c].next
           /\ d[c].prev = IF c = b[r].next THEN l ELSE b[c].prev
    BY <1>a DEF Absorbed
<1>5. End(d, l) = End(b, r) /\ \A c \in DOMAIN b \ {l, r} : End(d, c) = End(b, c)
    <2>1. End(d, l) = End(b, r)
        BY <1>1, <1>2, <1>4, Numbers, SMT DEF End
    <2>2. \A c \in DOMAIN b \ {l, r} : End(d, c) = End(b, c)
        BY <1>4 DEF End
    <2> QED BY <2>1, <2>2
<1>6. \A c \in DOMAIN b \ {l} : b[c].next # r
    BY OnePredecessor
<1>7. 0 \in DOMAIN d
    BY <1>1, <1>4, SMT DEF TiledRegion, Tiled
<1>8. Blocks(d)
    <2>1. d = [c \in DOMAIN b \ {r} |->
             IF c = l THEN [b[l] EXCEPT !.size = @ + HeaderSize + b[r].size, !.next = b[r].next]
             ELSE IF c = b[r].next THEN [b[c] EXCEPT !.prev = l]
             ELSE b[c]]
        BY DEF Absorb
    <2>2. \A c \in DOMAIN b : b[c] \in Mementry /\ c \in Addr
        BY <1>3 DEF Blocks
    <2>3. b[l].size + HeaderSize + b[r].size \in 0 .. Region
        BY <1>1, <1>2, Numbers, SMT DEF End
    <2>4. [b[l] EXCEPT !.size = @ + HeaderSize + b[r].size, !.next = b[r].next] \in Mementry
        <3>1. b[r].next \in Addr \cup {Null}
            BY <1>1, <2>2 DEF Mementry
        <3> QED BY <2>2, <2>3, <3>1 DEF Mementry
    <2>5. ASSUME NEW c \in DOMAIN b PROVE [b[c] EXCEPT !.prev = l] \in Mementry
        BY <2>2 DEF Mementry
    <2>6. \A c \in DOMAIN d : d[c] \in Mementry
        <3> TAKE c \in DOMAIN d
        <3>1. c \in DOMAIN b /\ c # r
            BY <1>4
        <3>2. CASE c = l
            BY <2>1, <2>4, <3>1, <3>2
        <3>3. CASE c # l /\ c = b[r].next
            <4>1. d[c] = [b[c] EXCEPT !.prev = l]
                BY <2>1, <3>1, <3>3
            <4> QED BY <2>5, <3>1, <4>1
        <3>4. CASE c # l /\ c # b[r].next
            <4>1. d[c] = b[c]
                BY <2>1, <3>1, <3>4
            <4> QED BY <2>2, <3>1, <4>1
        <3> QED BY <3>2, <3>3, <3>4
    <2> QED BY <1>4, <2>2, <2>6 DEF Blocks
<1>9. EndsMeet(d)
    <2> SUFFICES ASSUME NEW c \in DOMAIN d
                 PROVE  IF End(d, c) = Region THEN d[c].next = Null
                        ELSE d[c].next = End(d, c) /\ End(d, c) \in DOMAIN d
        BY DEF EndsMeet
    <2>0. \A e \in DOMAIN b : IF End(b, e) = Region THEN b[e].next = Null
                            ELSE b[e].next = End(b, e) /\ End(b, e) \in DOMAIN b
        BY DEF TiledRegion, Tiled, EndsMeet
    <2>1. CASE c = l
        <3>1. End(b, r) # r
            BY <1>1, <1>2, SMT
        <3> QED BY <1>1, <1>4, <1>5, <2>0, <2>1, <3>1
    <2>2. CASE c \in DOMAIN b \ {l, r}
        BY <1>4, <1>5, <1>6, <2>0, <2>2
    <2> QED BY <1>4, <2>1, <2>2
<1>10. LinkedBack(d)
    <2> SUFFICES ASSUME NEW c \in DOMAIN d
                 PROVE  IF c = 0 THEN d[c].prev = Null
                        ELSE d[c].prev \in DOMAIN d /\ d[d[c].prev].next = c
        BY DEF LinkedBack
    <2>0. \A e \in DOMAIN b : IF e = 0 THEN b[e].prev = Null
                            ELSE b[e].prev \in DOMAIN b /\ b[b[e].prev].next = e
        BY DEF TiledRegion, Tiled, LinkedBack
    <2>1. CASE c = b[r].next
        <3>1. c # 0 /\ c # l
            BY <1>1, <1>2, <1>4, <2>1, Numbers, SMT DEF TiledRegion, Blocks
        <3> QED BY <1>1, <1>4, <2>1, <3>1
    <2>2. CASE c # b[r].next
        <3>1. d[c].prev = b[c].prev
            BY <1>4, <2>2
        <3>2. ASSUME c # 0 PROVE d[c].prev \in DOMAIN d /\ d[d[c].prev].next = c
            <4>1. b[c].prev \in DOMAIN b /\ b[b[c].prev].next = c
                BY <1>4, <2>0, <3>2
            <4>2. b[c].prev # r /\ b[c].prev # l
                BY <1>4, <2>2, <4>1
            <4> QED BY <1>4, <3>1, <4>1, <4>2
        <3> QED BY <1>4, <2>0, <3>1, <3>2
    <2> QED BY <2>1, <2>2
<1>11. NoOverlap(d)
    <2> SUFFICES ASSUME NEW c \in DOMAIN d, NEW e \in DOMAIN d, c < e PROVE End(d, c) <= e
        BY DEF NoOverlap
    <2>0. \A x, y \in DOMAIN b : x < y => End(b, x) <= y
        BY DEF TiledRegion, Tiled, NoOverlap
    <2>1. CASE c = l
        <3>1. e \in Nat /\ e # r /\ r <= e
            BY <1>1, <1>4, <2>0, <2>1, BlockFacts
        <3> QED BY <1>1, <1>2, <1>4, <1>5, <2>0, <2>1, <3>1, SMT
    <2>2. CASE c # l
        BY <1>4, <1>5, <2>0, <2>2
    <2> QED BY <2>1, <2>2
<1> QED BY <1>1, <1>3, <1>7, <1>8, <1>9, <1>10, <1>11 DEF TiledRegion, Tiled

\* The headers d differ from b only in the free mark of block a.
Remarked(b, a, f, d) ==
  /\ DOMAIN d = DOMAIN b /\ d[a].free = f
  /\ \A c \in DOMAIN b : /\ c # a => d[c].free = b[c].free
                         /\ d[c].size = b[c].size /\ d[c].next = b[c].next
                         /\ d[c].prev = b[c].prev /\ End(d, c) = End(b, c)

\* The free mark of a block does not matter to the tiling.
LEMMA MarkTiled ==
  ASSUME NEW b, TiledRegion(b), NEW a \in DOMAIN b, NEW f \in BOOLEAN,
         NEW d, d = [b EXCEPT ![a].free = f]
  PROVE  TiledRegion(d) /\ Remarked(b, a, f, d)
<1>1. \A c \in DOMAIN b : b[c] \in Mementry
    BY DEF TiledRegion, Blocks
<1>2. DOMAIN d = DOMAIN b /\ d[a] = [b[a] EXCEPT !.free = f] /\ \A c \in DOMAIN b \ {a} : d[c] = b[c]
    OBVIOUS
<1>3. d[a] \in Mementry /\ d[a].free = f /\ d[a].size = b[a].size /\ d[a].next = b[a].next
      /\ d[a].prev = b[a].prev
    BY <1>1, <1>2 DEF Mementry
<1>4. \A c \in DOMAIN b : /\ c # a => d[c].free = b[c].free
                         /\ d[c].size = b[c].size /\ d[c].next = b[c].next
                         /\ d[c].prev = b[c].prev /\ End(d, c) = End(b, c)
    BY <1>2, <1>3 DEF End
<1>5. Blocks(d)
    BY <1>1, <1>2, <1>3 DEF Blocks, TiledRegion
<1>6. EndsMeet(d)
    <2>1. \A c \in DOMAIN b : IF End(b, c) = Region THEN b[c].next = Null
                           ELSE b[c].next = End(b, c) /\ End(b, c) \in DOMAIN b
        BY DEF EndsMeet, TiledRegion, Tiled
    <2>2. \A c \in DOMAIN d : IF End(d, c) = Region THEN d[c].next = Null
                           ELSE d[c].next = End(d, c) /\ End(d, c) \in DOMAIN d
        <3> TAKE c \in DOMAIN d
        <3>1. c \in DOMAIN b /\ End(d, c) = End(b, c) /\ d[c].next = b[c].next
            BY <1>2, <1>4
        <3> QED BY <1>2, <2>1, <3>1
    <2> QED BY <2>2 DEF EndsMeet
<1>7. LinkedBack(d)
    BY <1>2, <1>4 DEF LinkedBack, TiledRegion, Tiled
<1>8. NoOverlap(d)
    BY <1>2, <1>4 DEF NoOverlap, TiledRegion, Tiled
<1> QED BY <1>2, <1>3, <1>4, <1>5, <1>6, <1>7, <1>8 DEF TiledRegion, Tiled, Remarked

-----------------------------------------------------------------------------
(* Used blocks.                                                            *)

Used(b) == {a \in DOMAIN b : ~b[a].free}

\* Every byte lies in a block.
Covered(b) == \A i \in Addr : \E a \in DOMAIN b : a <= i /\ i < End(b, a)

\* What every call leaves behind.
Whole(b) == TiledRegion(b) /\ Covered(b) /\ Apart(b)

\* Free neighbours can only be l and what follows it.
ApartBut(b, l) == \A a \in DOMAIN b : b[a].free /\ NextFree(b, a) => a = l

\* From b to d block u was given away.
Gives(b, u, d) ==
  /\ Whole(d) /\ DOMAIN b \subseteq DOMAIN d /\ Used(d) = Used(b) \cup {u}
  /\ \A v \in Used(b) : End(d, v) = End(b, v)

\* A new region is one free block.
LEMMA FirstWhole ==
  ASSUME NEW b, DOMAIN b = {0}, b[0] = FirstBlock
  PROVE  Whole(b) /\ Used(b) = {}
<1>1. End(b, 0) = Region
    BY Numbers, SMT DEF End, FirstBlock
<1>2. 0 \in Addr /\ FirstBlock \in Mementry
    BY Numbers, SMT DEF Addr, Mementry, FirstBlock
<1>3. b[0].next = Null /\ b[0].prev = Null /\ b[0].free = TRUE
    BY DEF FirstBlock
<1>4. Blocks(b)
    BY <1>2 DEF Blocks
<1>5. EndsMeet(b) /\ LinkedBack(b)
    BY <1>1, <1>3 DEF EndsMeet, LinkedBack
<1>6. NoOverlap(b)
    BY SMT DEF NoOverlap
<1>7. Covered(b)
    BY <1>1, Numbers, SMT DEF Covered, Addr
<1>8. Apart(b) /\ Used(b) = {}
    BY <1>3 DEF Apart, NextFree, Used
<1> QED BY <1>4, <1>5, <1>6, <1>7, <1>8 DEF Whole, TiledRegion, Tiled

\* The free block a of b can be cut at t = a + HeaderSize + s.
CanCut(b, a, s, t) ==
  /\ Whole(b) /\ a \in DOMAIN b /\ b[a].free /\ s \in Nat /\ s + HeaderSize <= b[a].size
  /\ t = a + HeaderSize + s

\* Block a of b was cut at t to yield d.
Parted(b, a, t, d) ==
  t \notin DOMAIN b /\ t \in DOMAIN d /\ End(d, a) = t /\ End(d, t) = End(b, a)

\* A free block that is cut in two, one part given away.
LEMMA CutWhole ==
  ASSUME NEW b, NEW a, NEW s, NEW t, CanCut(b, a, s, t),
         NEW f \in BOOLEAN, NEW g \in BOOLEAN, f # g, NEW d, d = Cut(b, a, s, f, g)
  PROVE  Gives(b, IF f THEN t ELSE a, d) /\ Parted(b, a, t, d)
<1>0. /\ Whole(b) /\ a \in DOMAIN b /\ b[a].free /\ s \in Nat /\ s + HeaderSize <= b[a].size
      /\ t = a + HeaderSize + s
    BY DEF CanCut
<1>1. TiledRegion(b) /\ Covered(b) /\ Apart(b) /\ Blocks(b)
    BY <1>0 DEF Whole, TiledRegion
<1>2. TiledRegion(d) /\ t \notin DOMAIN b /\ End(d, t) = End(b, a)
    <2>1. /\ TiledRegion(Cut(b, a, s, f, g))
          /\ a + HeaderSize + s \notin DOMAIN b
          /\ End(Cut(b, a, s, f, g), a + HeaderSize + s) = End(b, a)
        BY <1>0, <1>1, CutTiled
    <2> QED BY <1>0, <2>1
<1>3. /\ DOMAIN d = DOMAIN b \cup {t}
      /\ d[t] = [size |-> b[a].size - HeaderSize - s, free |-> g, next |-> b[a].next, prev |-> a]
      /\ d[a].size = s /\ d[a].free = f /\ d[a].next = t /\ d[a].prev = b[a].prev
      /\ \A c \in DOMAIN b \ {a} :
           /\ d[c].size = b[c].size /\ d[c].free = b[c].free /\ d[c].next = b[c].next
           /\ d[c].prev = IF c = b[a].next THEN t ELSE b[c].prev
    <2>1. WasCut(b, a, s, f, g, t, d)
        BY <1>0, <1>1, <1>2, CutFields
    <2> QED BY <2>1 DEF WasCut
<1>4. d[t].free = g /\ d[t].next = b[a].next
    BY <1>3
<1>5. End(d, a) = t
    BY <1>0, <1>3 DEF End
<1>6. \A c \in DOMAIN b \ {a} : End(d, c) = End(b, c)
    BY <1>0, <1>3 DEF End
<1>7. Used(d) = Used(b) \cup {IF f THEN t ELSE a}
    BY <1>0, <1>2, <1>3, <1>4 DEF Used
<1>8. Covered(d)
    <2> SUFFICES ASSUME NEW i \in Addr PROVE \E e \in DOMAIN d : e <= i /\ i < End(d, e)
        BY DEF Covered
    <2>1. PICK c \in DOMAIN b : c <= i /\ i < End(b, c)
        BY <1>1 DEF Covered
    <2>2. CASE c # a
        BY <1>3, <1>6, <2>1, <2>2
    <2>3. CASE c = a
        <3>1. i \in Nat /\ t \in Nat
            BY <1>0, <1>1, BlockFacts, Numbers, SMT
        <3>2. i < t \/ t <= i
            BY <3>1, SMT
        <3> QED BY <1>0, <1>2, <1>3, <1>5, <2>1, <2>3, <3>2
    <2> QED BY <2>2, <2>3
<1>9. Apart(d)
    <2> SUFFICES ASSUME NEW c \in DOMAIN d, d[c].free, d[c].next # Null, d[d[c].next].free
                 PROVE  FALSE
        BY DEF Apart, NextFree
    <2>0. \A e \in DOMAIN b : b[e].next # Null => b[e].next \in DOMAIN b
        BY <1>1, BlockFacts
    <2>1. \A e \in DOMAIN b : b[e].free /\ b[e].next # Null => ~b[b[e].next].free
        BY <1>1 DEF Apart, NextFree
    <2>2. CASE c = t
        BY <1>0, <1>3, <1>4, <2>0, <2>1, <2>2
    <2>3. CASE c = a
        BY <1>0, <1>3, <1>4, <2>3
    <2>4. CASE c \in DOMAIN b \ {a}
        BY <1>0, <1>3, <2>0, <2>1, <2>4
    <2> QED BY <1>3, <2>2, <2>3, <2>4
<1>10. \A v \in Used(b) : End(d, v) = End(b, v)
    BY <1>0, <1>6 DEF Used
<1> QED BY <1>2, <1>3, <1>5, <1>7, <1>8, <1>9, <1>10 DEF Whole, Gives, Parted

\* The low part is given away.
LEMMA CutLow ==
  ASSUME NEW b, NEW a, NEW s, NEW t, CanCut(b, a, s, t), NEW d, d = Cut(b, a, s, FALSE, TRUE)
  PROVE  Gives(b, a, d) /\ Parted(b, a, t, d)
<1>1. PICK f \in BOOLEAN : f = FALSE
    OBVIOUS
<1>2. PICK g \in BOOLEAN : g = TRUE
    OBVIOUS
<1>3. d = Cut(b, a, s, f, g) /\ f # g
    BY <1>1, <1>2
<1>4. Gives(b, IF f THEN t ELSE a, d) /\ Parted(b, a, t, d)
    BY <1>3, CutWhole
<1> QED BY <1>1, <1>4

\* The high part is given away.
LEMMA CutHigh ==
  ASSUME NEW b, NEW a, NEW s, NEW t, CanCut(b, a, s, t), NEW d, d = Cut(b, a, s, TRUE, FALSE)
  PROVE  Gives(b, t, d) /\ Parted(b, a, t, d)
<1>1. PICK f \in BOOLEAN : f = TRUE
    OBVIOUS
<1>2. PICK g \in BOOLEAN : g = FALSE
    OBVIOUS
<1>3. d = Cut(b, a, s, f, g) /\ f # g
    BY <1>1, <1>2
<1>4. Gives(b, IF f THEN t ELSE a, d) /\ Parted(b, a, t, d)
    BY <1>3, CutWhole
<1> QED BY <1>1, <1>4

\* A free block that is given away as it is.
LEMMA TakeWholeBlock ==
  ASSUME NEW b, Whole(b), NEW a \in DOMAIN b, NEW d, d = [b EXCEPT ![a].free = FALSE]
  PROVE  Gives(b, a, d) /\ End(d, a) = End(b, a)
<1>1. TiledRegion(b) /\ Covered(b) /\ Apart(b)
    BY DEF Whole
<1>2. /\ TiledRegion(d) /\ DOMAIN d = DOMAIN b /\ d[a].free = FALSE
      /\ \A c \in DOMAIN b : /\ c # a => d[c].free = b[c].free
                             /\ d[c].size = b[c].size /\ d[c].next = b[c].next
                             /\ d[c].prev = b[c].prev /\ End(d, c) = End(b, c)
    <2>1. TiledRegion(d) /\ Remarked(b, a, FALSE, d)
        BY <1>1, MarkTiled
    <2> QED BY <2>1 DEF Remarked
<1>3. Covered(d)
    BY <1>1, <1>2 DEF Covered
<1>4. Apart(d)
    <2>1. \A e \in DOMAIN b : b[e].next # Null => b[e].next \in DOMAIN b
        BY <1>1, BlockFacts
    <2> QED BY <1>1, <1>2, <2>1 DEF Apart, NextFree
<1>5. Used(d) = Used(b) \cup {a}
    BY <1>2 DEF Used
<1>6. \A v \in Used(b) : End(d, v) = End(b, v)
    BY <1>2 DEF Used
<1> QED BY <1>2, <1>3, <1>4, <1>5, <1>6 DEF Whole, Gives

\* Absorbing the successor keeps every byte covered.
LEMMA AbsorbCovered ==
  ASSUME NEW b, TiledRegion(b), Covered(b), NEW l \in DOMAIN b, NEW r, r = b[l].next, r # Null,
         NEW d, d = Absorb(b, l, r)
  PROVE  TiledRegion(d) /\ Covered(d) /\ Absorbed(b, l, r, d) /\ r \in DOMAIN b /\ r # l
<1>1. TiledRegion(d) /\ r \in DOMAIN b /\ r # l
    BY AbsorbTiled
<1>2. Absorbed(b, l, r, d)
    BY <1>1, AbsorbFields DEF TiledRegion
<1>3. \A c \in DOMAIN d \ {l} : End(d, c) = End(b, c)
    BY <1>2 DEF Absorbed
<1>4. /\ l \in Nat /\ r \in Nat /\ r = End(b, l) /\ b[l].size \in Nat /\ b[r].size \in Nat
      /\ End(b, r) \in Nat /\ l < r
    BY <1>1, BlockFacts
<1>5. End(d, l) = End(b, r)
    BY <1>2, <1>4, Numbers, SMT DEF Absorbed, End
<1>6. Covered(d)
    <2> SUFFICES ASSUME NEW i \in Addr PROVE \E e \in DOMAIN d : e <= i /\ i < End(d, e)
        BY DEF Covered
    <2>1. PICK c \in DOMAIN b : c <= i /\ i < End(b, c)
        BY DEF Covered
    <2>2. CASE c \notin {l, r}
        BY <1>2, <1>3, <2>1, <2>2 DEF Absorbed
    <2>3. CASE c \in {l, r}
        <3>1. l \in DOMAIN d /\ i \in Nat /\ End(b, r) > r
            BY <1>1, <1>2, Numbers, BlockFacts DEF Absorbed
        <3>2. l <= i /\ i < End(d, l)
            BY <1>4, <1>5, <2>1, <2>3, <3>1, SMT
        <3> QED BY <3>1, <3>2
    <2> QED BY <2>2, <2>3
<1> QED BY <1>1, <1>2, <1>6

\* What myfree leaves behind: block f is no longer used, whatever it was
\* coalesced with, and the middle is still a block.
LEMMA FreedWhole ==
  ASSUME Whole(block), NEW f \in Used(block), NEW m \in DOMAIN block, NEW e, e = Freed(f)
  PROVE  /\ Whole(e) /\ Used(e) = Used(block) \ {f} /\ MiddleAfter(f, m) \in DOMAIN e
         /\ \A a \in Used(e) : End(e, a) = End(block, a)
<1> DEFINE b == Marked(f)
           l == IF PrevFree(block, f) THEN block[f].prev ELSE f
           c == IF PrevFree(block, f) THEN Absorb(b, l, f) ELSE b
           r == block[f].next
<1>1. /\ TiledRegion(block) /\ Covered(block) /\ Blocks(block)
      /\ f \in DOMAIN block /\ block[f].free = FALSE
    <2>1. block[f].free \in BOOLEAN
        BY BlockFacts DEF Whole, Used
    <2> QED BY <2>1 DEF Whole, Used, TiledRegion
<1>2. \A a \in DOMAIN block : /\ block[a].next # Null => block[a].next \in DOMAIN block
                              /\ block[a].next # Null /\ block[a].free => ~block[block[a].next].free
                              /\ block[a].prev # Null => /\ block[a].prev \in DOMAIN block
                                                         /\ block[block[a].prev].next = a
                              /\ block[a].next # a /\ block[a].prev # a
    <2>1. Apart(block)
        BY DEF Whole
    <2> TAKE a \in DOMAIN block
    <2>2. /\ a \in Nat /\ End(block, a) \in Nat /\ End(block, a) > a
          /\ block[a].next = Null \/ (block[a].next \in DOMAIN block /\ block[a].next = End(block, a))
          /\ block[a].prev = Null \/ (block[a].prev \in DOMAIN block /\ block[block[a].prev].next = a)
        BY <1>1, BlockFacts
    <2>3. block[a].next # a
        BY <2>2, Numbers, SMT
    <2>4. block[a].prev # a
        BY <2>2, <2>3, Numbers
    <2> QED BY <2>1, <2>2, <2>3, <2>4 DEF Apart, NextFree
<1>3. TiledRegion(b) /\ Covered(b) /\ Remarked(block, f, TRUE, b)
    <2>1. TiledRegion(b) /\ Remarked(block, f, TRUE, b)
        BY <1>1, MarkTiled DEF Marked
    <2> QED BY <1>1, <2>1 DEF Covered, Remarked
<1>4. /\ DOMAIN b = DOMAIN block /\ b[f].free = TRUE
      /\ \A a \in DOMAIN block : /\ a # f => b[a].free = block[a].free
                                 /\ b[a].next = block[a].next /\ b[a].prev = block[a].prev
                                 /\ End(b, a) = End(block, a)
    BY <1>3 DEF Remarked
<1>5. l \in DOMAIN block /\ l # r
    <2>1. CASE PrevFree(block, f)
        <3>1. l \in DOMAIN block /\ block[l].next = f
            BY <1>1, <1>2, <2>1 DEF PrevFree
        <3>2. l \in Nat /\ f \in Nat /\ l < f
            BY <1>1, <3>1, BlockFacts, Numbers DEF TiledRegion, Blocks
        <3>3. r = Null \/ (r \in Nat /\ f < r)
            BY <1>1, BlockFacts
        <3> QED BY <3>1, <3>2, <3>3, Numbers, SMT
    <2>2. CASE ~PrevFree(block, f)
        BY <1>1, <1>2, <2>2
    <2> QED BY <2>1, <2>2
<1>6. e = IF NextFree(c, l) THEN Absorb(c, l, c[l].next) ELSE c
    <2>1. PrevFree(b, f) = PrevFree(block, f) /\ b[f].prev = block[f].prev
        BY <1>1, <1>2, <1>4 DEF PrevFree
    <2> QED BY <2>1 DEF Freed
<1>7. /\ TiledRegion(c) /\ Covered(c) /\ l \in DOMAIN c /\ c[l].next = r
      /\ DOMAIN c = IF PrevFree(block, f) THEN DOMAIN block \ {f} ELSE DOMAIN block
      /\ \A a \in DOMAIN c : /\ c[a].free <=> (a = l \/ block[a].free)
                             /\ a # l => c[a].next = block[a].next /\ End(c, a) = End(block, a)
    <2>1. CASE PrevFree(block, f)
        <3>1. l = block[f].prev /\ l # f /\ l \in DOMAIN block /\ block[l].next = f /\ block[l].free
              /\ c = Absorb(b, l, f) /\ f # Null
            BY <1>1, <1>2, <2>1, Numbers DEF PrevFree, TiledRegion, Blocks
        <3> HIDE DEF b, l, c
        <3>2. f = b[l].next /\ l \in DOMAIN b
            BY <1>4, <3>1
        <3>3. TiledRegion(c) /\ Covered(c) /\ Absorbed(b, l, f, c)
            BY <1>3, <3>1, <3>2, AbsorbCovered
        <3>4. /\ DOMAIN c = DOMAIN block \ {f} /\ c[l].next = r /\ c[l].free = block[l].free
              /\ \A a \in DOMAIN block \ {l, f} : /\ c[a].free = block[a].free
                                                  /\ c[a].next = block[a].next
                                                  /\ End(c, a) = End(block, a)
            <4>1. /\ DOMAIN c = DOMAIN b \ {f} /\ c[l].free = b[l].free /\ c[l].next = b[f].next
                  /\ \A a \in DOMAIN b \ {l, f} : /\ c[a].free = b[a].free /\ c[a].next = b[a].next
                                                  /\ End(c, a) = End(b, a)
                BY <3>3 DEF Absorbed
            <4>2. b[l].free = block[l].free /\ b[f].next = block[f].next
                BY <1>1, <1>4, <3>1
            <4> QED BY <1>4, <4>1, <4>2
        <3>5. \A a \in DOMAIN c : c[a].free <=> (a = l \/ block[a].free)
            BY <3>1, <3>4
        <3>6. \A a \in DOMAIN c : a # l => c[a].next = block[a].next /\ End(c, a) = End(block, a)
            BY <3>4
        <3> QED BY <2>1, <3>1, <3>3, <3>4, <3>5, <3>6
    <2>2. CASE ~PrevFree(block, f)
        <3>1. l = f /\ c = b
            BY <2>2
        <3> HIDE DEF b, l, c
        <3>2. \A a \in DOMAIN c : c[a].free <=> (a = l \/ block[a].free)
            BY <1>1, <1>4, <3>1
        <3>3. \A a \in DOMAIN c : a # l => c[a].next = block[a].next /\ End(c, a) = End(block, a)
            BY <1>4, <3>1
        <3>4. l \in DOMAIN c /\ c[l].next = r /\ DOMAIN c = DOMAIN block
            BY <1>1, <1>4, <3>1
        <3> QED BY <1>3, <2>2, <3>1, <3>2, <3>3, <3>4
    <2> QED BY <2>1, <2>2
<1> HIDE DEF b, l, c
<1>8. ApartBut(c, l)
    <2> SUFFICES ASSUME NEW a \in DOMAIN c, a # l, c[a].free, c[a].next # Null, c[c[a].next].free
                 PROVE  FALSE
        BY DEF ApartBut, NextFree
    <2>1. a \in DOMAIN block /\ block[a].free /\ c[a].next = block[a].next /\ a # f
        BY <1>1, <1>7
    <2>2. block[a].next \in DOMAIN c /\ block[a].next \in DOMAIN block
        BY <1>7, <2>1, BlockFacts
    <2>3. block[a].next = l
        BY <1>2, <1>7, <2>1, <2>2
    <2>4. ~block[l].free
        BY <1>2, <1>7, <2>1, <2>3
    <2>5. ~PrevFree(block, f) /\ l = f
        BY <2>4 DEF PrevFree, l
    <2>6. block[f].prev # Null /\ block[block[f].prev].next = f /\ block[f].prev \in DOMAIN block
        <3>1. f # 0
            BY <1>1, <2>1, <2>3, <2>5, BlockFacts, Numbers, SMT
        <3> QED BY <1>1, <3>1, BlockFacts
    <2>7. block[f].prev = a
        BY <1>1, <2>1, <2>3, <2>5, <2>6, OnePredecessor
    <2> QED BY <2>1, <2>5, <2>6, <2>7 DEF PrevFree
<1>9. r # Null => (NextFree(c, l) <=> NextFree(block, f)) /\ r \in DOMAIN block /\ r \in DOMAIN c /\ r # f
    BY <1>1, <1>2, <1>5, <1>7 DEF NextFree
<1>10. CASE ~NextFree(c, l)
    <2>1. e = c
        BY <1>6, <1>10
    <2>2. Apart(e)
        BY <1>8, <1>10, <2>1 DEF ApartBut, Apart
    <2>3. Used(e) = Used(block) \ {f}
        BY <1>1, <1>7, <2>1 DEF Used, l, PrevFree
    <2>4. MiddleAfter(f, m) \in DOMAIN e
        <3>1. ~NextFree(block, f)
            BY <1>7, <1>9, <1>10 DEF NextFree
        <3> QED BY <1>7, <2>1, <3>1 DEF MiddleAfter, l
    <2>5. \A a \in Used(e) : End(e, a) = End(block, a)
        BY <1>7, <2>1 DEF Used
    <2> QED BY <1>7, <2>1, <2>2, <2>3, <2>4, <2>5 DEF Whole
<1>11. CASE NextFree(c, l)
    <2>1. e = Absorb(c, l, r) /\ r # Null /\ c[r].free
        BY <1>6, <1>7, <1>11 DEF NextFree
    <2>2. TiledRegion(e) /\ Covered(e) /\ Absorbed(c, l, r, e) /\ r # l
        BY <1>7, <2>1, AbsorbCovered
    <2>3. /\ DOMAIN e = DOMAIN c \ {r}
          /\ e[l].free = c[l].free /\ e[l].next = c[r].next
          /\ \A a \in DOMAIN c \ {l, r} : /\ e[a].free = c[a].free /\ e[a].next = c[a].next
                                          /\ End(e, a) = End(c, a)
        BY <2>2 DEF Absorbed
    <2>4. Apart(e)
        <3> SUFFICES ASSUME NEW a \in DOMAIN e, e[a].free, e[a].next # Null, e[e[a].next].free
                     PROVE  FALSE
            BY DEF Apart, NextFree
        <3>1. e[a].next \in DOMAIN e
            BY <2>2, BlockFacts
        <3>2. \A x \in DOMAIN c : c[x].free /\ c[x].next # Null => x = l \/ ~c[c[x].next].free
            BY <1>8 DEF ApartBut, NextFree
        <3>3. c[e[a].next].free
            BY <2>3, <3>1, <1>7
        <3>4. CASE a = l
            BY <1>7, <1>9, <2>1, <2>2, <2>3, <3>2, <3>3, <3>4
        <3>5. CASE a # l
            BY <2>3, <3>2, <3>3, <3>5
        <3> QED BY <3>4, <3>5
    <2>5. Used(e) = Used(block) \ {f}
        <3>1. block[r].free
            BY <1>7, <1>9, <2>1, <2>2
        <3>2. l = f \/ block[l].free
            BY DEF l, PrevFree
        <3>3. \A a \in DOMAIN e : e[a].free <=> (a = l \/ block[a].free)
            BY <1>7, <2>3
        <3>4. DOMAIN e \ {f} = DOMAIN block \ {f, r}
            BY <1>7, <2>3
        <3>5. \A a : a \in Used(e) <=> a \in Used(block) /\ a # f
            <4> TAKE a
            <4>1. CASE a = f
                BY <1>7, <2>3, <3>3, <4>1 DEF Used, l
            <4>2. CASE a # f
                BY <3>1, <3>2, <3>3, <3>4, <4>2 DEF Used
            <4> QED BY <4>1, <4>2
        <3> QED BY <3>5
    <2>6. MiddleAfter(f, m) \in DOMAIN e
        <3>1. NextFree(block, f)
            BY <1>9, <1>11, <2>1
        <3>2. l \in DOMAIN e
            BY <1>7, <2>2, <2>3
        <3> QED BY <1>7, <2>3, <3>1, <3>2 DEF MiddleAfter, l
    <2>7. \A a \in Used(e) : End(e, a) = End(block, a)
        BY <1>7, <2>2, <2>3 DEF Used
    <2> QED BY <2>2, <2>4, <2>5, <2>6, <2>7 DEF Whole
<1> QED BY <1>10, <1>11

-----------------------------------------------------------------------------
(* The inductive invariant.  One call at a time works on the list; the     *)
(* pointers given out, those of a finished call that has not yet returned  *)
(* among them, are behind used blocks; and the search has passed no free   *)
(* block that fits.                                                        *)

\* The pointers that c has been given.
Given(c) == owned[c] \cup (IF call[c].at = "done" THEN {call[c].got} \ {Null} ELSE {})

Quiet == \A c \in Caller : call[c].at = "idle"

Shape ==
  /\ call \in [Caller -> [at : Points, x : Nat, walker : Int, got : Int]]
  /\ owned \in [Caller -> SUBSET Nat]
  /\ saved = [head |-> saved.head, middle |-> saved.middle, free_page_mem |-> saved.free_page_mem]

Alone == \A c, d \in Caller : c # d => call[c].at = "idle" \/ call[d].at = "idle"

Formed ==
  IF block = << >> THEN Quiet /\ \A c \in Caller : owned[c] = {}
  ELSE Whole(block) /\ head = 0 /\ middle \in DOMAIN block

SavedFits ==
  /\ saved.head \in {0, Null}
  /\ saved.head = 0 => block # << >> /\ saved.middle \in DOMAIN block
  /\ Quiet /\ saved.head = Null => block = << >>

GivenUsed == \A c \in Caller : \A p \in Given(c) : \E a \in Used(block) : p = a + HeaderSize

GivenOnce == \A c, d \in Caller : c # d => Given(c) \cap Given(d) = {}

\* If myfree accepts every pointer into the region, no block is lost.
UsedGiven ==
  (Frees => Region <= FreeLimit) =>
    \A a \in Used(block) : \E c \in Caller : a + HeaderSize \in Given(c)

\* The search of c has passed block a.
Passed(c, a) ==
  \/ call[c].at = "small" /\ (Walker(c) = Null \/ a < Walker(c))
  \/ call[c].at = "right" /\ a > middle /\ (Walker(c) = Null \/ a < Walker(c))
  \/ call[c].at = "left" /\ (a > middle \/ Walker(c) = Null \/ a > Walker(c))

Sought ==
  \A c \in Caller : Searching(c) =>
    /\ Walker(c) \in DOMAIN block \cup {Null}
    /\ call[c].x \in Requests
    /\ \A a \in DOMAIN block : Passed(c, a) => ~Fits(block, a, call[c].x)

Inv == /\ Shape /\ Alone /\ Formed /\ SavedFits
       /\ GivenUsed /\ GivenOnce /\ UsedGiven /\ Sought

\* No headers.
LEMMA NoBlocks == DOMAIN << >> = {} /\ Used(<< >>) = {}
<1>1. DOMAIN << >> = {}
    BY SMT
<1> QED BY <1>1 DEF Used

\* Inv holds initially.
LEMMA InvInit == Init => Inv
<1> SUFFICES ASSUME Init PROVE Inv
    OBVIOUS
<1>1. \A c \in Caller : call[c] = Idle /\ owned[c] = {}
    BY DEF Init
<1>2. Idle \in [at : Points, x : Nat, walker : Int, got : Int] /\ Idle.at = "idle"
    BY SMT DEF Idle, Points, Null
<1>3. Quiet
    BY <1>1, <1>2 DEF Quiet
<1>4. Shape
    BY <1>2 DEF Init, Shape
<1>5. Alone /\ Formed
    BY <1>1, <1>3 DEF Init, Alone, Formed, Quiet
<1>6. SavedFits
    BY Numbers, SMT DEF Init, SavedFits, Null
<1>7. \A c \in Caller : Given(c) = {}
    BY <1>1, <1>2 DEF Given
<1>8. GivenUsed /\ GivenOnce
    BY <1>7 DEF GivenUsed, GivenOnce
<1>9. UsedGiven
    BY NoBlocks DEF Init, UsedGiven
<1>10. Sought
    BY <1>1, <1>2 DEF Sought, Searching
<1> QED BY <1>4, <1>5, <1>6, <1>8, <1>9, <1>10 DEF Inv

\* What is known of a call that is under way.
LEMMA Busy ==
  ASSUME Inv, NEW c \in Caller, call[c].at # "idle"
  PROVE  /\ Whole(block) /\ block # << >> /\ head = 0 /\ middle \in DOMAIN block
         /\ \A d \in Caller \ {c} : call[d].at = "idle"
         /\ call[c].x \in Nat
<1>1. block # << >>
    BY DEF Inv, Formed, Quiet
<1>2. Whole(block) /\ head = 0 /\ middle \in DOMAIN block
    BY <1>1 DEF Inv, Formed
<1>3. \A d \in Caller \ {c} : call[d].at = "idle"
    BY DEF Inv, Alone
<1>4. call[c].x \in Nat
    BY DEF Inv, Shape
<1> QED BY <1>1, <1>2, <1>3, <1>4

\* What is known when nobody is in the heap.
LEMMA AtRest ==
  ASSUME Inv, Quiet
  PROVE  /\ \A c \in Caller : Given(c) = owned[c]
         /\ saved.head = Null => block = << >>
         /\ saved.head # Null => /\ saved.head = 0 /\ block # << >> /\ Whole(block)
                                 /\ saved.middle \in DOMAIN block
<1>1. \A c \in Caller : Given(c) = owned[c]
    BY DEF Given, Quiet
<1>2. saved.head # Null => saved.head = 0 /\ block # << >> /\ saved.middle \in DOMAIN block
    BY DEF Inv, SavedFits
<1>3. block # << >> => Whole(block)
    BY DEF Inv, Formed
<1> QED BY <1>1, <1>2, <1>3 DEF Inv, SavedFits

-----------------------------------------------------------------------------
(* Steps that give a block away.                                           *)

\* The call of c is answered with the block a, which was free.
Granting(c, a) ==
  /\ Searching(c)
  /\ Gives(block, a, block') /\ a \notin Used(block) /\ middle' \in DOMAIN block'
  /\ a + HeaderSize + call[c].x <= End(block', a)
  /\ Answer(c, a + HeaderSize)
  /\ UNCHANGED <<head, saved, owned>>

\* TakeWhole, SplitFront and SplitBack give a block away.
LEMMA GrantStep ==
  ASSUME Inv, NEW c \in Caller, TakeWhole(c) \/ SplitFront(c) \/ SplitBack(c)
  PROVE  \E a : Granting(c, a)
<1> DEFINE w == Walker(c)
           x == call[c].x
<1>1. Found(c) /\ Searching(c)
    BY DEF TakeWhole, SplitFront, SplitBack, Found
<1>2. /\ Whole(block) /\ middle \in DOMAIN block /\ x \in Nat /\ w \in DOMAIN block
      /\ block[w].free = TRUE /\ block[w].size >= x /\ w \notin Used(block)
    <2>1. call[c].at # "idle"
        BY <1>1 DEF Searching
    <2>2. Whole(block) /\ middle \in DOMAIN block /\ x \in Nat
        BY <2>1, Busy
    <2>3. w \in DOMAIN block /\ block[w].free /\ block[w].size >= x
        BY <1>1 DEF Found, Inv, Sought, Fits
    <2>4. block[w].free \in BOOLEAN
        BY <2>2, <2>3, BlockFacts DEF Whole
    <2> QED BY <2>2, <2>3, <2>4 DEF Used
<1>3. /\ w \in Nat /\ block[w].size \in Nat /\ End(block, w) = w + HeaderSize + block[w].size
      /\ \A u \in Used(block) : u # w /\ u \in DOMAIN block
    BY <1>2, BlockFacts DEF Whole, End, Used
<1> HIDE DEF w
<1>4. CASE TakeWhole(c)
    <2>1. block' = [block EXCEPT ![w].free = FALSE] /\ middle' = middle
        BY <1>4 DEF TakeWhole, w
    <2>2. Gives(block, w, block') /\ End(block', w) = End(block, w)
        BY <1>2, <2>1, TakeWholeBlock
    <2>3. w + HeaderSize + x <= End(block', w)
        BY <1>2, <1>3, <2>2, Numbers, SMT
    <2>4. Granting(c, w)
        BY <1>1, <1>2, <1>4, <2>1, <2>2, <2>3 DEF Granting, TakeWhole, Gives, w
    <2> QED BY <2>4
<1>5. CASE SplitFront(c)
    <2>1. /\ block' = Cut(block, w, x, FALSE, TRUE) /\ x + HeaderSize < block[w].size
          /\ middle' = MiddleAfterCut(c)
        BY <1>5 DEF SplitFront, Divides, Splits, w
    <2> DEFINE t == w + HeaderSize + x
    <2>2. x + HeaderSize <= block[w].size
        BY <1>2, <1>3, <2>1, Numbers, SMT
    <2>3. Gives(block, w, block') /\ t \in DOMAIN block' /\ End(block', w) = t
        <3>1. CanCut(block, w, x, t)
            BY <1>2, <2>2 DEF CanCut
        <3> HIDE DEF t, x
        <3>2. Gives(block, w, block') /\ Parted(block, w, t, block')
            BY <2>1, <3>1, CutLow
        <3> QED BY <3>2 DEF Parted
    <2>4. middle' \in DOMAIN block'
        BY <1>2, <2>1, <2>3 DEF MiddleAfterCut, Gives, w
    <2>5. t <= End(block', w)
        BY <1>2, <1>3, <2>3, Numbers, SMT
    <2>6. Granting(c, w)
        BY <1>1, <1>2, <1>3, <1>5, <2>3, <2>4, <2>5 DEF Granting, SplitFront, w
    <2> QED BY <2>6
<1>6. CASE SplitBack(c)
    <2> DEFINE s == Rest(c)
               t == w + HeaderSize + s
    <2>1. /\ block' = Cut(block, w, s, TRUE, FALSE) /\ x + HeaderSize < block[w].size
          /\ middle' = middle /\ s = block[w].size - x - HeaderSize
          /\ Answer(c, t + HeaderSize)
        BY <1>6 DEF SplitBack, Divides, Splits, Rest, w
    <2>2. s + HeaderSize <= block[w].size /\ s \in Nat
        BY <1>2, <1>3, <2>1, Numbers, SMT
    <2>3. Gives(block, t, block') /\ t \notin DOMAIN block /\ End(block', t) = End(block, w)
        <3>1. CanCut(block, w, s, t)
            BY <1>2, <2>2 DEF CanCut
        <3> HIDE DEF t, s
        <3>2. Gives(block, t, block') /\ Parted(block, w, t, block')
            BY <2>1, <3>1, CutHigh
        <3> QED BY <3>2 DEF Parted
    <2>4. t + HeaderSize + x <= End(block', t)
        <3>1. x \in Nat /\ s = block[w].size - x - HeaderSize /\ End(block', t) = End(block, w)
            BY <1>2, <2>1, <2>3
        <3> HIDE DEF s, x
        <3> QED BY <1>3, <3>1, Numbers, SMT
    <2>5. t \notin Used(block) /\ middle' \in DOMAIN block'
        BY <1>2, <2>1, <2>3 DEF Used, Gives
    <2>6. UNCHANGED <<head, saved, owned>>
        BY <1>6 DEF SplitBack
    <2> HIDE DEF t
    <2>7. Granting(c, t)
        BY <1>1, <1>2, <2>1, <2>3, <2>4, <2>5, <2>6 DEF Granting
    <2> QED BY <2>7
<1> QED BY <1>4, <1>5, <1>6

-----------------------------------------------------------------------------
(* Inv is preserved.                                                       *)

\* The answer of a call: the other calls stay as they are.
LEMMA AnswerFacts ==
  ASSUME Shape, NEW c \in Caller, NEW p \in Int, Answer(c, p)
  PROVE  /\ call' \in [Caller -> [at : Points, x : Nat, walker : Int, got : Int]]
         /\ call'[c].at = "done" /\ call'[c].got = p
         /\ \A d \in Caller \ {c} : call'[d] = call[d]
<1>1. "done" \in Points
    BY DEF Points
<1>2. call \in [Caller -> [at : Points, x : Nat, walker : Int, got : Int]]
    BY DEF Shape
<1>3. call' = [call EXCEPT ![c] = [[call[c] EXCEPT !.at = "done"] EXCEPT !.got = p]]
    BY <1>2 DEF Answer
<1> QED BY <1>1, <1>2, <1>3

\* Answering with a block that was free keeps Inv.
LEMMA GrantKeeps ==
  ASSUME Inv, NEW c \in Caller, NEW a, Granting(c, a)
  PROVE  Inv'
<1>1. /\ Whole(block) /\ block # << >> /\ head = 0 /\ middle \in DOMAIN block
      /\ \A d \in Caller \ {c} : call[d].at = "idle"
    <2>1. call[c].at # "idle"
        BY DEF Granting, Searching
    <2> QED BY <2>1, Busy
<1>2. /\ Whole(block') /\ DOMAIN block \subseteq DOMAIN block' /\ Used(block') = Used(block) \cup {a}
      /\ a \notin Used(block) /\ middle' \in DOMAIN block'
      /\ head' = head /\ saved' = saved /\ owned' = owned
    BY DEF Granting, Gives
<1>3. a \in DOMAIN block' /\ a \in Nat
    <2>1. a \in DOMAIN block'
        BY <1>2 DEF Used
    <2> QED BY <1>2, <2>1, BlockFacts DEF Whole
<1>4. a + HeaderSize \in Int /\ a + HeaderSize # Null
    BY <1>3, Numbers, SMT DEF Null
<1>5. /\ call' \in [Caller -> [at : Points, x : Nat, walker : Int, got : Int]]
      /\ call'[c].at = "done" /\ call'[c].got = a + HeaderSize
      /\ \A d \in Caller \ {c} : call'[d] = call[d]
    BY <1>4, AnswerFacts DEF Granting, Inv
<1>6. block' # << >>
    BY <1>3, NoBlocks
<1>7. Shape'
    BY <1>2, <1>5 DEF Inv, Shape
<1>8. Alone' /\ Formed' /\ SavedFits'
    <2>1. Alone'
        BY <1>1, <1>5 DEF Alone
    <2>2. Formed'
        BY <1>1, <1>2, <1>6 DEF Formed
    <2>3. SavedFits'
        BY <1>1, <1>2, <1>5, <1>6 DEF Inv, SavedFits, Quiet
    <2> QED BY <2>1, <2>2, <2>3
<1>9. /\ \A d \in Caller \ {c} : Given(d)' = Given(d)
      /\ Given(c)' = Given(c) \cup {a + HeaderSize}
    <2>1. \A d \in Caller \ {c} : Given(d)' = Given(d)
        BY <1>2, <1>5 DEF Given
    <2>2. Given(c) = owned[c]
        BY DEF Given, Granting, Searching
    <2> QED BY <1>2, <1>4, <1>5, <2>1, <2>2 DEF Given
<1>10. \A d \in Caller : a + HeaderSize \notin Given(d)
    <2> SUFFICES ASSUME NEW d \in Caller, a + HeaderSize \in Given(d) PROVE FALSE
        OBVIOUS
    <2>1. PICK e \in Used(block) : a + HeaderSize = e + HeaderSize
        BY DEF Inv, GivenUsed
    <2>2. e \in Nat
        BY <1>1, BlockFacts DEF Used, Whole
    <2>3. a = e
        BY <1>3, <2>1, <2>2, Numbers, SMT
    <2> QED BY <1>2, <2>3
<1>11. GivenUsed' /\ GivenOnce'
    <2>1. GivenUsed'
        BY <1>2, <1>9 DEF Inv, GivenUsed
    <2>2. GivenOnce'
        BY <1>9, <1>10 DEF Inv, GivenOnce
    <2> QED BY <2>1, <2>2
<1>12. UsedGiven'
    <2> SUFFICES ASSUME Frees => Region <= FreeLimit, NEW e \in Used(block')
                 PROVE  \E d \in Caller : e + HeaderSize \in Given(d)'
        BY DEF UsedGiven
    <2>1. CASE e = a
        BY <1>9, <2>1
    <2>2. CASE e \in Used(block)
        <3>1. PICK d \in Caller : e + HeaderSize \in Given(d)
            BY <2>2 DEF Inv, UsedGiven
        <3> QED BY <1>9, <3>1
    <2> QED BY <1>2, <2>1, <2>2
<1>13. Sought'
    BY <1>1, <1>5 DEF Sought, Searching
<1> QED BY <1>7, <1>8, <1>11, <1>12, <1>13 DEF Inv

\* A request that is refused: nothing is given.
LEMMA GiveUpKeeps ==
  ASSUME Inv, NEW c \in Caller, GiveUp(c)
  PROVE  Inv'
<1>1. /\ Whole(block) /\ block # << >> /\ head = 0 /\ middle \in DOMAIN block
      /\ \A d \in Caller \ {c} : call[d].at = "idle"
    <2>1. call[c].at # "idle"
        BY DEF GiveUp
    <2> QED BY <2>1, Busy
<1>2. UNCHANGED <<block, head, middle, saved, owned>>
    BY DEF GiveUp
<1>3. /\ call' \in [Caller -> [at : Points, x : Nat, walker : Int, got : Int]]
      /\ call'[c].at = "done" /\ call'[c].got = Null
      /\ \A d \in Caller \ {c} : call'[d] = call[d]
    <2>1. Null \in Int
        BY SMT DEF Null
    <2> QED BY <2>1, AnswerFacts DEF GiveUp, Inv
<1>4. \A d \in Caller : Given(d)' = Given(d)
    <2>1. Given(c) = owned[c]
        BY DEF Given, GiveUp
    <2> QED BY <1>2, <1>3, <2>1 DEF Given
<1>5. Shape' /\ Alone' /\ Formed' /\ SavedFits'
    <2>1. Shape'
        BY <1>2, <1>3 DEF Inv, Shape
    <2>2. Alone'
        BY <1>1, <1>3 DEF Alone
    <2>3. Formed'
        BY <1>1, <1>2 DEF Formed
    <2>4. SavedFits'
        BY <1>1, <1>2, <1>3 DEF Inv, SavedFits, Quiet
    <2> QED BY <2>1, <2>2, <2>3, <2>4
<1>6. GivenUsed' /\ GivenOnce' /\ UsedGiven'
    BY <1>2, <1>4 DEF Inv, GivenUsed, GivenOnce, UsedGiven
<1>7. Sought'
    BY <1>1, <1>3 DEF Sought, Searching
<1> QED BY <1>5, <1>6, <1>7 DEF Inv

\* What Advance and TurnLeft leave alone.
LEMMA SearchKeeps ==
  ASSUME Inv, NEW c \in Caller, Searching(c), Searching(c)',
         UNCHANGED <<block, head, middle, saved, owned>>,
         call' \in [Caller -> [at : Points, x : Nat, walker : Int, got : Int]],
         \A d \in Caller \ {c} : call'[d] = call[d]
  PROVE  Shape' /\ Alone' /\ Formed' /\ SavedFits' /\ GivenUsed' /\ GivenOnce' /\ UsedGiven'
<1>1. /\ Whole(block) /\ block # << >> /\ head = 0 /\ middle \in DOMAIN block
      /\ call[c].at # "idle" /\ call'[c].at # "idle"
      /\ \A d \in Caller \ {c} : call[d].at = "idle"
    <2>1. call[c].at # "idle" /\ call'[c].at # "idle"
        BY DEF Searching
    <2> QED BY <2>1, Busy
<1>2. \A d \in Caller : Given(d)' = Given(d)
    BY <1>1 DEF Given, Searching
<1>3. Shape'
    BY DEF Inv, Shape
<1>4. Alone' /\ Formed' /\ SavedFits'
    BY <1>1 DEF Inv, Alone, Formed, SavedFits, Quiet
<1>5. GivenUsed' /\ GivenOnce' /\ UsedGiven'
    BY <1>2 DEF Inv, GivenUsed, GivenOnce, UsedGiven
<1> QED BY <1>3, <1>4, <1>5

\* The search goes on to the next block, or to the one before.
LEMMA AdvanceKeeps ==
  ASSUME Inv, NEW c \in Caller, Advance(c)
  PROVE  Inv'
<1> DEFINE w == Walker(c)
           n == IF call[c].at = "left" THEN block[w].prev ELSE block[w].next
<1>1. Searching(c) /\ w # Null /\ ~Fits(block, w, call[c].x)
      /\ UNCHANGED <<block, head, middle, saved, owned>>
    BY DEF Advance, Found
<1>2. /\ TiledRegion(block) /\ w \in DOMAIN block /\ middle \in DOMAIN block /\ call[c].x \in Requests
      /\ \A d \in Caller \ {c} : call[d].at = "idle"
    <2>1. call[c].at # "idle"
        BY <1>1 DEF Searching
    <2> QED BY <1>1, <2>1, Busy DEF Inv, Sought, Whole
<1>3. /\ w \in Nat /\ n \in Int /\ n \in DOMAIN block \cup {Null}
    BY <1>2, BlockFacts, Numbers, SMT DEF Null
<1>4. /\ call' \in [Caller -> [at : Points, x : Nat, walker : Int, got : Int]]
      /\ call'[c].at = call[c].at /\ call'[c].x = call[c].x /\ call'[c].walker = n
      /\ \A d \in Caller \ {c} : call'[d] = call[d]
    <2>1. call \in [Caller -> [at : Points, x : Nat, walker : Int, got : Int]]
        BY DEF Inv, Shape
    <2>2. call' = [call EXCEPT ![c].walker = n]
        BY DEF Advance, Walker
    <2> HIDE DEF n
    <2> QED BY <1>3, <2>1, <2>2
<1>5. Searching(c)'
    BY <1>1, <1>4 DEF Searching
<1>6. \A a \in DOMAIN block : Passed(c, a)' => a = w \/ Passed(c, a)
    <2> SUFFICES ASSUME NEW a \in DOMAIN block, Passed(c, a)', a # w PROVE Passed(c, a)
        OBVIOUS
    <2>1. a \in Nat /\ End(block, a) \in Nat /\ End(block, w) \in Nat
          /\ (a < w => End(block, a) <= w) /\ (w < a => End(block, w) <= a)
        BY <1>2, BlockFacts DEF TiledRegion, Tiled, NoOverlap
    <2>2. CASE call[c].at = "left"
        <3>1. a > middle \/ n = Null \/ a > n
            BY <1>1, <1>4, <2>2 DEF Passed, Walker
        <3>2. n = block[w].prev
            BY <2>2
        <3>3. CASE n = Null
            <4>1. w = 0
                BY <1>2, <3>2, <3>3, BlockFacts
            <4>2. a > w
                BY <2>1, <4>1, SMT
            <4> QED BY <2>2, <4>2 DEF Passed
        <3>4. CASE n # Null /\ a > n
            <4>1. n \in DOMAIN block /\ n \in Nat /\ block[n].next = w
                BY <1>2, <3>2, <3>4, BlockFacts
            <4>2. End(block, n) = w /\ (n < a => End(block, n) <= a)
                BY <1>2, <1>3, <4>1, BlockFacts, Numbers DEF TiledRegion, Tiled, NoOverlap
            <4>3. a > w
                BY <1>3, <2>1, <3>4, <4>1, <4>2, SMT
            <4> QED BY <2>2, <4>3 DEF Passed
        <3>5. CASE a > middle
            BY <2>2, <3>5 DEF Passed
        <3> QED BY <3>1, <3>3, <3>4, <3>5
    <2>3. CASE call[c].at # "left"
        <3>1. /\ n = Null \/ a < n
              /\ call[c].at = "small" \/ (call[c].at = "right" /\ a > middle)
            BY <1>1, <1>4, <2>3 DEF Passed, Walker
        <3>2. n = block[w].next
            BY <2>3
        <3>3. a < End(block, w)
            <4>1. CASE n = Null
                <5>1. End(block, w) = Region
                    BY <1>2, <3>2, <4>1, BlockFacts
                <5>2. a \in Addr
                    BY <1>2 DEF TiledRegion, Blocks
                <5> QED BY <5>1, <5>2, Numbers, SMT DEF Addr
            <4>2. CASE n # Null
                BY <1>2, <3>1, <3>2, <4>2, BlockFacts
            <4> QED BY <4>1, <4>2
        <3>4. a < w
            BY <1>3, <2>1, <3>3, SMT
        <3> QED BY <3>1, <3>4 DEF Passed
    <2> QED BY <2>2, <2>3
<1>7. Sought'
    <2> SUFFICES ASSUME NEW d \in Caller, Searching(d)'
                 PROVE  /\ Walker(d)' \in DOMAIN block \cup {Null}
                        /\ call'[d].x \in Requests
                        /\ \A a \in DOMAIN block : Passed(d, a)' => ~Fits(block, a, call'[d].x)
        BY <1>1 DEF Sought
    <2>1. d = c
        BY <1>2, <1>4 DEF Searching
    <2>2. \A a \in DOMAIN block : Passed(c, a) => ~Fits(block, a, call[c].x)
        BY <1>1 DEF Inv, Sought
    <2>3. \A a \in DOMAIN block : Passed(c, a)' => ~Fits(block, a, call[c].x)
        BY <1>1, <1>6, <2>2
    <2> QED BY <1>2, <1>3, <1>4, <2>1, <2>3 DEF Walker
<1> QED BY <1>1, <1>4, <1>5, <1>7, SearchKeeps DEF Inv

\* Nothing to the right of the middle fits, and now it is sought to the left.
LEMMA TurnLeftKeeps ==
  ASSUME Inv, NEW c \in Caller, TurnLeft(c)
  PROVE  Inv'
<1>1. /\ call[c].at = "right" /\ Walker(c) = Null /\ Searching(c)
      /\ UNCHANGED <<block, head, middle, saved, owned>>
    BY DEF TurnLeft, Searching
<1>2. /\ TiledRegion(block) /\ middle \in DOMAIN block /\ call[c].x \in Requests
      /\ \A d \in Caller \ {c} : call[d].at = "idle"
    BY <1>1, Busy DEF Inv, Sought, Whole
<1>3. middle \in Nat /\ middle \in Int /\ middle # Null
    BY <1>2, BlockFacts, Numbers
<1>4. /\ call' \in [Caller -> [at : Points, x : Nat, walker : Int, got : Int]]
      /\ call'[c].at = "left" /\ call'[c].x = call[c].x /\ call'[c].walker = middle
      /\ \A d \in Caller \ {c} : call'[d] = call[d]
    <2>1. call \in [Caller -> [at : Points, x : Nat, walker : Int, got : Int]]
        BY DEF Inv, Shape
    <2>2. call' = [call EXCEPT ![c] = [[call[c] EXCEPT !.at = "left"] EXCEPT !.walker = middle]]
        BY <2>1 DEF TurnLeft
    <2>3. "left" \in Points
        BY DEF Points
    <2> QED BY <1>3, <2>1, <2>2, <2>3
<1>5. Searching(c)'
    BY <1>4 DEF Searching
<1>6. \A a \in DOMAIN block : Passed(c, a)' => Passed(c, a)
    BY <1>1, <1>3, <1>4 DEF Passed, Walker
<1>7. Sought'
    <2> SUFFICES ASSUME NEW d \in Caller, Searching(d)'
                 PROVE  /\ Walker(d)' \in DOMAIN block \cup {Null}
                        /\ call'[d].x \in Requests
                        /\ \A a \in DOMAIN block : Passed(d, a)' => ~Fits(block, a, call'[d].x)
        BY <1>1 DEF Sought
    <2>1. d = c
        BY <1>2, <1>4 DEF Searching
    <2>2. \A a \in DOMAIN block : Passed(c, a) => ~Fits(block, a, call[c].x)
        BY <1>1 DEF Inv, Sought
    <2> QED BY <1>2, <1>4, <1>6, <2>1, <2>2 DEF Walker
<1> QED BY <1>1, <1>4, <1>5, <1>7, SearchKeeps DEF Inv

\* A call begins when nobody is in the heap; the first one makes the region one
\* free block.
LEMMA EnterKeeps ==
  ASSUME Inv, Interruptible = FALSE, NEW c \in Caller, Enter(c)
  PROVE  Inv' /\ Used(block') = Used(block) /\ \A u \in Used(block) : End(block', u) = End(block, u)
<1>1. Quiet /\ saved' = saved /\ owned' = owned
    BY DEF Enter, Admitted, Quiet
<1>2. /\ Whole(block') /\ block' # << >> /\ head' = 0 /\ middle' \in DOMAIN block'
      /\ Used(block') = Used(block) /\ \A u \in Used(block) : End(block', u) = End(block, u)
      /\ saved.head = 0 => saved.middle \in DOMAIN block'
    <2>1. CASE saved.head = Null
        <3>1. block = << >>
            BY <1>1, <2>1, AtRest
        <3>2. /\ block' = [a \in DOMAIN block \cup {0} |-> IF a = 0 THEN FirstBlock ELSE block[a]]
              /\ head' = 0 /\ middle' = 0
            BY <2>1 DEF Enter
        <3>3. DOMAIN block' = {0} /\ block'[0] = FirstBlock
            BY <3>1, <3>2, NoBlocks
        <3>4. Whole(block') /\ Used(block') = {}
            BY <3>3, FirstWhole
        <3>5. Used(block) = {}
            BY <3>1, NoBlocks
        <3>6. saved.head # 0
            BY <3>1 DEF Inv, SavedFits
        <3> QED BY <3>2, <3>3, <3>4, <3>5, <3>6, NoBlocks
    <2>2. CASE saved.head # Null
        <3>1. block' = block /\ head' = saved.head /\ middle' = saved.middle
            BY <2>2 DEF Enter
        <3> QED BY <1>1, <2>2, <3>1, AtRest
    <2> QED BY <2>1, <2>2
<1>3. PICK x \in Requests : call' = [call EXCEPT ![c] = Start(x, block', head', middle')]
    BY DEF Enter
<1>4. x \in Nat
    BY MallocAssumption
<1>5. middle' \in Nat /\ block'[middle'].next \in Int
      /\ block'[middle'].next \in DOMAIN block' \cup {Null}
    BY <1>2, BlockFacts, SMT DEF Whole, Null
<1>6. /\ call' \in [Caller -> [at : Points, x : Nat, walker : Int, got : Int]]
      /\ call'[c] = Start(x, block', head', middle')
      /\ \A d \in Caller \ {c} : call'[d] = call[d]
    <2>1. call \in [Caller -> [at : Points, x : Nat, walker : Int, got : Int]]
        BY DEF Inv, Shape
    <2>2. "small" \in Points /\ "right" \in Points /\ Null \in Int /\ 0 \in Int
        BY SMT DEF Points, Null
    <2>3. Start(x, block', head', middle') \in [at : Points, x : Nat, walker : Int, got : Int]
        BY <1>2, <1>4, <1>5, <2>2 DEF Start
    <2> HIDE DEF Start
    <2> QED BY <1>3, <2>1, <2>3
<1>7. /\ call'[c].x = x /\ call'[c].at \in {"small", "right"}
      /\ call'[c].at = "small" => call'[c].walker = 0
      /\ call'[c].at = "right" => call'[c].walker = block'[middle'].next
    BY <1>2, <1>6 DEF Start
<1>8. Shape'
    BY <1>1, <1>6 DEF Inv, Shape
<1>9. Alone'
    BY <1>1, <1>6 DEF Alone, Quiet
<1>10. Formed'
    BY <1>2 DEF Formed
<1>11. ~Quiet'
    BY <1>7 DEF Quiet
<1>12. SavedFits'
    BY <1>1, <1>2, <1>11 DEF Inv, SavedFits
<1>13. \A d \in Caller : Given(d)' = Given(d)
    BY <1>1, <1>6, <1>7 DEF Given, Quiet
<1>14. GivenUsed' /\ GivenOnce' /\ UsedGiven'
    BY <1>2, <1>13 DEF Inv, GivenUsed, GivenOnce, UsedGiven
<1>15. Sought'
    <2> SUFFICES ASSUME NEW d \in Caller, Searching(d)'
                 PROVE  /\ Walker(d)' \in DOMAIN block' \cup {Null}
                        /\ call'[d].x \in Requests
                        /\ \A a \in DOMAIN block' : ~Passed(d, a)'
        BY DEF Sought
    <2>1. d = c
        BY <1>1, <1>6 DEF Searching, Quiet
    <2>2. TiledRegion(block') /\ 0 \in DOMAIN block'
        BY <1>2 DEF Whole, TiledRegion, Tiled
    <2>3. \A a \in DOMAIN block' : ~Passed(c, a)'
        <3> SUFFICES ASSUME NEW a \in DOMAIN block', Passed(c, a)' PROVE FALSE
            OBVIOUS
        <3>1. a \in Nat /\ a < Region /\ End(block', middle') \in Nat
              /\ (middle' < a => End(block', middle') <= a)
            <4>1. a \in Addr
                BY <2>2 DEF TiledRegion, Blocks
            <4>2. a \in Nat /\ a < Region
                BY <4>1, Numbers, SMT DEF Addr
            <4> QED BY <1>2, <2>2, <4>2, BlockFacts DEF TiledRegion, Tiled, NoOverlap
        <3>2. CASE call'[c].at = "small"
            <4>1. call'[c].walker = Null \/ a < call'[c].walker
                BY <3>2 DEF Passed, Walker
            <4> QED BY <1>7, <3>1, <3>2, <4>1, Numbers, SMT DEF Null
        <3>3. CASE call'[c].at = "right"
            <4>1. a > middle' /\ (call'[c].walker = Null \/ a < call'[c].walker)
                BY <3>3 DEF Passed, Walker
            <4>2. /\ block'[middle'].next # Null => block'[middle'].next = End(block', middle')
                  /\ block'[middle'].next = Null => End(block', middle') = Region
                BY <1>2, <2>2, BlockFacts
            <4>3. End(block', middle') <= a
                BY <1>5, <3>1, <4>1, SMT
            <4>4. a < End(block', middle')
                BY <1>7, <3>1, <3>3, <4>1, <4>2
            <4> QED BY <3>1, <4>3, <4>4, SMT
        <3> QED BY <1>7, <3>2, <3>3
    <2> QED BY <1>2, <1>5, <1>7, <2>1, <2>2, <2>3 DEF Walker
<1> QED BY <1>2, <1>8, <1>9, <1>10, <1>12, <1>14, <1>15 DEF Inv

\* A call returns: its answer is now owned, head and middle are saved.
LEMMA LeaveKeeps ==
  ASSUME Inv, NEW c \in Caller, Leave(c)
  PROVE  Inv'
<1>1. /\ call[c].at = "done" /\ block' = block /\ head' = head /\ middle' = middle
      /\ saved' = [head |-> head, middle |-> middle, free_page_mem |-> free_mem_count(block)]
      /\ owned' = [owned EXCEPT ![c] = @ \cup ({call[c].got} \ {Null})]
      /\ call' = [call EXCEPT ![c] = Idle]
    BY DEF Leave
<1>2. /\ Whole(block) /\ block # << >> /\ head = 0 /\ middle \in DOMAIN block
      /\ \A d \in Caller \ {c} : call[d].at = "idle"
    BY <1>1, Busy
<1>3. saved'.head = head /\ saved'.middle = middle
      /\ saved' = [head |-> saved'.head, middle |-> saved'.middle, free_page_mem |-> saved'.free_page_mem]
    BY <1>1
<1>4. Given(c) \subseteq Nat /\ Given(c) = owned[c] \cup ({call[c].got} \ {Null})
    <2>1. \A a \in Used(block) : a + HeaderSize \in Nat
        <3> TAKE a \in Used(block)
        <3>1. a \in Nat
            BY <1>2, BlockFacts DEF Used, Whole
        <3> QED BY <3>1, Numbers, SMT
    <2> QED BY <1>1, <2>1 DEF Inv, GivenUsed, Given
<1>5. /\ owned' \in [Caller -> SUBSET Nat] /\ owned'[c] = Given(c)
      /\ \A d \in Caller \ {c} : owned'[d] = owned[d]
    <2>1. owned \in [Caller -> SUBSET Nat]
        BY DEF Inv, Shape
    <2> QED BY <1>1, <1>4, <2>1
<1>6. /\ call' \in [Caller -> [at : Points, x : Nat, walker : Int, got : Int]]
      /\ call'[c].at = "idle" /\ \A d \in Caller \ {c} : call'[d] = call[d]
    <2>1. call \in [Caller -> [at : Points, x : Nat, walker : Int, got : Int]]
        BY DEF Inv, Shape
    <2>2. Idle \in [at : Points, x : Nat, walker : Int, got : Int] /\ Idle.at = "idle"
        BY SMT DEF Idle, Points, Null
    <2> QED BY <1>1, <2>1, <2>2
<1>7. Shape' /\ Alone' /\ Formed'
    <2>1. Shape'
        BY <1>3, <1>5, <1>6 DEF Shape
    <2>2. Alone' /\ Formed'
        BY <1>1, <1>2, <1>6 DEF Alone, Formed
    <2> QED BY <2>1, <2>2
<1>8. SavedFits'
    BY <1>1, <1>2, <1>3, Numbers, SMT DEF SavedFits, Null
<1>9. \A d \in Caller : Given(d)' = Given(d)
    BY <1>2, <1>5, <1>6 DEF Given
<1>10. GivenUsed' /\ GivenOnce' /\ UsedGiven'
    BY <1>1, <1>9 DEF Inv, GivenUsed, GivenOnce, UsedGiven
<1>11. Sought'
    BY <1>2, <1>6 DEF Sought, Searching
<1> QED BY <1>7, <1>8, <1>10, <1>11 DEF Inv

\* From b to d block u was released.
Releases(b, u, d) ==
  /\ Whole(d) /\ Used(d) = Used(b) \ {u} /\ u \in Used(b)
  /\ \A v \in Used(d) : End(d, v) = End(b, v)

\* A pointer is freed, or refused because myfree takes it to be out of bounds.
LEMMA FreeKeeps ==
  ASSUME Inv, Interruptible = FALSE, NEW c \in Caller, Free(c)
  PROVE  Inv' /\ call' = call /\ (block' = block \/ \E f : Releases(block, f, block'))
<1>1. Quiet /\ call' = call
    BY DEF Free, Admitted, Quiet
<1>2. PICK p \in owned[c] :
        /\ owned' = [owned EXCEPT ![c] = @ \ {p}]
        /\ head' = saved.head
        /\ IF OutOfBounds(p)
           THEN /\ middle' = saved.middle
                /\ saved' = [saved EXCEPT !.free_page_mem = free_mem_count(block)]
                /\ UNCHANGED block
           ELSE /\ block' = Freed(p - HeaderSize)
                /\ middle' = MiddleAfter(p - HeaderSize, saved.middle)
                /\ saved' = [head |-> saved.head, middle |-> middle',
                             free_page_mem |-> free_mem_count(block')]
    BY DEF Free
<1>3. \A d \in Caller : Given(d) = owned[d]
    BY <1>1, AtRest
<1>4. PICK f \in Used(block) : p = f + HeaderSize
    BY <1>2, <1>3 DEF Inv, GivenUsed
<1>5. /\ Whole(block) /\ block # << >> /\ saved.head = 0 /\ saved.middle \in DOMAIN block
    <2>1. block # << >>
        BY <1>4, NoBlocks
    <2> QED BY <1>1, <2>1, AtRest
<1>6. f \in Nat /\ f + HeaderSize <= Region /\ p - HeaderSize = f
    <2>1. f \in Nat /\ End(block, f) <= Region /\ block[f].size \in Nat
        BY <1>4, <1>5, BlockFacts DEF Used, Whole
    <2> QED BY <1>4, <2>1, Numbers, SMT DEF End
<1>7. IF OutOfBounds(p)
      THEN block' = block /\ middle' \in DOMAIN block'
      ELSE Releases(block, f, block') /\ middle' \in DOMAIN block'
    <2>1. CASE OutOfBounds(p)
        BY <1>2, <1>5, <2>1
    <2>2. CASE ~OutOfBounds(p)
        <3>1. block' = Freed(f) /\ middle' = MiddleAfter(f, saved.middle)
            BY <1>2, <1>6, <2>2
        <3>2. /\ Whole(block') /\ Used(block') = Used(block) \ {f} /\ middle' \in DOMAIN block'
              /\ \A a \in Used(block') : End(block', a) = End(block, a)
            BY <1>4, <1>5, <3>1, FreedWhole
        <3> QED BY <1>4, <2>2, <3>2 DEF Releases
    <2> QED BY <2>1, <2>2
<1>8. /\ Whole(block') /\ block' # << >> /\ middle' \in DOMAIN block' /\ head' = 0
      /\ Used(block') = IF OutOfBounds(p) THEN Used(block) ELSE Used(block) \ {f}
    <2>1. Whole(block')
        BY <1>5, <1>7 DEF Releases
    <2>2. block' # << >>
        BY <1>7, NoBlocks
    <2> QED BY <1>2, <1>5, <1>7, <2>1, <2>2 DEF Releases
<1>9. saved'.head = 0 /\ saved'.middle = middle'
      /\ saved' = [head |-> saved'.head, middle |-> saved'.middle, free_page_mem |-> saved'.free_page_mem]
    <2>1. saved = [head |-> saved.head, middle |-> saved.middle, free_page_mem |-> saved.free_page_mem]
        BY DEF Inv, Shape
    <2>2. CASE OutOfBounds(p)
        <3>1. saved' = [head |-> saved.head, middle |-> saved.middle,
                        free_page_mem |-> free_mem_count(block)]
            BY <1>2, <2>1, <2>2
        <3> QED BY <1>2, <1>5, <2>2, <3>1
    <2>3. CASE ~OutOfBounds(p)
        BY <1>2, <1>5, <2>3
    <2> QED BY <2>2, <2>3
<1>10. /\ owned' \in [Caller -> SUBSET Nat] /\ owned'[c] = owned[c] \ {p}
       /\ \A d \in Caller \ {c} : owned'[d] = owned[d]
    <2>1. owned \in [Caller -> SUBSET Nat]
        BY DEF Inv, Shape
    <2> QED BY <1>2, <2>1
<1>11. \A d \in Caller : Given(d)' = owned'[d]
    BY <1>1 DEF Given, Quiet
<1>12. Shape' /\ Alone' /\ Formed' /\ SavedFits'
    <2>1. Shape'
        BY <1>1, <1>9, <1>10 DEF Inv, Shape
    <2>2. Alone' /\ Formed'
        BY <1>1, <1>8 DEF Inv, Alone, Formed
    <2>3. SavedFits'
        BY <1>8, <1>9, Numbers, SMT DEF SavedFits, Null
    <2> QED BY <2>1, <2>2, <2>3
<1>13. GivenOnce'
    BY <1>3, <1>10, <1>11 DEF Inv, GivenOnce
<1>14. GivenUsed'
    <2> SUFFICES ASSUME NEW d \in Caller, NEW q \in owned'[d]
                 PROVE  \E a \in Used(block') : q = a + HeaderSize
        BY <1>11 DEF GivenUsed
    <2>1. q \in owned[d] /\ q # p
        <3>1. CASE d = c
            BY <1>10, <3>1
        <3>2. CASE d # c
            <4>1. owned[c] \cap owned[d] = {}
                BY <1>3, <3>2 DEF Inv, GivenOnce
            <4> QED BY <1>10, <3>2, <4>1
        <3> QED BY <3>1, <3>2
    <2>2. PICK a \in Used(block) : q = a + HeaderSize
        BY <1>3, <2>1 DEF Inv, GivenUsed
    <2> QED BY <1>4, <1>8, <2>1, <2>2
<1>15. UsedGiven'
    <2> SUFFICES ASSUME Frees => Region <= FreeLimit, NEW a \in Used(block')
                 PROVE  \E d \in Caller : a + HeaderSize \in owned'[d]
        BY <1>11 DEF UsedGiven
    <2>1. ~OutOfBounds(p)
        <3>1. Region <= FreeLimit
            BY DEF Free
        <3>2. FreeLimit \in Nat
            BY MallocAssumption
        <3> QED BY <1>4, <1>5, <1>6, <3>1, <3>2, Numbers, SMT DEF OutOfBounds
    <2>2. a \in Used(block) /\ a # f
        BY <1>8, <2>1
    <2>3. a + HeaderSize # p
        <3>1. a \in Nat
            BY <1>5, <2>2, BlockFacts DEF Used, Whole
        <3> QED BY <1>4, <1>6, <2>2, <3>1, Numbers, SMT
    <2>4. PICK d \in Caller : a + HeaderSize \in owned[d]
        BY <1>3, <2>2 DEF Inv, UsedGiven
    <2> QED BY <1>10, <2>3, <2>4
<1>16. Sought'
    BY <1>1 DEF Sought, Searching, Quiet
<1> QED BY <1>1, <1>7, <1>12, <1>13, <1>14, <1>15, <1>16 DEF Inv

\* Inv is preserved by every step, if nobody comes in during a call.
LEMMA InvStep == ASSUME Interruptible = FALSE PROVE Inv /\ [Next]_vars => Inv'
<1> SUFFICES ASSUME Inv, [Next]_vars PROVE Inv'
    OBVIOUS
<1>1. CASE UNCHANGED vars
    <2>1. /\ block' = block /\ head' = head /\ middle' = middle /\ saved' = saved
          /\ call' = call /\ owned' = owned
        BY <1>1 DEF vars
    <2>2. \A c \in Caller : Given(c)' = Given(c)
        BY <2>1 DEF Given
    <2>3. Shape' /\ Alone' /\ Formed' /\ SavedFits'
        <3>1. Shape' /\ Alone'
            BY <2>1 DEF Inv, Shape, Alone
        <3>2. Formed' /\ SavedFits'
            BY <2>1 DEF Inv, Formed, SavedFits, Quiet
        <3> QED BY <3>1, <3>2
    <2>4. GivenUsed' /\ GivenOnce' /\ UsedGiven'
        BY <2>1, <2>2 DEF Inv, GivenUsed, GivenOnce, UsedGiven
    <2>5. Sought'
        BY <2>1 DEF Inv, Sought, Passed, Searching, Walker
    <2> QED BY <2>3, <2>4, <2>5 DEF Inv
<1>2. ASSUME NEW c \in Caller, Enter(c) PROVE Inv'
    BY <1>2, EnterKeeps
<1>3. ASSUME NEW c \in Caller, Free(c) PROVE Inv'
    BY <1>3, FreeKeeps
<1>4. ASSUME NEW c \in Caller, Advance(c) PROVE Inv'
    BY <1>4, AdvanceKeeps
<1>5. ASSUME NEW c \in Caller, TurnLeft(c) PROVE Inv'
    BY <1>5, TurnLeftKeeps
<1>6. ASSUME NEW c \in Caller, TakeWhole(c) \/ SplitFront(c) \/ SplitBack(c) PROVE Inv'
    <2>1. PICK a : Granting(c, a)
        BY <1>6, GrantStep
    <2> QED BY <2>1, GrantKeeps
<1>7. ASSUME NEW c \in Caller, GiveUp(c) PROVE Inv'
    BY <1>7, GiveUpKeeps
<1>8. ASSUME NEW c \in Caller, Leave(c) PROVE Inv'
    BY <1>8, LeaveKeeps
<1> QED BY <1>1, <1>2, <1>3, <1>4, <1>5, <1>6, <1>7, <1>8 DEF Next, Step

\* Inv holds in every run.
THEOREM InvHolds == ASSUME Interruptible = FALSE PROVE Spec => []Inv
<1>1. Init => Inv
    BY InvInit
<1>2. Inv /\ [Next]_vars => Inv'
    BY InvStep
<1> QED BY <1>1, <1>2, PTL DEF Spec

-----------------------------------------------------------------------------
(* Theorems.                                                               *)

\* The blocks tile the region and are linked in both directions, whatever was
\* split and coalesced, for every size of region and header and all requests.
THEOREM TilesHolds == ASSUME Interruptible = FALSE PROVE Spec => []Tiles
<1>1. Inv => Tiles
    BY DEF Inv, Formed, Tiles, Whole, TiledRegion
<1> QED BY <1>1, InvHolds, PTL

\* Two free blocks are never neighbours: myfree merges with both sides.
THEOREM CoalescedHolds == ASSUME Interruptible = FALSE PROVE Spec => []Coalesced
<1>1. Inv => Coalesced
    BY NoBlocks DEF Inv, Formed, Coalesced, Apart, Whole
<1> QED BY <1>1, InvHolds, PTL

\* The middle pointer never points into a block that was merged away.
THEOREM MiddleInListHolds == ASSUME Interruptible = FALSE PROVE Spec => []MiddleInList
<1>1. Inv => MiddleInList
    BY DEF Inv, Formed, SavedFits, MiddleInList
<1> QED BY <1>1, InvHolds, PTL

\* What the threads own is what the heap has given away, so long as myfree's
\* bound of 4999 bytes from the head covers the region whose pointers it is given.
THEOREM OwnersHolds ==
  ASSUME Interruptible = FALSE, Frees => Region <= FreeLimit
  PROVE  Spec => []Owners
<1>1. Inv => Owners
    <2> SUFFICES ASSUME Inv, Quiet
                 PROVE  UNION {owned[c] : c \in Caller} = {a + HeaderSize : a \in Used(block)}
        BY DEF Owners, Quiet, Used
    <2>1. \A c \in Caller : Given(c) = owned[c]
        BY AtRest
    <2>2. \A c \in Caller : \A p \in owned[c] : \E a \in Used(block) : p = a + HeaderSize
        BY <2>1 DEF Inv, GivenUsed
    <2>3. \A a \in Used(block) : \E c \in Caller : a + HeaderSize \in owned[c]
        BY <2>1 DEF Inv, UsedGiven
    <2> QED BY <2>2, <2>3
<1> QED BY <1>1, InvHolds, PTL

\* No two calls are given the same memory when nobody comes in during a call, as
\* mem_flag ensures for myallocate (shalloc has no such flag).
THEOREM OwnedOnceHolds == ASSUME Interruptible = FALSE PROVE Spec => []OwnedOnce
<1>1. Inv => OwnedOnce
    <2>1. \A c \in Caller : owned[c] \subseteq Given(c)
        BY DEF Given
    <2> QED BY <2>1 DEF Inv, GivenOnce, OwnedOnce
<1> QED BY <1>1, InvHolds, PTL

-----------------------------------------------------------------------------
(* The heap implements the module Heap.                                    *)

\* The places in use, as the refinement mapping has them.
Live(b) == {<<a, End(b, a)>> : a \in Used(b)}

\* The requests that are not yet answered.
Pending == [c \in Caller |-> IF Searching(c) THEN call[c].x ELSE None]

\* If no free block fits, there is no room: two free blocks are never neighbours,
\* so that a free place lies in one block.
LEMMA NoRoom ==
  ASSUME Whole(block), NEW x \in Nat, \A a \in DOMAIN block : ~Fits(block, a, x)
  PROVE  Promise!Room(x) = {}
<1> SUFFICES ASSUME NEW e \in Promise!Room(x) PROVE FALSE
    OBVIOUS
<1>1. /\ e[1] \in Nat /\ e[2] \in Nat /\ e[2] <= Region /\ e[1] < e[2]
      /\ e[2] - e[1] >= HeaderSize + x
      /\ \A u \in Used(block) : End(block, u) <= e[1] \/ e[2] <= u
    <2>1. /\ e \in (0 .. Region) \X (0 .. Region) /\ e[1] < e[2]
          /\ e[2] - e[1] >= HeaderSize + x
          /\ \A d \in Live(block) : d[2] <= e[1] \/ e[2] <= d[1]
        BY DEF Promise!Room, Promise!Place, Promise!Apart, Live, Used
    <2>2. e[1] \in Nat /\ e[2] \in Nat /\ e[2] <= Region
        BY <2>1, Numbers, SMT
    <2>3. \A u \in Used(block) : End(block, u) <= e[1] \/ e[2] <= u
        <3> TAKE u \in Used(block)
        <3>1. <<u, End(block, u)>> \in Live(block)
            BY DEF Live
        <3> QED BY <2>1, <3>1
    <2> QED BY <2>1, <2>2, <2>3
<1>2. PICK a \in DOMAIN block : a <= e[1] /\ e[1] < End(block, a)
    <2>1. e[1] \in Addr
        BY <1>1, Numbers, SMT DEF Addr
    <2> QED BY <2>1 DEF Whole, Covered
<1>3. /\ a \in Nat /\ block[a].size \in Nat /\ End(block, a) \in Nat /\ End(block, a) <= Region
      /\ block[a].next = Null \/ (block[a].next \in DOMAIN block /\ block[a].next = End(block, a))
      /\ block[a].next = Null => End(block, a) = Region
    BY BlockFacts DEF Whole
<1>4. a \notin Used(block)
    BY <1>1, <1>2, <1>3, SMT
<1>5. block[a].free
    BY <1>4 DEF Used
<1>6. End(block, a) < e[2]
    <2>1. ~(block[a].size >= x)
        BY <1>5 DEF Fits
    <2> QED BY <1>1, <1>2, <1>3, <2>1, Numbers, SMT DEF End
<1>7. block[a].next \in DOMAIN block /\ block[a].next = End(block, a)
    BY <1>1, <1>3, <1>6, SMT
<1>8. block[a].next \in Used(block)
    <2>1. ~block[block[a].next].free
        BY <1>3, <1>5, <1>7, Numbers DEF Whole, Apart, NextFree
    <2> QED BY <1>7, <2>1 DEF Used
<1>9. End(block, block[a].next) \in Nat /\ End(block, block[a].next) > block[a].next
    BY <1>7, BlockFacts DEF Whole
<1> QED BY <1>1, <1>2, <1>3, <1>6, <1>7, <1>8, <1>9, SMT

\* A block that is given away is a place for its request.
LEMMA InRoom ==
  ASSUME Inv, NEW c \in Caller, NEW a, Granting(c, a)
  PROVE  <<a, End(block', a)>> \in Promise!Room(call[c].x) /\ Live(block') = Live(block) \cup {<<a, End(block', a)>>}
<1> DEFINE z == End(block', a)
           x == call[c].x
<1>1. /\ Whole(block') /\ Used(block') = Used(block) \cup {a} /\ a \notin Used(block)
      /\ \A v \in Used(block) : End(block', v) = End(block, v)
      /\ a + HeaderSize + x <= z
    BY DEF Granting, Gives
<1>2. x \in Nat
    BY DEF Inv, Shape
<1>3. a \in DOMAIN block' /\ a \in Nat /\ z \in Nat /\ z <= Region /\ a < z
    <2>1. a \in DOMAIN block'
        BY <1>1 DEF Used
    <2> QED BY <1>1, <2>1, BlockFacts DEF Whole
<1>4. \A u \in Used(block) : End(block, u) <= a \/ z <= u
    <2> TAKE u \in Used(block)
    <2>1. u \in DOMAIN block' /\ u # a
        BY <1>1 DEF Used
    <2>2. u \in Nat /\ (u < a => End(block', u) <= a) /\ (a < u => z <= u)
        BY <1>1, <1>3, <2>1, BlockFacts DEF Whole, TiledRegion, Tiled, NoOverlap
    <2> HIDE DEF z
    <2>3. u < a \/ a < u
        BY <1>3, <2>1, <2>2, SMT
    <2> QED BY <1>1, <2>2, <2>3
<1> HIDE DEF z, x
<1>5. <<a, z>> \in Promise!Place /\ z - a >= HeaderSize + x
    BY <1>1, <1>2, <1>3, Numbers, SMT DEF Promise!Place
<1>6. \A d \in Live(block) : d[2] <= a \/ z <= d[1]
    BY <1>4 DEF Live
<1>7. <<a, z>> \in Promise!Room(x)
    BY <1>5, <1>6 DEF Promise!Room, Promise!Apart, Live, Used
<1>8. Live(block') = Live(block) \cup {<<a, z>>}
    BY <1>1 DEF Live, z
<1> QED BY <1>7, <1>8 DEF z, x

\* The step of call c alone that changes the requests.
LEMMA PendingStep ==
  ASSUME NEW c \in Caller, \A d \in Caller \ {c} : call'[d] = call[d]
  PROVE  Pending' = [Pending EXCEPT ![c] = IF Searching(c)' THEN call'[c].x ELSE None]
<1>1. \A d \in Caller \ {c} : (IF Searching(d)' THEN call'[d].x ELSE None)
                             = IF Searching(d) THEN call[d].x ELSE None
    BY DEF Searching
<1> QED BY <1>1 DEF Pending

\* What is in use and what is pending, in terms of the module Heap.
LEMMA Mapped ==
  Promise!Next <=>
       \/ \E c \in Caller :
            \/ /\ Pending[c] = None
               /\ \E x \in Requests : Pending' = [Pending EXCEPT ![c] = x]
               /\ Live(block)' = Live(block)
            \/ /\ Pending[c] # None
               /\ \E e \in Promise!Room(Pending[c]) : Live(block)' = Live(block) \cup {e}
               /\ Pending' = [Pending EXCEPT ![c] = None]
            \/ /\ Pending[c] # None
               /\ Promise!Room(Pending[c]) = {}
               /\ Pending' = [Pending EXCEPT ![c] = None]
               /\ Live(block)' = Live(block)
       \/ /\ \E e \in Live(block) : Live(block)' = Live(block) \ {e}
          /\ Pending' = Pending
BY DEF Promise!Next, Promise!Ask, Promise!Grant, Promise!Refuse, Promise!Release, Live,
       Used, Pending

\* Every step of the heap is a step of the module Heap, or changes nothing there.
LEMMA HeapStep ==
  ASSUME Interruptible = FALSE, Inv, [Next]_vars
  PROVE  Promise!Next \/ (Live(block)' = Live(block) /\ Pending' = Pending)
<1>0. call \in [Caller -> [at : Points, x : Nat, walker : Int, got : Int]]
    BY DEF Inv, Shape
<1>1. CASE UNCHANGED vars
    BY <1>1 DEF vars, Live, Used, End, Pending, Searching
<1>2. ASSUME NEW c \in Caller, Enter(c) PROVE Promise!Next
    <2>1. Live(block)' = Live(block)
        BY <1>2, EnterKeeps DEF Live
    <2>2. PICK x \in Requests : call' = [call EXCEPT ![c] = Start(x, block', head', middle')]
        BY <1>2 DEF Enter
    <2>3. call'[c] = Start(x, block', head', middle') /\ \A d \in Caller \ {c} : call'[d] = call[d]
        <3> HIDE DEF Start
        <3> QED BY <1>0, <2>2
    <2>4. call'[c].x = x /\ Searching(c)'
        BY <2>3 DEF Start, Searching
    <2>5. Pending' = [Pending EXCEPT ![c] = x]
        BY <2>3, <2>4, PendingStep
    <2>6. Pending[c] = None
        BY <1>2 DEF Enter, Pending, Searching
    <2> QED BY <2>1, <2>5, <2>6, Mapped
<1>3. ASSUME NEW c \in Caller, Free(c)
      PROVE  Promise!Next \/ (Live(block)' = Live(block) /\ Pending' = Pending)
    <2>1. call' = call /\ (block' = block \/ \E f : Releases(block, f, block'))
        BY <1>3, FreeKeeps
    <2>2. Pending' = Pending
        BY <2>1 DEF Pending, Searching
    <2>3. CASE block' = block
        BY <2>2, <2>3 DEF Live, Used, End
    <2>4. ASSUME NEW f, Releases(block, f, block') PROVE Promise!Next
        <3>1. /\ Used(block') = Used(block) \ {f} /\ f \in Used(block)
              /\ \A v \in Used(block') : End(block', v) = End(block, v)
            BY <2>4 DEF Releases
        <3>2. Live(block)' = Live(block) \ {<<f, End(block, f)>>}
            BY <3>1 DEF Live
        <3>3. <<f, End(block, f)>> \in Live(block)
            BY <3>1 DEF Live
        <3> QED BY <2>2, <3>2, <3>3, Mapped
    <2> QED BY <2>1, <2>2, <2>3, <2>4
<1>4. ASSUME NEW c \in Caller, Advance(c) \/ TurnLeft(c) \/ Leave(c)
      PROVE  Live(block)' = Live(block) /\ Pending' = Pending
    <2>1. block' = block
        BY <1>4 DEF Advance, TurnLeft, Leave
    <2>2. /\ \A d \in Caller \ {c} : call'[d] = call[d]
          /\ Searching(c)' <=> Searching(c)
          /\ Searching(c) => call'[c].x = call[c].x
        <3>1. CASE Advance(c)
            <4> DEFINE n == IF call[c].at = "left" THEN block[Walker(c)].prev ELSE block[Walker(c)].next
            <4>1. call' = [call EXCEPT ![c] = [call[c] EXCEPT !.walker = n]]
                BY <1>0, <3>1 DEF Advance, Walker
            <4> HIDE DEF n
            <4>2. /\ \A d \in Caller \ {c} : call'[d] = call[d]
                  /\ call'[c].at = call[c].at /\ call'[c].x = call[c].x
                BY <1>0, <4>1
            <4> QED BY <4>2 DEF Searching
        <3>2. CASE TurnLeft(c)
            <4>1. call' = [call EXCEPT ![c] = [[call[c] EXCEPT !.at = "left"] EXCEPT !.walker = middle]]
                  /\ call[c].at = "right"
                BY <1>0, <3>2 DEF TurnLeft
            <4>2. /\ \A d \in Caller \ {c} : call'[d] = call[d]
                  /\ call'[c].at = "left" /\ call'[c].x = call[c].x
                BY <1>0, <4>1
            <4> QED BY <4>1, <4>2 DEF Searching
        <3>3. CASE Leave(c)
            <4>1. call' = [call EXCEPT ![c] = Idle] /\ call[c].at = "done"
                BY <3>3 DEF Leave
            <4>2. call'[c].at = "idle" /\ \A d \in Caller \ {c} : call'[d] = call[d]
                BY <1>0, <4>1 DEF Idle
            <4> QED BY <4>1, <4>2 DEF Searching
        <3> QED BY <1>4, <3>1, <3>2, <3>3
    <2>3. Pending' = Pending
        BY <2>2 DEF Pending, Searching
    <2> QED BY <2>1, <2>3 DEF Live, Used, End
<1>5. ASSUME NEW c \in Caller, TakeWhole(c) \/ SplitFront(c) \/ SplitBack(c) PROVE Promise!Next
    <2>1. PICK a : Granting(c, a)
        BY <1>5, GrantStep
    <2>2. /\ <<a, End(block', a)>> \in Promise!Room(call[c].x)
          /\ Live(block)' = Live(block) \cup {<<a, End(block', a)>>}
        BY <2>1, InRoom
    <2>3. /\ call'[c].at = "done" /\ \A d \in Caller \ {c} : call'[d] = call[d]
        BY <1>0, <2>1 DEF Granting, Answer
    <2>4. Pending' = [Pending EXCEPT ![c] = None]
        <3>1. ~Searching(c)'
            BY <2>3 DEF Searching
        <3> QED BY <2>3, <3>1, PendingStep
    <2>5. Pending[c] = call[c].x /\ call[c].x \in Nat
        BY <1>0, <2>1 DEF Pending, Granting
    <2>6. Pending[c] # None
        BY <2>5, MallocAssumption
    <2> QED BY <2>2, <2>4, <2>5, <2>6, Mapped
<1>6. ASSUME NEW c \in Caller, GiveUp(c) PROVE Promise!Next
    <2>1. /\ block' = block /\ call[c].at \in {"small", "left"} /\ Walker(c) = Null /\ Searching(c)
          /\ Answer(c, Null)
        BY <1>6 DEF GiveUp, Searching
    <2>2. \A a \in DOMAIN block : ~Fits(block, a, call[c].x)
        BY <2>1 DEF Inv, Sought, Passed
    <2>3. Whole(block) /\ call[c].x \in Nat
        BY <2>1, Busy
    <2>4. Promise!Room(call[c].x) = {}
        BY <2>2, <2>3, NoRoom
    <2>5. /\ call'[c].at = "done" /\ \A d \in Caller \ {c} : call'[d] = call[d]
        BY <1>0, <2>1 DEF Answer
    <2>6. Pending' = [Pending EXCEPT ![c] = None]
        <3>1. ~Searching(c)'
            BY <2>5 DEF Searching
        <3> QED BY <2>5, <3>1, PendingStep
    <2>7. Pending[c] = call[c].x
        BY <2>1 DEF Pending
    <2>8. Pending[c] # None
        BY <2>3, <2>7, MallocAssumption
    <2>9. Live(block)' = Live(block)
        BY <2>1 DEF Live, Used, End
    <2> QED BY <2>4, <2>6, <2>7, <2>8, <2>9, Mapped
<1> QED BY <1>1, <1>2, <1>3, <1>4, <1>5, <1>6 DEF Next, Step

\* The heap keeps its promise: a request is granted a place of its own, header
\* included, and refused only if no free place holds it.
THEOREM HeapImplemented == ASSUME Interruptible = FALSE PROVE Spec => ImplementsHeap
<1>1. Init => Promise!Init
    <2> SUFFICES ASSUME Init PROVE Promise!Init
        OBVIOUS
    <2>1. Live(block) = {}
        BY NoBlocks DEF Init, Live
    <2>2. \A c \in Caller : ~Searching(c)
        BY DEF Init, Idle, Searching
    <2> QED BY <2>1, <2>2 DEF Promise!Init, Live, Used
<1>2. Inv /\ [Next]_vars => [Promise!Next]_(Promise!heapVars)
    <2> SUFFICES ASSUME Inv, [Next]_vars PROVE [Promise!Next]_(Promise!heapVars)
        OBVIOUS
    <2>1. Promise!Next \/ (Live(block)' = Live(block) /\ Pending' = Pending)
        BY HeapStep
    <2>2. Live(block)' = Live(block) /\ Pending' = Pending => UNCHANGED Promise!heapVars
        BY DEF Promise!heapVars, Live, Used, Pending
    <2> QED BY <2>1, <2>2
<1> QED BY <1>1, <1>2, InvHolds, PTL DEF Spec, ImplementsHeap, Promise!Spec

-----------------------------------------------------------------------------
(* free_mem_count: the sum over a set of blocks, taken out of the set one  *)
(* by one.  There is a function that does so, and the sum is at least as   *)
(* large as each block.                                                    *)

\* A set of natural numbers that is not empty has a smallest element.
LEMMA SmallestElement ==
  ASSUME NEW S \in SUBSET Nat, S # {}
  PROVE  \E l \in S : \A k \in S : l <= k
<1> DEFINE R == {ss \in Nat \X Nat : ss[1] < ss[2]}
<1>1. IsWellFoundedOn(R, Nat)
    BY NatLessThanWellFounded DEF OpToRel
<1>2. PICK l \in S : \A k \in S : <<k, l>> \notin R
    <2> HIDE DEF R
    <2> QED BY <1>1, WFMin, Zenon
<1>3. ASSUME NEW k \in S PROVE l <= k
    <2>1. <<k, l>> \notin R
        BY <1>2
    <2>2. <<k, l>> \in Nat \X Nat /\ ~(k < l)
        BY <2>1
    <2> QED BY <2>2
<1> QED BY <1>3

FreeBlocks(b) == {a \in DOMAIN b : b[a].free}
FirstOf(u) == CHOOSE a \in u : TRUE

\* The sum over u, from the sums that f gives for smaller sets.
Adds(b, f, u) == IF u = {} THEN 0 ELSE b[FirstOf(u)].size + f[u \ {FirstOf(u)}]

\* The sums over all subsets of s.
Total(b, s) == CHOOSE f : f = [u \in SUBSET s |-> Adds(b, f, u)]

\* free_mem_count is such a sum.
LEMMA CountIsTotal ==
  ASSUME NEW b PROVE free_mem_count(b) = Total(b, FreeBlocks(b))[FreeBlocks(b)]
BY DEF free_mem_count, MapThenSumSet, MapThenFoldSet, Total, FreeBlocks, FirstOf, Adds

\* What is left of a finite set without the element that is taken first.
LEMMA TakenOut ==
  ASSUME NEW s, IsFiniteSet(s), NEW u \in SUBSET s, u # {}
  PROVE  /\ IsFiniteSet(u) /\ Cardinality(u) \in Nat /\ FirstOf(u) \in u
         /\ u \ {FirstOf(u)} \in SUBSET s
         /\ Cardinality(u \ {FirstOf(u)}) \in Nat
         /\ Cardinality(u \ {FirstOf(u)}) = Cardinality(u) - 1
<1>1. IsFiniteSet(u)
    BY FS_Subset
<1>2. Cardinality(u) \in Nat
    BY <1>1, FS_CardinalityType
<1>3. FirstOf(u) \in u
    BY DEF FirstOf
<1>4. IsFiniteSet(u \ {FirstOf(u)}) /\ Cardinality(u \ {FirstOf(u)}) = Cardinality(u) - 1
    BY <1>1, <1>3, FS_RemoveElement
<1>5. Cardinality(u \ {FirstOf(u)}) \in Nat
    BY <1>4, FS_CardinalityType
<1> QED BY <1>1, <1>2, <1>3, <1>4, <1>5

\* The recursion has a solution: for sets of at most n elements, for every n.
LEMMA TotalDefined ==
  ASSUME NEW b, NEW s, IsFiniteSet(s)
  PROVE  \A u \in SUBSET s : Total(b, s)[u] = Adds(b, Total(b, s), u)
<1> DEFINE Upto(n) == {u \in SUBSET s : Cardinality(u) <= n}
           Good == {n \in Nat : \E f : f = [u \in Upto(n) |-> Adds(b, f, u)]}
<1>1. 0 \in Good
    <2> DEFINE f == [u \in Upto(0) |-> 0]
    <2>1. ASSUME NEW u \in Upto(0) PROVE Adds(b, f, u) = 0
        <3>1. u = {}
            <4>1. IsFiniteSet(u) /\ Cardinality(u) \in Nat
                BY FS_Subset, FS_CardinalityType
            <4>2. Cardinality(u) = 0
                BY <4>1, SMT
            <4> QED BY <4>1, <4>2, FS_EmptySet
        <3> QED BY <3>1 DEF Adds
    <2>2. f = [u \in Upto(0) |-> Adds(b, f, u)]
        <3> HIDE DEF Upto
        <3> QED BY <2>1
    <2> QED BY <2>2
<1>2. ASSUME NEW n \in Good PROVE n + 1 \in Good
    <2>1. PICK f : f = [u \in Upto(n) |-> Adds(b, f, u)]
        OBVIOUS
    <2> DEFINE g == [u \in Upto(n + 1) |-> Adds(b, f, u)]
    <2>2. ASSUME NEW u \in Upto(n + 1) PROVE Adds(b, g, u) = Adds(b, f, u)
        <3>1. CASE u = {}
            BY <3>1 DEF Adds
        <3>2. CASE u # {}
            <4> DEFINE v == u \ {FirstOf(u)}
            <4>1. /\ v \in SUBSET s /\ Cardinality(v) = Cardinality(u) - 1
                  /\ Cardinality(u) \in Nat
                BY <3>2, TakenOut
            <4>2. v \in Upto(n) /\ v \in Upto(n + 1)
                BY <4>1, SMT
            <4>3. g[v] = Adds(b, f, v) /\ f[v] = Adds(b, f, v)
                <5> HIDE DEF Upto, v
                <5> QED BY <2>1, <4>2
            <4> QED BY <3>2, <4>3 DEF Adds
        <3> QED BY <3>1, <3>2
    <2>3. g = [u \in Upto(n + 1) |-> Adds(b, g, u)]
        <3> HIDE DEF Upto
        <3> QED BY <2>2
    <2>4. n + 1 \in Nat
        BY SMT
    <2> QED BY <2>3, <2>4
<1>3. Nat \subseteq Good
    <2> SUFFICES ASSUME Nat \ Good # {} PROVE FALSE
        OBVIOUS
    <2>1. PICK l \in Nat \ Good : \A k \in Nat \ Good : l <= k
        <3> HIDE DEF Good
        <3>1. Nat \ Good \in SUBSET Nat
            OBVIOUS
        <3> QED BY <3>1, SmallestElement
    <2> HIDE DEF Good
    <2>2. l # 0 /\ l - 1 \in Nat /\ l - 1 + 1 = l
        BY <1>1, <2>1, SMT
    <2>3. l - 1 \in Good
        BY <2>1, <2>2, SMT
    <2> QED BY <1>2, <2>2, <2>3
<1>4. Upto(Cardinality(s)) = SUBSET s
    <2>1. \A u \in SUBSET s : Cardinality(u) <= Cardinality(s)
        BY FS_Subset
    <2> QED BY <2>1
<1>5. \E f : f = [u \in Upto(Cardinality(s)) |-> Adds(b, f, u)]
    <2>1. Cardinality(s) \in Good
        BY <1>3, FS_CardinalityType
    <2> QED BY <2>1
<1>6. \E f : f = [u \in SUBSET s |-> Adds(b, f, u)]
    <2> HIDE DEF Upto
    <2> QED BY <1>4, <1>5
<1> DEFINE t == Total(b, s)
<1>7. t = [u \in SUBSET s |-> Adds(b, t, u)]
    BY <1>6 DEF Total
<1> HIDE DEF t
<1>8. \A u \in SUBSET s : t[u] = Adds(b, t, u)
    BY <1>7
<1> QED BY <1>8 DEF t

\* A sum of sizes is a natural number, and no smaller than any of them.
LEMMA TotalCovers ==
  ASSUME NEW b, NEW s, IsFiniteSet(s), \A a \in s : b[a].size \in Nat
  PROVE  \A u \in SUBSET s : /\ Total(b, s)[u] \in Nat
                             /\ \A a \in u : b[a].size <= Total(b, s)[u]
<1> DEFINE f == Total(b, s)
           Fine(u) == f[u] \in Nat /\ \A a \in u : b[a].size <= f[u]
           Bad == {n \in Nat : \E u \in SUBSET s : Cardinality(u) = n /\ ~Fine(u)}
<1>2. \A u \in SUBSET s : f[u] = Adds(b, f, u)
    BY TotalDefined
<1>3. Bad = {}
    <2> SUFFICES ASSUME Bad # {} PROVE FALSE
        OBVIOUS
    <2>1. PICK l \in Bad : \A k \in Bad : l <= k
        <3>1. Bad \in SUBSET Nat
            OBVIOUS
        <3> HIDE DEF Bad
        <3> QED BY <3>1, SmallestElement
    <2>2. PICK u \in SUBSET s : Cardinality(u) = l /\ ~Fine(u)
        BY <2>1
    <2>3. CASE u = {}
        <3>1. f[u] = 0
            BY <1>2, <2>3 DEF Adds
        <3> QED BY <2>2, <2>3, <3>1
    <2>4. CASE u # {}
        <3> DEFINE v == u \ {FirstOf(u)}
        <3>1. /\ FirstOf(u) \in u /\ v \in SUBSET s /\ Cardinality(u) \in Nat
              /\ Cardinality(v) \in Nat /\ Cardinality(v) = Cardinality(u) - 1
            BY <2>4, TakenOut
        <3>2. Fine(v)
            <4> SUFFICES ASSUME ~Fine(v) PROVE FALSE
                OBVIOUS
            <4>1. Cardinality(v) \in Bad
                BY <3>1
            <4>2. l <= Cardinality(v)
                BY <2>1, <4>1
            <4> QED BY <2>2, <3>1, <4>2, SMT
        <3>3. f[u] = b[FirstOf(u)].size + f[v]
            BY <1>2, <2>4 DEF Adds
        <3>4. b[FirstOf(u)].size \in Nat /\ f[v] \in Nat
            BY <3>1, <3>2
        <3>5. f[u] \in Nat /\ b[FirstOf(u)].size <= f[u] /\ f[v] <= f[u]
            <4> HIDE DEF f, v
            <4> QED BY <3>3, <3>4, SMT
        <3>6. ASSUME NEW a \in u PROVE b[a].size <= f[u]
            <4>1. CASE a = FirstOf(u)
                BY <3>5, <4>1
            <4>2. CASE a # FirstOf(u)
                <5>1. a \in v /\ a \in s
                    BY <4>2
                <5>2. b[a].size <= f[v] /\ b[a].size \in Nat
                    BY <3>2, <5>1
                <5> HIDE DEF f, v
                <5> QED BY <3>4, <3>5, <5>2, SMT
            <4> QED BY <4>1, <4>2
        <3> QED BY <2>2, <3>5, <3>6
    <2> QED BY <2>3, <2>4
<1>4. ASSUME NEW u \in SUBSET s PROVE Fine(u)
    <2>1. Cardinality(u) \in Nat
        BY FS_Subset, FS_CardinalityType
    <2> QED BY <1>3, <2>1
<1> QED BY <1>4

\* free_mem_count returns a natural number, and no free block is larger.
LEMMA CountCoversBlocks ==
  ASSUME NEW b, Blocks(b)
  PROVE  /\ free_mem_count(b) \in Nat
         /\ \A a \in DOMAIN b : b[a].free => b[a].size <= free_mem_count(b)
<1>1. IsFiniteSet(FreeBlocks(b))
    <2>1. IsFiniteSet(Addr)
        BY Numbers, FS_Interval, SMT DEF Addr
    <2> QED BY <2>1, FS_Subset DEF Blocks, FreeBlocks
<1>2. \A a \in FreeBlocks(b) : b[a].size \in Nat
    BY Numbers, SMT DEF Blocks, FreeBlocks, Mementry
<1>3. /\ Total(b, FreeBlocks(b))[FreeBlocks(b)] \in Nat
      /\ \A a \in FreeBlocks(b) : b[a].size <= Total(b, FreeBlocks(b))[FreeBlocks(b)]
    BY <1>1, <1>2, TotalCovers
<1> QED BY <1>3, CountIsTotal DEF FreeBlocks

-----------------------------------------------------------------------------
(* Types, and the free count that the search of myallocate reads.          *)

\* A call has its type.
CallTyped(c) ==
  /\ call[c].x \in Requests \cup {0}
  /\ call[c].walker \in Addr \cup {Null}
  /\ call[c].got \in Addr \cup {Null, Region}

\* head, middle and what is saved have theirs; when nobody is in the heap, the count
\* that was saved is that of the blocks.
Counted ==
  /\ head \in Addr \cup {Null} /\ middle \in Addr \cup {Null}
  /\ saved \in [head : Addr \cup {Null}, middle : Addr \cup {Null}, free_page_mem : Nat]
  /\ \A c \in Caller : CallTyped(c)
  /\ Quiet /\ saved.head # Null => saved.free_page_mem = free_mem_count(block)

\* Counted holds initially.
LEMMA CountedInit == Init => Counted
<1> SUFFICES ASSUME Init PROVE Counted
    OBVIOUS
<1>1. head = Null /\ middle = Null
    BY DEF Init
<1>2. saved = [head |-> Null, middle |-> Null, free_page_mem |-> 0]
    BY DEF Init
<1>3. saved.head = Null /\ 0 \in Nat
    BY <1>2
<1>4. saved \in [head : Addr \cup {Null}, middle : Addr \cup {Null}, free_page_mem : Nat]
    BY <1>2, <1>3
<1>5. \A c \in Caller : CallTyped(c)
    BY DEF Init, Idle, CallTyped
<1> QED BY <1>1, <1>3, <1>4, <1>5 DEF Counted

\* The pointer to a used block lies in the region, or just behind it.
LEMMA UsedInRegion ==
  ASSUME NEW b, TiledRegion(b), NEW a \in DOMAIN b
  PROVE  a + HeaderSize \in Addr \cup {Region} /\ a + HeaderSize \in 0 .. Region
<1>1. a \in Nat /\ b[a].size \in Nat /\ End(b, a) <= Region
    BY BlockFacts
<1> QED BY <1>1, Numbers, SMT DEF Addr, End

\* A step that leaves the saved values alone, and a caller in the heap.
LEMMA CountedBusy ==
  ASSUME Inv', Counted, block' # << >>, saved' = saved,
         NEW c \in Caller, call'[c].at # "idle", CallTyped(c)',
         \A d \in Caller \ {c} : call'[d] = call[d]
  PROVE  Counted'
<1>1. head' \in Addr \cup {Null} /\ middle' \in Addr \cup {Null}
    <2>1. (block # << >>)' /\ Inv'
        OBVIOUS
    <2>2. Whole(block') /\ head' = 0 /\ middle' \in DOMAIN block'
        BY <2>1 DEF Inv, Formed
    <2>3. DOMAIN block' \subseteq Addr
        BY <2>2 DEF Whole, TiledRegion, Blocks
    <2>4. 0 \in Addr
        BY Numbers, SMT DEF Addr
    <2> QED BY <2>2, <2>3, <2>4
<1>2. saved' \in [head : Addr \cup {Null}, middle : Addr \cup {Null}, free_page_mem : Nat]
    BY DEF Counted
<1>3. \A d \in Caller : CallTyped(d)'
    BY DEF Counted, CallTyped
<1>4. ~Quiet'
    BY DEF Quiet
<1> QED BY <1>1, <1>2, <1>3, <1>4 DEF Counted

\* What a step of the search keeps.
LEMMA CountedSearch ==
  ASSUME Inv, Inv', Counted, NEW c \in Caller, call[c].at # "idle",
         \/ Advance(c) \/ TurnLeft(c) \/ TakeWhole(c) \/ SplitFront(c) \/ SplitBack(c) \/ GiveUp(c)
  PROVE  Counted'
<1>1. /\ Whole(block) /\ block # << >> /\ middle \in DOMAIN block
      /\ CallTyped(c)
    BY Busy DEF Counted
<1>2. call \in [Caller -> [at : Points, x : Nat, walker : Int, got : Int]]
    BY DEF Inv, Shape
<1>3. saved' = saved /\ owned' = owned
    BY DEF Advance, TurnLeft, TakeWhole, SplitFront, SplitBack, GiveUp
<1>4. block' # << >>
    <2>1. CASE block' = block
        BY <1>1, <2>1
    <2>2. CASE TakeWhole(c)
        <3>1. block' = [block EXCEPT ![Walker(c)].free = FALSE]
            BY <2>2 DEF TakeWhole
        <3>2. DOMAIN block' = DOMAIN block
            BY <3>1
        <3> QED BY <1>1, <3>2, NoBlocks
    <2>3. ASSUME NEW a, NEW s, NEW f, NEW g, block' = Cut(block, a, s, f, g) PROVE block' # << >>
        <3>1. a + HeaderSize + s \in DOMAIN block'
            BY <2>3 DEF Cut
        <3> QED BY <3>1, NoBlocks
    <2>4. CASE SplitFront(c) \/ SplitBack(c)
        BY <2>3, <2>4 DEF SplitFront, SplitBack
    <2> QED BY <2>1, <2>2, <2>4 DEF Advance, TurnLeft, GiveUp
<1>5. CASE Advance(c)
    <2>1. /\ Walker(c) # Null /\ Searching(c)
          /\ call' = [call EXCEPT ![c].walker =
                        IF call[c].at = "left" THEN block[@].prev ELSE block[@].next]
        BY <1>5 DEF Advance
    <2>2. Walker(c) \in DOMAIN block
        BY <2>1 DEF Inv, Sought
    <2>3. block[Walker(c)].prev \in Addr \cup {Null} /\ block[Walker(c)].next \in Addr \cup {Null}
        BY <1>1, <2>2 DEF Whole, TiledRegion, Blocks, Mementry
    <2>4. /\ call'[c].x = call[c].x /\ call'[c].got = call[c].got /\ call'[c].at = call[c].at
          /\ call'[c].walker \in {block[Walker(c)].prev, block[Walker(c)].next}
          /\ \A d \in Caller \ {c} : call'[d] = call[d]
        BY <1>2, <2>1 DEF Walker
    <2>5. CallTyped(c)' /\ call'[c].at # "idle"
        BY <1>1, <2>3, <2>4 DEF CallTyped
    <2> QED BY <1>3, <1>4, <2>4, <2>5, CountedBusy
<1>6. CASE TurnLeft(c)
    <2>1. call' = [call EXCEPT ![c].at = "left", ![c].walker = middle]
        BY <1>6 DEF TurnLeft
    <2>2. /\ call'[c].x = call[c].x /\ call'[c].got = call[c].got /\ call'[c].at = "left"
          /\ call'[c].walker = middle
          /\ \A d \in Caller \ {c} : call'[d] = call[d]
        BY <1>2, <2>1
    <2>3. CallTyped(c)' /\ call'[c].at # "idle"
        BY <1>1, <2>2 DEF CallTyped, Counted
    <2> QED BY <1>3, <1>4, <2>2, <2>3, CountedBusy
<1>7. CASE TakeWhole(c) \/ SplitFront(c) \/ SplitBack(c) \/ GiveUp(c)
    <2>1. \E p : call' = [call EXCEPT ![c].at = "done", ![c].got = p]
        BY <1>7 DEF TakeWhole, SplitFront, SplitBack, GiveUp, Answer
    <2>2. /\ call'[c].x = call[c].x /\ call'[c].walker = call[c].walker /\ call'[c].at = "done"
          /\ \A d \in Caller \ {c} : call'[d] = call[d]
        BY <1>2, <2>1
    <2>3. call'[c].got \in Addr \cup {Null, Region}
        <3>1. CASE call'[c].got = Null
            BY <3>1
        <3>2. CASE call'[c].got # Null
            <4>1. (call[c].got \in Given(c))'
                BY <2>2, <3>2 DEF Given
            <4>2. PICK a \in Used(block') : call'[c].got = a + HeaderSize
                BY <4>1 DEF Inv, GivenUsed
            <4>3. a \in DOMAIN block' /\ TiledRegion(block')
                BY <1>4, <4>2 DEF Used, Inv, Formed, Whole
            <4> QED BY <4>2, <4>3, UsedInRegion
        <3> QED BY <3>1, <3>2
    <2>4. CallTyped(c)' /\ call'[c].at # "idle"
        BY <1>1, <2>2, <2>3 DEF CallTyped
    <2> QED BY <1>3, <1>4, <2>2, <2>4, CountedBusy
<1> QED BY <1>5, <1>6, <1>7

\* Counted is preserved when a call begins.
LEMMA CountedEnter ==
  ASSUME Inv, Inv', Counted, NEW c \in Caller, Enter(c)
  PROVE  Counted'
<1>1. /\ saved' = saved
      /\ \/ saved.head = Null /\ head' = 0 /\ middle' = 0
            /\ block' = [a \in DOMAIN block \cup {0} |-> IF a = 0 THEN FirstBlock ELSE block[a]]
         \/ saved.head # Null /\ block' = block
    BY DEF Enter
<1>2. PICK x \in Requests : call' = [call EXCEPT ![c] = Start(x, block', head', middle')]
    BY DEF Enter
<1>3. call \in [Caller -> [at : Points, x : Nat, walker : Int, got : Int]]
    BY DEF Inv, Shape
<1>4. block' # << >>
    <2>1. CASE saved.head = Null
        <3>1. 0 \in DOMAIN block'
            BY <1>1, <2>1
        <3> QED BY <3>1, NoBlocks
    <2>2. CASE saved.head # Null
        BY <1>1, <2>2 DEF Inv, SavedFits
    <2> QED BY <2>1, <2>2
<1>5. Whole(block') /\ head' = 0 /\ middle' \in DOMAIN block'
    BY <1>4 DEF Inv, Formed
<1>6. 0 \in Addr /\ block'[middle'].next \in Addr \cup {Null}
    <2>1. Blocks(block')
        BY <1>5 DEF Whole, TiledRegion
    <2> QED BY <1>5, <2>1, Numbers, SMT DEF Blocks, Mementry, Addr
<1>7. /\ call'[c] = Start(x, block', head', middle')
      /\ \A d \in Caller \ {c} : call'[d] = call[d]
    BY <1>2, <1>3
<1>8. call'[c].at # "idle" /\ CallTyped(c)'
    <2>1. CASE x < SmallLimit
        <3>1. call'[c] = [at |-> "small", x |-> x, walker |-> head', got |-> Null]
            BY <1>7, <2>1 DEF Start
        <3> QED BY <1>5, <1>6, <3>1 DEF CallTyped
    <2>2. CASE ~(x < SmallLimit)
        <3>1. call'[c] = [at |-> "right", x |-> x, walker |-> block'[middle'].next, got |-> Null]
            BY <1>7, <2>2 DEF Start
        <3> QED BY <1>6, <3>1 DEF CallTyped
    <2> QED BY <2>1, <2>2
<1> QED BY <1>1, <1>4, <1>7, <1>8, CountedBusy

\* Counted is preserved when a call ends: the count of the blocks is saved.
LEMMA CountedLeave ==
  ASSUME Inv, Inv', Counted, NEW c \in Caller, Leave(c)
  PROVE  Counted'
<1>1. /\ call[c].at = "done" /\ block' = block /\ head' = head /\ middle' = middle
      /\ saved' = [head |-> head, middle |-> middle, free_page_mem |-> free_mem_count(block)]
      /\ call' = [call EXCEPT ![c] = Idle]
    BY DEF Leave
<1>2. Whole(block)
    BY <1>1, Busy
<1>3. free_mem_count(block) \in Nat
    BY <1>2, CountCoversBlocks DEF Whole, TiledRegion
<1>4. call \in [Caller -> [at : Points, x : Nat, walker : Int, got : Int]]
    BY DEF Inv, Shape
<1>5. call'[c] = Idle /\ \A d \in Caller \ {c} : call'[d] = call[d]
    BY <1>1, <1>4
<1>6. \A d \in Caller : CallTyped(d)'
    BY <1>5 DEF Counted, CallTyped, Idle
<1>7. saved' \in [head : Addr \cup {Null}, middle : Addr \cup {Null}, free_page_mem : Nat]
    BY <1>1, <1>3 DEF Counted
<1>8. saved'.free_page_mem = free_mem_count(block')
    BY <1>1
<1> QED BY <1>1, <1>6, <1>7, <1>8 DEF Counted

\* Counted is preserved when a pointer is freed.
LEMMA CountedFree ==
  ASSUME Interruptible = FALSE, Inv, Inv', Counted, NEW c \in Caller, Free(c)
  PROVE  Counted'
<1>1. /\ call' = call /\ head' = saved.head /\ saved'.head = saved.head
      /\ saved'.middle = middle'
      /\ saved'.free_page_mem = free_mem_count(block')
      /\ saved' = [head |-> saved'.head, middle |-> saved'.middle,
                   free_page_mem |-> saved'.free_page_mem]
    <2>1. saved = [head |-> saved.head, middle |-> saved.middle,
                   free_page_mem |-> saved.free_page_mem]
        BY DEF Inv, Shape
    <2>2. PICK p \in owned[c] :
            IF OutOfBounds(p)
            THEN /\ middle' = saved.middle
                 /\ saved' = [saved EXCEPT !.free_page_mem = free_mem_count(block)]
                 /\ UNCHANGED block
            ELSE /\ block' = Freed(p - HeaderSize)
                 /\ middle' = MiddleAfter(p - HeaderSize, saved.middle)
                 /\ saved' = [head |-> saved.head, middle |-> middle',
                              free_page_mem |-> free_mem_count(block')]
        BY DEF Free
    <2>3. call' = call /\ head' = saved.head
        BY DEF Free
    <2>4. CASE OutOfBounds(p)
        <3>1. /\ middle' = saved.middle /\ block' = block
              /\ saved' = [saved EXCEPT !.free_page_mem = free_mem_count(block)]
            BY <2>2, <2>4
        <3>2. /\ saved'.head = saved.head /\ saved'.middle = saved.middle
              /\ saved'.free_page_mem = free_mem_count(block)
            BY <2>1, <3>1
        <3>3. saved' = [head |-> saved.head, middle |-> saved.middle,
                        free_page_mem |-> free_mem_count(block)]
            BY <2>1, <3>1
        <3> QED BY <2>3, <3>1, <3>2, <3>3
    <2>5. CASE ~OutOfBounds(p)
        <3>1. saved' = [head |-> saved.head, middle |-> middle',
                        free_page_mem |-> free_mem_count(block')]
            BY <2>2, <2>5
        <3> QED BY <2>3, <3>1
    <2> QED BY <2>4, <2>5
<1>2. saved.head = 0 /\ Quiet'
    <2>1. Quiet
        BY DEF Free, Quiet, Admitted
    <2>2. \E p \in owned[c] : TRUE
        BY DEF Free
    <2>3. Used(block) # {}
        BY <2>1, <2>2, AtRest DEF Inv, GivenUsed
    <2>4. block # << >>
        BY <2>3, NoBlocks
    <2> QED BY <1>1, <2>1, <2>4, AtRest DEF Quiet
<1>3. block' # << >>
    BY <1>1, <1>2 DEF Inv, SavedFits
<1>4. Whole(block') /\ middle' \in DOMAIN block'
    BY <1>3 DEF Inv, Formed
<1>5. Blocks(block')
    BY <1>4 DEF Whole, TiledRegion
<1>6. free_mem_count(block') \in Nat
    BY <1>5, CountCoversBlocks
<1>7. middle' \in Addr /\ 0 \in Addr
    BY <1>4, <1>5, Numbers, SMT DEF Blocks, Addr
<1>8. saved' \in [head : Addr \cup {Null}, middle : Addr \cup {Null}, free_page_mem : Nat]
    BY <1>1, <1>2, <1>6, <1>7
<1>9. \A d \in Caller : CallTyped(d)'
    BY <1>1 DEF Counted, CallTyped
<1> QED BY <1>1, <1>2, <1>7, <1>8, <1>9 DEF Counted

\* Counted is preserved by every step, if nobody comes in during a call.
LEMMA CountedStep ==
  ASSUME Interruptible = FALSE PROVE Inv /\ Counted /\ [Next]_vars => Counted'
<1> SUFFICES ASSUME Inv, Counted, [Next]_vars PROVE Counted'
    OBVIOUS
<1>1. Inv'
    BY InvStep
<1>2. CASE UNCHANGED vars
    <2>1. /\ block' = block /\ head' = head /\ middle' = middle /\ saved' = saved
          /\ call' = call
        BY <1>2 DEF vars
    <2>2. Quiet' <=> Quiet
        BY <2>1 DEF Quiet
    <2>3. \A c \in Caller : CallTyped(c)'
        BY <2>1 DEF Counted, CallTyped
    <2> QED BY <2>1, <2>2, <2>3 DEF Counted
<1>3. ASSUME NEW c \in Caller, Step(c) PROVE Counted'
    <2>1. CASE Leave(c)
        BY <1>1, <2>1, CountedLeave
    <2>2. CASE ~Leave(c)
        <3>1. \/ Advance(c) \/ TurnLeft(c) \/ TakeWhole(c) \/ SplitFront(c) \/ SplitBack(c)
              \/ GiveUp(c)
            BY <1>3, <2>2 DEF Step
        <3>2. call[c].at # "idle"
            BY <3>1 DEF Advance, TurnLeft, TakeWhole, SplitFront, SplitBack, GiveUp, Found, Searching
        <3> QED BY <1>1, <3>1, <3>2, CountedSearch
    <2> QED BY <2>1, <2>2
<1>4. ASSUME NEW c \in Caller, Enter(c) PROVE Counted'
    BY <1>1, <1>4, CountedEnter
<1>5. ASSUME NEW c \in Caller, Free(c) PROVE Counted'
    BY <1>1, <1>5, CountedFree
<1> QED BY <1>2, <1>3, <1>4, <1>5 DEF Next

\* What Inv and Counted say of the types.
LEMMA CountedTyped == Inv /\ Counted => TypeOK
<1> SUFFICES ASSUME Inv, Counted PROVE TypeOK
    OBVIOUS
<1>1. DOMAIN block \subseteq Addr /\ \A a \in DOMAIN block : block[a] \in Mementry
    <2>1. CASE block = << >>
        BY <2>1, NoBlocks
    <2>2. CASE block # << >>
        BY <2>2 DEF Inv, Formed, Whole, TiledRegion, Blocks
    <2> QED BY <2>1, <2>2
<1>2. call \in [Caller -> [at : Points, x : Requests \cup {0}, walker : Addr \cup {Null},
                           got : Addr \cup {Null, Region}]]
    <2>1. call \in [Caller -> [at : Points, x : Nat, walker : Int, got : Int]]
        BY DEF Inv, Shape
    <2>2. ASSUME NEW c \in Caller
          PROVE  call[c] \in [at : Points, x : Requests \cup {0}, walker : Addr \cup {Null},
                              got : Addr \cup {Null, Region}]
        <3>1. call[c] \in [at : Points, x : Nat, walker : Int, got : Int]
            BY <2>1
        <3>2. CallTyped(c)
            BY DEF Counted
        <3> QED BY <3>1, <3>2 DEF CallTyped
    <2> QED BY <2>1, <2>2
<1>3. owned \in [Caller -> SUBSET (0 .. Region)]
    <2>1. owned \in [Caller -> SUBSET Nat]
        BY DEF Inv, Shape
    <2>2. ASSUME NEW c \in Caller, NEW p \in owned[c] PROVE p \in 0 .. Region
        <3>1. PICK a \in Used(block) : p = a + HeaderSize
            BY DEF Inv, GivenUsed, Given
        <3>2. a \in DOMAIN block /\ block # << >>
            BY <3>1, NoBlocks DEF Used
        <3>3. TiledRegion(block)
            BY <3>2 DEF Inv, Formed, Whole
        <3> QED BY <3>1, <3>2, <3>3, UsedInRegion
    <2> QED BY <2>1, <2>2
<1> QED BY <1>1, <1>2, <1>3 DEF Counted, TypeOK

\* Inv and Counted hold in every run.
LEMMA CountedAlways == ASSUME Interruptible = FALSE PROVE Spec => [](Inv /\ Counted)
<1>1. Init => Inv /\ Counted
    BY InvInit, CountedInit
<1>2. Inv /\ Counted /\ [Next]_vars => (Inv /\ Counted)'
    BY InvStep, CountedStep
<1> QED BY <1>1, <1>2, PTL DEF Spec

\* Every variable of the heap keeps its type: in particular no search leaves the
\* region, and no pointer that is given lies outside it.
THEOREM TypesHold == ASSUME Interruptible = FALSE PROVE Spec => []TypeOK
BY CountedAlways, CountedTyped, PTL

\* The free count that was saved is no smaller than any free block, so that no page
\* which has a block for a request is passed over.
THEOREM CountCoversHolds == ASSUME Interruptible = FALSE PROVE Spec => []CountCovers
<1>1. Inv /\ Counted => CountCovers
    <2> SUFFICES ASSUME Inv, Counted, saved.head # Null, Quiet,
                        NEW a \in DOMAIN block, block[a].free
                 PROVE  block[a].size <= saved.free_page_mem
        BY DEF CountCovers, Quiet
    <2>1. saved.free_page_mem = free_mem_count(block)
        BY DEF Counted
    <2>2. Blocks(block)
        BY AtRest DEF Whole, TiledRegion
    <2> QED BY <2>1, <2>2, CountCoversBlocks
<1> QED BY <1>1, CountedAlways, PTL

=================================================================================
