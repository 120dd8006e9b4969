---------------------------- MODULE ExpandProofs ----------------------------
(***************************************************************************)
(* For every definition: the expansion keeps its types, and every function *)
(* of it leaves the parameter stack and the path as it found them.         *)
(***************************************************************************)
EXTENDS Expand, GraphProofs, SequenceTheorems, TLAPS

(* What a frame holds at each of its stages. *)
FrameOK(f) ==
  /\ f \in Frames
  /\ \/ /\ f.kind = "network" /\ f.node \in Networks
        /\ f.at \in {"start", "params", "inside"}
        /\ f.at = "start" => f.held = 0
        /\ f.at # "start" => Hits(f.node, f.node.module) # {}
        /\ f.at = "params" => f.held \in 0..Len(f.node.params)
        /\ f.at = "inside" => f.held = Len(f.node.params)
     \/ /\ f.kind = "module" /\ f.node \in Modules /\ f.i >= 1
        /\ f.at \in {"params", "gates", "subs", "conns", "replace", "handover", "end"}
        /\ f.at = "params" => f.held \in 0..Len(f.node.params)
        /\ f.at # "params" => f.held = Len(f.node.params)
     \/ /\ f.kind = "sub" /\ f.node \in Subs
        /\ f.at \in {"start", "params", "vector", "inside", "lost"}
        /\ f.at = "start" => f.held = 0
        /\ f.at # "start" => f.node \in PlainSub
        /\ f.at = "params" => f.held \in 0..Len(f.node.params)
        /\ f.at = "vector" => f.held = Len(f.node.params)
        /\ f.at \in {"inside", "lost"} =>
             f.held = Len(f.node.params) + IF f.last > 0 THEN 1 ELSE 0
     \/ /\ f.kind = "conn" /\ f.node \in Conns
        /\ f.at \in {"start", "loop", "round"}
        /\ f.at # "start" => f.node.kind = "loop"
        /\ f.held = IF f.at = "round" THEN 1 ELSE 0

(* The network is at the bottom of the call stack and nowhere else; what is
   held further out lies below what is held further in. *)
Chain(cs) ==
  /\ \A k \in DOMAIN cs : FrameOK(cs[k]) /\ (cs[k].kind = "network" <=> k = 1)
  /\ cs # <<>> => cs[1].base = 0 /\ cs[1].depth = 1
  /\ \A k \in 1..Len(cs) - 1 :
       /\ cs[k + 1].base = cs[k].base + cs[k].held
       /\ cs[k + 1].depth = cs[k].depth + Deeper(cs[k])
  /\ \A k, l \in DOMAIN cs : k < l => cs[k].base + cs[k].held <= cs[l].base

Lengths(cs, ps, pt) ==
  IF cs = <<>> THEN ps = <<>> /\ Len(pt) = 1
  ELSE /\ Len(ps) = cs[Len(cs)].base + cs[Len(cs)].held
       /\ Len(pt) = cs[Len(cs)].depth + Deeper(cs[Len(cs)])

NamesHeld(cs, ps) ==
  \A k \in DOMAIN cs : \A h \in 1..cs[k].held : ps[cs[k].base + h].name = DeclaredBy(cs[k], h)

Stacks(cs, ps, pt) ==
  /\ cs \in Seq(Frames) /\ ps \in Seq(Param) /\ pt \in Names
  /\ Chain(cs) /\ Lengths(cs, ps, pt) /\ NamesHeld(cs, ps)

(* The inductive invariant. *)
IInv ==
  /\ net \in Networks
  /\ res \in {"run", "ok", "EVAL", "NOMOD", "LOOP"}
  /\ res = "run" => calls # <<>>
  /\ Stacks(calls, params, path)

LEMMA FrameTypes ==
  ASSUME NEW f, FrameOK(f)
  PROVE  /\ f.held \in Nat /\ f.base \in Nat /\ f.depth \in Nat /\ f.i \in Int /\ f.last \in Int
         /\ Deeper(f) \in {0, 1}
BY DEF FrameOK, Frames, Deeper

LEMMA Below ==
  ASSUME NEW a \in Nat, NEW b \in Nat, NEW c \in Nat, NEW h \in 1..b, a + b <= c
  PROVE  a + h \in 1..c
OBVIOUS

LEMMA Sums ==
  ASSUME NEW a \in Nat, NEW b \in Nat, NEW c \in Nat
  PROVE  (a + b) + c = a + (b + c)
OBVIOUS

(* The frame in hand changes, and with it what it holds on the two stacks. *)
LEMMA Replaced ==
  ASSUME NEW cs, NEW ps, NEW pt, Stacks(cs, ps, pt), cs # <<>>,
         NEW f, FrameOK(f), f.base = cs[Len(cs)].base, f.depth = cs[Len(cs)].depth,
         f.kind = cs[Len(cs)].kind,
         NEW ps2 \in Seq(Param), NEW pt2 \in Names,
         Len(ps2) = f.base + f.held, Len(pt2) = f.depth + Deeper(f),
         \A x \in 1..f.base : ps2[x] = ps[x],
         \A h \in 1..f.held : ps2[f.base + h].name = DeclaredBy(f, h)
  PROVE  Stacks([cs EXCEPT ![Len(cs)] = f], ps2, pt2)
<1> DEFINE n == Len(cs)
           ds == [cs EXCEPT ![n] = f]
<1>1. cs \in Seq(Frames) /\ n \in Nat \ {0} /\ DOMAIN cs = 1..n
  BY DEF Stacks
<1>2. f \in Frames
  BY DEF FrameOK
<1>3. /\ ds \in Seq(Frames) /\ Len(ds) = n /\ DOMAIN ds = 1..n /\ ds[n] = f
      /\ \A k \in 1..n : k # n => ds[k] = cs[k]
  <2>1. n \in 1..Len(cs)
    BY <1>1
  <2>2. /\ ds \in Seq(Frames) /\ Len(ds) = Len(cs)
        /\ \A k \in 1..Len(cs) : ds[k] = IF k = n THEN f ELSE cs[k]
    BY <1>1, <1>2, <2>1, ExceptSeq
  <2>. QED
    BY <1>1, <2>1, <2>2
<1>4. /\ \A k \in 1..n : FrameOK(cs[k]) /\ (cs[k].kind = "network" <=> k = 1)
      /\ cs[1].base = 0 /\ cs[1].depth = 1
      /\ \A k \in 1..n - 1 : /\ cs[k + 1].base = cs[k].base + cs[k].held
                             /\ cs[k + 1].depth = cs[k].depth + Deeper(cs[k])
      /\ \A k, l \in 1..n : k < l => cs[k].base + cs[k].held <= cs[l].base
      /\ \A k \in 1..n : \A h \in 1..cs[k].held :
           ps[cs[k].base + h].name = DeclaredBy(cs[k], h)
  BY <1>1 DEF Stacks, Chain, NamesHeld
<1> HIDE DEF n, ds
<1>5. f.base = cs[n].base /\ f.depth = cs[n].depth /\ f.kind = cs[n].kind
  BY DEF n
<1>6. Chain(ds)
  <2>1. \A k \in DOMAIN ds : FrameOK(ds[k]) /\ (ds[k].kind = "network" <=> k = 1)
    BY <1>3, <1>4, <1>5
  <2>2. ds[1].base = 0 /\ ds[1].depth = 1
    BY <1>1, <1>3, <1>4, <1>5
  <2>3. \A k \in 1..Len(ds) - 1 : /\ ds[k + 1].base = ds[k].base + ds[k].held
                                  /\ ds[k + 1].depth = ds[k].depth + Deeper(ds[k])
    <3>1. SUFFICES ASSUME NEW k \in 1..n - 1
                   PROVE /\ ds[k + 1].base = ds[k].base + ds[k].held
                         /\ ds[k + 1].depth = ds[k].depth + Deeper(ds[k])
      BY <1>3
    <3>2. ds[k] = cs[k] /\ k + 1 \in 1..n
      BY <1>1, <1>3
    <3>3. ds[k + 1].base = cs[k + 1].base /\ ds[k + 1].depth = cs[k + 1].depth
      BY <1>3, <1>5, <3>2
    <3>. QED
      BY <1>4, <3>2, <3>3
  <2>4. \A k, l \in DOMAIN ds : k < l => ds[k].base + ds[k].held <= ds[l].base
    <3>1. SUFFICES ASSUME NEW k \in 1..n, NEW l \in 1..n, k < l
                   PROVE ds[k].base + ds[k].held <= ds[l].base
      BY <1>3
    <3>2. ds[k] = cs[k] /\ ds[l].base = cs[l].base
      BY <1>1, <1>3, <1>5, <3>1
    <3>. QED
      BY <1>4, <3>1, <3>2
  <2>. QED
    BY <2>1, <2>2, <2>3, <2>4 DEF Chain
<1>7. Lengths(ds, ps2, pt2)
  <2>1. ds # <<>>
    BY <1>1, <1>3
  <2>. QED
    BY <1>3, <2>1 DEF Lengths
<1>8. NamesHeld(ds, ps2)
  <2>1. SUFFICES ASSUME NEW k \in 1..n, NEW h \in 1..ds[k].held
                 PROVE ps2[ds[k].base + h].name = DeclaredBy(ds[k], h)
    BY <1>3 DEF NamesHeld
  <2>2. CASE k = n
    BY <1>3, <2>2
  <2>3. CASE k # n
    <3>1. ds[k] = cs[k] /\ k < n
      BY <1>1, <1>3, <2>3
    <3>2. cs[k].base + cs[k].held <= f.base /\ cs[k].base \in Nat /\ cs[k].held \in Nat
          /\ f.base \in Nat
      BY <1>1, <1>4, <1>5, <3>1, FrameTypes
    <3>3. h \in 1..cs[k].held
      BY <3>1
    <3>4. cs[k].base + h \in 1..f.base
      BY SMTT(30), <3>2, <3>3
    <3>. QED
      BY <1>4, <3>1, <3>3, <3>4
  <2>. QED
    BY <2>2, <2>3
<1>. QED
  BY <1>3, <1>6, <1>7, <1>8 DEF Stacks, ds, n

(* A function is called. *)
LEMMA Pushed ==
  ASSUME NEW cs, NEW ps, NEW pt, Stacks(cs, ps, pt), cs # <<>>,
         NEW f, FrameOK(f), f.kind # "network", f.held = 0, Deeper(f) = 0,
         f.base = Len(ps), f.depth = Len(pt)
  PROVE  Stacks(Append(cs, f), ps, pt)
<1> DEFINE n == Len(cs)
           ds == Append(cs, f)
<1>1. /\ cs \in Seq(Frames) /\ n \in Nat \ {0} /\ DOMAIN cs = 1..n
      /\ ps \in Seq(Param) /\ pt \in Names
  BY DEF Stacks
<1>2. f \in Frames
  BY DEF FrameOK
<1>3. /\ ds \in Seq(Frames) /\ Len(ds) = n + 1 /\ DOMAIN ds = 1..n + 1 /\ ds[n + 1] = f
      /\ \A k \in 1..n : ds[k] = cs[k]
  BY <1>1, <1>2
<1>4. /\ \A k \in 1..n : FrameOK(cs[k]) /\ (cs[k].kind = "network" <=> k = 1)
      /\ cs[1].base = 0 /\ cs[1].depth = 1
      /\ \A k \in 1..n - 1 : /\ cs[k + 1].base = cs[k].base + cs[k].held
                             /\ cs[k + 1].depth = cs[k].depth + Deeper(cs[k])
      /\ \A k, l \in 1..n : k < l => cs[k].base + cs[k].held <= cs[l].base
      /\ \A k \in 1..n : \A h \in 1..cs[k].held :
           ps[cs[k].base + h].name = DeclaredBy(cs[k], h)
      /\ Len(ps) = cs[n].base + cs[n].held
      /\ Len(pt) = cs[n].depth + Deeper(cs[n])
  BY <1>1 DEF Stacks, Chain, NamesHeld, Lengths
<1>5. \A k \in 1..n : cs[k].base \in Nat /\ cs[k].held \in Nat
  BY <1>4, FrameTypes
<1> HIDE DEF n, ds
<1>6. Chain(ds)
  <2>1. \A k \in DOMAIN ds : FrameOK(ds[k]) /\ (ds[k].kind = "network" <=> k = 1)
    <3>1. SUFFICES ASSUME NEW k \in 1..n + 1
                   PROVE FrameOK(ds[k]) /\ (ds[k].kind = "network" <=> k = 1)
      BY <1>3
    <3>2. CASE k = n + 1
      BY <1>1, <1>3, <3>2
    <3>3. CASE k # n + 1
      <4>1. k \in 1..n
        BY <1>1, <3>3
      <4>. QED
        BY <1>3, <1>4, <4>1
    <3>. QED
      BY <3>2, <3>3
  <2>2. ds[1].base = 0 /\ ds[1].depth = 1
    BY <1>1, <1>3, <1>4
  <2>3. \A k \in 1..Len(ds) - 1 : /\ ds[k + 1].base = ds[k].base + ds[k].held
                                  /\ ds[k + 1].depth = ds[k].depth + Deeper(ds[k])
    <3>1. SUFFICES ASSUME NEW k \in 1..n
                   PROVE /\ ds[k + 1].base = ds[k].base + ds[k].held
                         /\ ds[k + 1].depth = ds[k].depth + Deeper(ds[k])
      BY <1>1, <1>3
    <3>2. CASE k = n
      BY <1>3, <1>4, <3>2
    <3>3. CASE k # n
      <4>1. k \in 1..n - 1 /\ k + 1 \in 1..n
        BY <1>1, <3>3
      <4>. QED
        BY <1>3, <1>4, <4>1
    <3>. QED
      BY <3>2, <3>3
  <2>4. \A k, l \in DOMAIN ds : k < l => ds[k].base + ds[k].held <= ds[l].base
    <3>1. SUFFICES ASSUME NEW k \in 1..n + 1, NEW l \in 1..n + 1, k < l
                   PROVE ds[k].base + ds[k].held <= ds[l].base
      BY <1>3
    <3>2. k \in 1..n /\ ds[k] = cs[k]
      BY <1>1, <1>3, <3>1
    <3>3. CASE l = n + 1
      <4>1. cs[k].base + cs[k].held <= cs[n].base + cs[n].held
        <5>1. CASE k = n
          BY <1>5, <3>2, <5>1
        <5>2. CASE k # n
          <6>1. k < n /\ n \in 1..n
            BY <1>1, <3>2, <5>2
          <6>2. cs[k].base + cs[k].held <= cs[n].base
            BY <1>4, <3>2, <6>1
          <6>3. cs[n].base \in Nat /\ cs[n].held \in Nat
            BY <1>5, <6>1
          <6>4. cs[k].base \in Nat /\ cs[k].held \in Nat
            BY <1>5, <3>2
          <6>. QED
            BY SMTT(30), <6>2, <6>3, <6>4
        <5>. QED
          BY <5>1, <5>2
      <4>. QED
        BY <1>3, <1>4, <3>2, <3>3, <4>1
    <3>4. CASE l # n + 1
      <4>1. l \in 1..n /\ ds[l] = cs[l]
        BY <1>1, <1>3, <3>4
      <4>. QED
        BY <1>4, <3>1, <3>2, <4>1
    <3>. QED
      BY <3>3, <3>4
  <2>. QED
    BY <2>1, <2>2, <2>3, <2>4 DEF Chain
<1>7. Lengths(ds, ps, pt)
  <2>1. ds # <<>>
    BY <1>1, <1>3
  <2>2. Len(ps) \in Nat /\ Len(pt) \in Nat
    BY <1>1 DEF Names
  <2>. QED
    BY <1>3, <2>1, <2>2 DEF Lengths
<1>8. NamesHeld(ds, ps)
  <2>1. SUFFICES ASSUME NEW k \in 1..n + 1, NEW h \in 1..ds[k].held
                 PROVE ps[ds[k].base + h].name = DeclaredBy(ds[k], h)
    BY <1>3 DEF NamesHeld
  <2>2. k # n + 1
    BY <1>3, <2>1
  <2>3. k \in 1..n /\ ds[k] = cs[k]
    BY <1>1, <1>3, <2>2
  <2>. QED
    BY <1>4, <2>3
<1>. QED
  BY <1>1, <1>3, <1>6, <1>7, <1>8 DEF Stacks, ds

(* A function returns, and has taken off what it held. *)
LEMMA Popped ==
  ASSUME NEW cs, NEW ps, NEW pt, Stacks(cs, ps, pt), cs # <<>>, Deeper(cs[Len(cs)]) = 0,
         NEW ps2 \in Seq(Param), Len(ps2) = cs[Len(cs)].base,
         \A x \in 1..cs[Len(cs)].base : ps2[x] = ps[x]
  PROVE  Stacks(Front(cs), ps2, pt) /\ (Len(cs) > 1 => Front(cs) # <<>>)
<1> DEFINE n == Len(cs)
           ds == Front(cs)
<1>1. /\ cs \in Seq(Frames) /\ n \in Nat \ {0} /\ DOMAIN cs = 1..n
      /\ ps \in Seq(Param) /\ pt \in Names
  BY DEF Stacks
<1>2. /\ ds \in Seq(Frames) /\ Len(ds) = n - 1 /\ DOMAIN ds = 1..n - 1
      /\ \A k \in 1..n - 1 : ds[k] = cs[k]
  BY <1>1, SubSeqProperties DEF Front
<1>3. /\ \A k \in 1..n : FrameOK(cs[k]) /\ (cs[k].kind = "network" <=> k = 1)
      /\ cs[1].base = 0 /\ cs[1].depth = 1
      /\ \A k \in 1..n - 1 : /\ cs[k + 1].base = cs[k].base + cs[k].held
                             /\ cs[k + 1].depth = cs[k].depth + Deeper(cs[k])
      /\ \A k, l \in 1..n : k < l => cs[k].base + cs[k].held <= cs[l].base
      /\ \A k \in 1..n : \A h \in 1..cs[k].held :
           ps[cs[k].base + h].name = DeclaredBy(cs[k], h)
      /\ Len(pt) = cs[n].depth + Deeper(cs[n])
  BY <1>1 DEF Stacks, Chain, NamesHeld, Lengths
<1>4. \A k \in 1..n : cs[k].base \in Nat /\ cs[k].held \in Nat /\ cs[k].depth \in Nat
  BY <1>3, FrameTypes
<1>5. Deeper(cs[n]) = 0 /\ Len(ps2) = cs[n].base /\ \A x \in 1..cs[n].base : ps2[x] = ps[x]
  OBVIOUS
<1> HIDE DEF n, ds
<1>6. Chain(ds)
  <2>1. ds # <<>> => n - 1 >= 1 /\ ds[1] = cs[1]
    BY <1>1, <1>2
  <2>2. \A k \in 1..Len(ds) - 1 : k \in 1..n - 1 /\ k + 1 \in 1..n - 1
    BY <1>1, <1>2
  <2>3. \A k \in 1..n - 1 : k \in 1..n
    BY <1>1
  <2>4. \A k \in 1..n - 1 : FrameOK(ds[k]) /\ (ds[k].kind = "network" <=> k = 1)
    BY <1>2, <1>3, <2>3
  <2>5. \A k \in 1..Len(ds) - 1 : /\ ds[k + 1].base = ds[k].base + ds[k].held
                                  /\ ds[k + 1].depth = ds[k].depth + Deeper(ds[k])
    BY <1>2, <1>3, <2>2
  <2>6. \A k, l \in 1..n - 1 : k < l => ds[k].base + ds[k].held <= ds[l].base
    <3>1. SUFFICES ASSUME NEW k \in 1..n - 1, NEW l \in 1..n - 1, k < l
                   PROVE ds[k].base + ds[k].held <= ds[l].base
      OBVIOUS
    <3>2. k \in 1..n /\ l \in 1..n /\ ds[k] = cs[k] /\ ds[l] = cs[l]
      BY <1>2, <2>3
    <3>. QED
      BY <1>3, <3>1, <3>2
  <2>. QED
    BY <1>2, <1>3, <2>1, <2>4, <2>5, <2>6 DEF Chain
<1>7. Lengths(ds, ps2, pt)
  <2>1. CASE n = 1
    <3>1. ds = <<>>
      BY <1>2, <2>1, EmptySeq
    <3>2. Len(ps2) = 0 /\ Len(pt) = 1
      BY <1>3, <1>5, <2>1
    <3>3. ps2 = <<>>
      BY <3>2, EmptySeq
    <3>. QED
      BY <3>1, <3>2, <3>3 DEF Lengths
  <2>2. CASE n # 1
    <3>1. n - 1 \in 1..n - 1 /\ n - 1 + 1 = n
      BY <1>1, <2>2
    <3>2. ds # <<>> /\ ds[n - 1] = cs[n - 1]
      BY <1>1, <1>2, <3>1
    <3>3. /\ cs[n].base = cs[n - 1].base + cs[n - 1].held
          /\ cs[n].depth = cs[n - 1].depth + Deeper(cs[n - 1])
      BY <1>3, <3>1
    <3>4. cs[n].depth + 0 = cs[n].depth
      BY <1>1, <1>4
    <3>. QED
      BY <1>2, <1>3, <1>5, <3>2, <3>3, <3>4 DEF Lengths
  <2>. QED
    BY <2>1, <2>2
<1>8. NamesHeld(ds, ps2)
  <2>1. SUFFICES ASSUME NEW k \in 1..n - 1, NEW h \in 1..ds[k].held
                 PROVE ps2[ds[k].base + h].name = DeclaredBy(ds[k], h)
    BY <1>2 DEF NamesHeld
  <2>2. ds[k] = cs[k] /\ k \in 1..n /\ n \in 1..n /\ k < n
    BY <1>1, <1>2
  <2>3. cs[k].base + cs[k].held <= cs[n].base
    BY <1>3, <2>2
  <2>4. cs[k].base \in Nat /\ cs[k].held \in Nat /\ cs[n].base \in Nat
    BY <1>4, <2>2
  <2>5. h \in 1..cs[k].held
    BY <2>1, <2>2
  <2>6. cs[k].base + h \in 1..cs[n].base
    BY <2>3, <2>4, <2>5, Below
  <2>7. ps2[cs[k].base + h] = ps[cs[k].base + h]
    BY <1>5, <2>6
  <2>8. ps[cs[k].base + h].name = DeclaredBy(cs[k], h)
    BY <1>3, <2>2, <2>5
  <2>. QED
    BY <2>2, <2>7, <2>8
<1>9. n > 1 => ds # <<>>
  BY <1>1, <1>2
<1>. QED
  BY <1>1, <1>2, <1>6, <1>7, <1>8, <1>9 DEF Stacks, ds, n
----------------------------------------------------------------------------
(* The frame in hand only changes its place, its counter or its limit. *)
LEMMA Moved ==
  ASSUME NEW cs, NEW ps, NEW pt, Stacks(cs, ps, pt), cs # <<>>,
         NEW f, FrameOK(f), f.base = cs[Len(cs)].base, f.depth = cs[Len(cs)].depth,
         f.kind = cs[Len(cs)].kind, f.node = cs[Len(cs)].node, f.held = cs[Len(cs)].held,
         Deeper(f) = Deeper(cs[Len(cs)])
  PROVE  Stacks([cs EXCEPT ![Len(cs)] = f], ps, pt)
<1>1. ps \in Seq(Param) /\ pt \in Names /\ Len(cs) \in DOMAIN cs
  BY DEF Stacks
<1>2. Len(ps) = f.base + f.held /\ Len(pt) = f.depth + Deeper(f)
  BY DEF Stacks, Lengths
<1>3. \A h \in 1..f.held : ps[f.base + h].name = DeclaredBy(f, h)
  BY <1>1 DEF Stacks, NamesHeld, DeclaredBy
<1>. QED
  BY <1>1, <1>2, <1>3, Replaced

(* What the invariant says of the function in hand. *)
LEMMA InHand ==
  ASSUME IInv, calls # <<>>
  PROVE  /\ Len(calls) \in Nat \ {0} /\ Top = calls[Len(calls)]
         /\ FrameOK(Top) /\ (Top.kind = "network" <=> Len(calls) = 1)
         /\ Len(params) = Top.base + Top.held
         /\ Len(path) = Top.depth + Deeper(Top)
         /\ params \in Seq(Param) /\ path \in Names
         /\ \A h \in 1..Top.held : params[Top.base + h].name = DeclaredBy(Top, h)
<1>1. /\ calls \in Seq(Frames) /\ params \in Seq(Param) /\ path \in Names
      /\ Chain(calls) /\ Lengths(calls, params, path) /\ NamesHeld(calls, params)
  BY DEF IInv, Stacks
<1>2. Len(calls) \in Nat \ {0} /\ DOMAIN calls = 1..Len(calls) /\ Top = calls[Len(calls)]
  BY <1>1 DEF Top, Last
<1>3. Len(calls) \in DOMAIN calls
  BY <1>2
<1>4. FrameOK(Top) /\ (Top.kind = "network" <=> Len(calls) = 1)
  BY <1>1, <1>2, <1>3 DEF Chain
<1>5. Len(params) = Top.base + Top.held /\ Len(path) = Top.depth + Deeper(Top)
  BY <1>1, <1>2 DEF Lengths
<1>6. \A h \in 1..Top.held : params[Top.base + h].name = DeclaredBy(Top, h)
  BY <1>1, <1>2, <1>3 DEF NamesHeld
<1>. QED
  BY <1>1, <1>2, <1>4, <1>5, <1>6

(* The first hit of find_module is a module. *)
LEMMA ModuleFound ==
  ASSUME NEW def \in Networks, NEW name, Hits(def, name) # {}
  PROVE  FindModule(def, name) \in Modules
<1>1. def.modules \in Seq(Modules)
  BY ExpandAssumption DEF Network
<1>2. Hits(def, name) \in SUBSET Nat
  BY <1>1 DEF Hits
<1>3. Min(Hits(def, name)) \in Hits(def, name)
  BY <1>2, MinIsLeast
<1>4. Hits(def, name) \subseteq DOMAIN def.modules
  BY DEF Hits
<1>5. Min(Hits(def, name)) \in DOMAIN def.modules
  BY <1>3, <1>4
<1>. QED
  BY <1>1, <1>5 DEF FindModule

(* Values are integers. *)
LEMMA ValueOfParam ==
  ASSUME NEW stack \in Seq(Param), NEW e \in Expr, Evaluates(stack, e)
  PROVE  Eval(stack, e) \in Int
<1>1. e.plus \in Int
  BY DEF Expr
<1>2. CASE e.var = NoVar
  BY <1>1, <1>2 DEF Eval
<1>3. CASE e.var # NoVar
  <2>1. Entries(stack, e.var) # {}
    BY <1>3 DEF Evaluates
  <2> DEFINE i == CHOOSE k \in Entries(stack, e.var) : TRUE
  <2>2. i \in Entries(stack, e.var)
    BY <2>1
  <2>3. Eval(stack, e) = e.plus + stack[i].value
    BY <1>3 DEF Eval
  <2> HIDE DEF i
  <2>4. stack[i] \in Param
    BY <2>2 DEF Entries
  <2>. QED
    BY <1>1, <2>3, <2>4 DEF Param
<1>. QED
  BY <1>2, <1>3

(* param_stack_enter and param_stack_leave. *)
LEMMA Entered ==
  ASSUME NEW stack \in Seq(Param), NEW x \in Vars, NEW val \in Int
  PROVE  /\ Enter(stack, x, val) \in Seq(Param)
         /\ Len(Enter(stack, x, val)) = Len(stack) + 1
         /\ \A k \in 1..Len(stack) : Enter(stack, x, val)[k] = stack[k]
         /\ Enter(stack, x, val)[Len(stack) + 1].name = x
BY DEF Enter, Param

LEMMA Left ==
  ASSUME NEW stack \in Seq(Param), NEW count \in Nat, NEW rest \in Nat,
         Len(stack) = rest + count
  PROVE  /\ Leave(stack, count) \in Seq(Param)
         /\ Len(Leave(stack, count)) = rest
         /\ \A k \in 1..rest : Leave(stack, count)[k] = stack[k]
<1>1. Len(stack) - count = rest /\ \A i \in 1..rest : stack[i] \in Param
  OBVIOUS
<1>. QED
  BY <1>1, SubSeqProperties DEF Leave
----------------------------------------------------------------------------
(* The ways in which a step changes the call stack. *)
LEMMA AboveOne ==
  ASSUME NEW n \in Nat \ {0}, n # 1
  PROVE  n > 1
OBVIOUS

LEMMA FailStep ==
  ASSUME IInv, NEW code \in {"EVAL", "NOMOD", "LOOP"}, Fail(code), net' = net
  PROVE  IInv'
BY DEF IInv, Fail

LEMMA MoveStep ==
  ASSUME IInv, calls # <<>>, NEW f, FrameOK(f), f.base = Top.base, f.depth = Top.depth,
         f.kind = Top.kind, f.node = Top.node, f.held = Top.held, Deeper(f) = Deeper(Top),
         Becomes(f), UNCHANGED <<net, params, path, res>>
  PROVE  IInv'
<1>1. Stacks(calls, params, path) /\ Top = calls[Len(calls)]
  BY InHand DEF IInv
<1>2. Stacks(calls', params, path)
  BY <1>1, Moved DEF Becomes
<1>3. calls' # <<>>
  BY InHand DEF IInv, Stacks, Becomes
<1>. QED
  BY <1>2, <1>3 DEF IInv

(* What it holds changes too. *)
LEMMA ReplaceStep ==
  ASSUME IInv, calls # <<>>, NEW f, FrameOK(f), f.base = Top.base, f.depth = Top.depth,
         f.kind = Top.kind, Becomes(f), net' = net, res' \in {res, "NOMOD"},
         params' \in Seq(Param), path' \in Names,
         Len(params') = f.base + f.held, Len(path') = f.depth + Deeper(f),
         \A x \in 1..f.base : params'[x] = params[x],
         \A h \in 1..f.held : params'[f.base + h].name = DeclaredBy(f, h)
  PROVE  IInv'
<1>1. Stacks(calls, params, path) /\ Top = calls[Len(calls)]
  BY InHand DEF IInv
<1>2. Stacks(calls', params', path')
  BY <1>1, Replaced DEF Becomes
<1>3. calls' # <<>>
  BY InHand DEF IInv, Stacks, Becomes
<1>. QED
  BY <1>2, <1>3 DEF IInv

LEMMA CallStep ==
  ASSUME IInv, calls # <<>>, NEW f, FrameOK(f), f.base = Top.base, f.depth = Top.depth,
         f.kind = Top.kind, UNCHANGED <<net, res>>,
         params' \in Seq(Param), path' \in Names,
         Len(params') = f.base + f.held, Len(path') = f.depth + Deeper(f),
         \A x \in 1..f.base : params'[x] = params[x],
         \A h \in 1..f.held : params'[f.base + h].name = DeclaredBy(f, h),
         NEW callee, FrameOK(callee), callee.kind # "network", callee.held = 0,
         Deeper(callee) = 0, callee.base = Len(params'), callee.depth = Len(path'),
         Calls(f, callee)
  PROVE  IInv'
<1> DEFINE cs == [calls EXCEPT ![Len(calls)] = f]
<1>1. Stacks(calls, params, path) /\ Top = calls[Len(calls)]
  BY InHand DEF IInv
<1>2. Stacks(cs, params', path')
  BY <1>1, Replaced
<1>3. cs # <<>>
  BY InHand DEF IInv, Stacks
<1>4. calls' = Append(cs, callee)
  BY DEF Calls
<1> HIDE DEF cs
<1>5. Stacks(calls', params', path')
  BY <1>2, <1>3, <1>4, Pushed
<1>6. calls' # <<>>
  BY <1>2, <1>4 DEF Stacks
<1>. QED
  BY <1>5, <1>6 DEF IInv

LEMMA ReturnStep ==
  ASSUME IInv, calls # <<>>, Deeper(Top) = 0, Returns, UNCHANGED <<net, path>>,
         params' = Leave(params, Top.held),
         res' \in {"run", "ok"}, res' = "run" => Top.kind # "network"
  PROVE  IInv'
<1>1. Stacks(calls, params, path) /\ Top = calls[Len(calls)] /\ FrameOK(Top)
  BY InHand DEF IInv
<1>2. Top.base \in Nat /\ Top.held \in Nat
  BY <1>1, FrameTypes
<1>3. /\ params' \in Seq(Param) /\ Len(params') = Top.base
      /\ \A x \in 1..Top.base : params'[x] = params[x]
  <2>1. Len(params) = Top.base + Top.held /\ params \in Seq(Param)
    BY InHand
  <2>. QED
    BY <1>2, <2>1, Left
<1>4. /\ Deeper(calls[Len(calls)]) = 0 /\ Len(params') = calls[Len(calls)].base
      /\ \A x \in 1..calls[Len(calls)].base : params'[x] = params[x]
  BY <1>1, <1>3
<1>5. Stacks(Front(calls), params', path) /\ (Len(calls) > 1 => Front(calls) # <<>>)
  BY <1>1, <1>3, <1>4, Popped
<1>6. Len(calls) \in Nat \ {0} /\ (res' = "run" => Len(calls) # 1)
  BY InHand
<1>7. res' = "run" => Len(calls) > 1
  BY <1>6, AboveOne
<1>. QED
  BY <1>5, <1>7 DEF IInv, Returns

(* A function that holds nothing returns. *)
LEMMA PlainReturn ==
  ASSUME IInv, calls # <<>>, Deeper(Top) = 0, Top.held = 0, Top.kind # "network",
         Returns, UNCHANGED <<net, params, path, res>>
  PROVE  IInv'
<1>1. Stacks(calls, params, path) /\ Top = calls[Len(calls)] /\ FrameOK(Top)
  BY InHand DEF IInv
<1>2. Len(params) = Top.base /\ params \in Seq(Param)
  BY <1>1, InHand, FrameTypes
<1>3. Deeper(calls[Len(calls)]) = 0 /\ Len(params) = calls[Len(calls)].base
  BY <1>1, <1>2
<1>4. Stacks(Front(calls), params, path) /\ (Len(calls) > 1 => Front(calls) # <<>>)
  BY <1>1, <1>2, <1>3, Popped
<1>5. Len(calls) \in Nat \ {0} /\ Len(calls) # 1
  BY InHand
<1>6. Len(calls) > 1
  BY <1>5, AboveOne
<1>. QED
  BY <1>4, <1>6 DEF IInv, Returns
----------------------------------------------------------------------------
(* The function in hand when an action is taken. *)
LEMMA Ready ==
  ASSUME IInv, NEW kind, NEW at, Running(kind, at)
  PROVE  /\ calls # <<>> /\ res = "run" /\ Top.kind = kind /\ Top.at = at
         /\ FrameOK(Top) /\ Top \in Frames
         /\ Top.held \in Nat /\ Top.base \in Nat /\ Top.depth \in Nat
         /\ Top.i \in Int /\ Top.last \in Int
<1>1. calls # <<>> /\ res = "run" /\ Top.kind = kind /\ Top.at = at
  BY DEF IInv, Running
<1>2. FrameOK(Top)
  BY <1>1, InHand
<1>. QED
  BY <1>1, <1>2, FrameTypes DEF FrameOK

(* The definitions that frames have for arguments. *)
LEMMA Arguments ==
  ASSUME NEW f, FrameOK(f)
  PROVE  /\ f.kind = "network" => f.node \in Network
         /\ f.kind = "module" => f.node \in Module
         /\ f.kind = "sub" => f.node \in PlainSub \cup CondSub
         /\ f.kind = "conn" =>
              f.node \in PlainConn \cup LoopConn \cup CondConn \cup ListConn \cup MatchConn
BY ExpandAssumption DEF FrameOK

LEMMA FrameOfModule ==
  ASSUME NEW mod \in Modules, NEW stack \in Seq(Param), NEW names \in Names
  PROVE  LET f == Frame("module", mod, "params", stack, names)
         IN  /\ FrameOK(f) /\ f.kind = "module" /\ f.held = 0 /\ Deeper(f) = 0
             /\ f.base = Len(stack) /\ f.depth = Len(names)
<1>1. Len(stack) \in Nat /\ Len(names) \in Nat
  BY DEF Names
<1>2. mod.params \in Seq(RawParam)
  BY ExpandAssumption DEF Module
<1>3. 0 \in 0..Len(mod.params)
  BY <1>2
<1> DEFINE f == Frame("module", mod, "params", stack, names)
<1>4. /\ f \in Frames /\ f.kind = "module" /\ f.node = mod /\ f.at = "params" /\ f.held = 0
      /\ f.i = 1
      /\ f.base = Len(stack) /\ f.depth = Len(names)
  BY <1>1 DEF Frames, Stages, Frame
<1> HIDE DEF f
<1>5. FrameOK(f)
  BY <1>3, <1>4 DEF FrameOK
<1>6. Deeper(f) = 0
  BY <1>4 DEF Deeper
<1>. QED
  BY <1>4, <1>5, <1>6 DEF f

LEMMA FrameOfSub ==
  ASSUME NEW node \in Subs, NEW stack \in Seq(Param), NEW names \in Names
  PROVE  LET f == Frame("sub", node, "start", stack, names)
         IN  /\ FrameOK(f) /\ f.kind = "sub" /\ f.held = 0 /\ Deeper(f) = 0
             /\ f.base = Len(stack) /\ f.depth = Len(names)
<1>1. Len(stack) \in Nat /\ Len(names) \in Nat
  BY DEF Names
<1> DEFINE f == Frame("sub", node, "start", stack, names)
<1>2. /\ f \in Frames /\ f.kind = "sub" /\ f.node = node /\ f.at = "start" /\ f.held = 0
      /\ f.base = Len(stack) /\ f.depth = Len(names)
  BY <1>1 DEF Frames, Stages, Frame
<1> HIDE DEF f
<1>3. FrameOK(f)
  BY <1>2 DEF FrameOK
<1>4. Deeper(f) = 0
  BY <1>2 DEF Deeper
<1>. QED
  BY <1>2, <1>3, <1>4 DEF f

LEMMA FrameOfConn ==
  ASSUME NEW node \in Conns, NEW stack \in Seq(Param), NEW names \in Names
  PROVE  LET f == Frame("conn", node, "start", stack, names)
         IN  /\ FrameOK(f) /\ f.kind = "conn" /\ f.held = 0 /\ Deeper(f) = 0
             /\ f.base = Len(stack) /\ f.depth = Len(names)
<1>1. Len(stack) \in Nat /\ Len(names) \in Nat
  BY DEF Names
<1> DEFINE f == Frame("conn", node, "start", stack, names)
<1>2. /\ f \in Frames /\ f.kind = "conn" /\ f.node = node /\ f.at = "start" /\ f.held = 0
      /\ f.base = Len(stack) /\ f.depth = Len(names)
  BY <1>1 DEF Frames, Stages, Frame
<1> HIDE DEF f
<1>3. FrameOK(f)
  BY <1>2 DEF FrameOK
<1>4. Deeper(f) = 0
  BY <1>2 DEF Deeper
<1>. QED
  BY <1>2, <1>3, <1>4 DEF f

LEMMA FindRootStep ==
  ASSUME IInv, FindRoot
  PROVE  IInv'
<1>1. /\ calls # <<>> /\ FrameOK(Top) /\ Top.kind = "network" /\ Top.at = "start"
      /\ Top \in Frames
  BY Ready DEF FindRoot
<1>2. CASE Hits(Top.node, Top.node.module) = {}
  BY <1>2, FailStep DEF FindRoot
<1>3. CASE Hits(Top.node, Top.node.module) # {}
  <2> DEFINE f == [Top EXCEPT !.at = "params"]
  <2>1. Len(Top.node.params) \in Nat
    BY <1>1, Arguments DEF Network
  <2>2. Becomes(f) /\ UNCHANGED <<net, params, path, res>>
    BY <1>3 DEF FindRoot
  <2>3. /\ f \in Frames /\ f.base = Top.base /\ f.depth = Top.depth /\ f.kind = "network"
        /\ f.at = "params" /\ f.node = Top.node /\ f.held = Top.held
    BY <1>1 DEF Frames, Stages
  <2> HIDE DEF f
  <2>4. Top.node \in Networks /\ Top.held = 0
    BY <1>1 DEF FrameOK
  <2>5. FrameOK(f)
    BY <1>3, <2>1, <2>3, <2>4 DEF FrameOK
  <2>6. Deeper(f) = Deeper(Top)
    BY <1>1, <2>3 DEF Deeper
  <2>. QED
    BY <1>1, <2>2, <2>3, <2>5, <2>6, MoveStep
<1>. QED
  BY <1>2, <1>3

LEMMA EnterParamStep ==
  ASSUME IInv, EnterParam
  PROVE  IInv'
<1> DEFINE raw == Top.node.params[Top.held + 1]
           f == [Top EXCEPT !.held = @ + 1]
<1>1. /\ calls # <<>> /\ FrameOK(Top) /\ Top.kind \in {"network", "sub", "module"}
      /\ Top.at = "params" /\ Top \in Frames /\ Top.held \in Nat /\ Top.base \in Nat
      /\ Top.depth \in Nat
  BY Ready DEF EnterParam
<1>2. Top.node.params \in Seq(RawParam) /\ Top.held < Len(Top.node.params)
  <2>1. CASE Top.kind = "network"
    BY <1>1, <2>1, Arguments DEF Network, EnterParam
  <2>2. CASE Top.kind = "module"
    BY <1>1, <2>2, Arguments DEF Module, EnterParam
  <2>3. CASE Top.kind = "sub"
    <3>1. Top.node \in PlainSub
      BY <1>1, <2>3 DEF FrameOK
    <3>. QED
      BY <3>1 DEF PlainSub, EnterParam
  <2>. QED
    BY <1>1, <2>1, <2>2, <2>3
<1>3. raw \in RawParam
  BY <1>1, <1>2
<1>4. raw.name \in Vars /\ raw.value \in Expr
  BY <1>3 DEF RawParam
<1>5. CASE ~Evaluates(params, raw.value)
  BY <1>5, FailStep DEF EnterParam
<1>6. CASE Evaluates(params, raw.value)
  <2>1. /\ params' = Enter(params, raw.name, Eval(params, raw.value))
        /\ Becomes(f) /\ UNCHANGED <<net, path, res>>
    BY <1>6 DEF EnterParam
  <2>2. /\ params \in Seq(Param) /\ path \in Names /\ Len(params) = Top.base + Top.held
        /\ Len(path) = Top.depth + Deeper(Top)
        /\ \A h \in 1..Top.held : params[Top.base + h].name = DeclaredBy(Top, h)
    BY <1>1, InHand
  <2>3. Eval(params, raw.value) \in Int
    BY <1>4, <1>6, <2>2, ValueOfParam
  <2>4. /\ params' \in Seq(Param) /\ Len(params') = Len(params) + 1
        /\ \A k \in 1..Len(params) : params'[k] = params[k]
        /\ params'[Len(params) + 1].name = raw.name
    BY ZenonT(30), <1>4, <2>1, <2>2, <2>3, Entered
  <2>5. /\ f \in Frames /\ f.i = Top.i /\ f.base = Top.base /\ f.depth = Top.depth /\ f.kind = Top.kind
        /\ f.at = "params" /\ f.held = Top.held + 1 /\ f.node = Top.node
    BY <1>1 DEF Frames, Stages
  <2> HIDE DEF f, raw
  <2>6. f.held \in 0..Len(f.node.params)
    BY <1>1, <1>2, <2>5
  <2>7. /\ Top.kind = "module" => f.i >= 1
        /\ Top.kind = "network" => Top.node \in Networks /\ Hits(Top.node, Top.node.module) # {}
        /\ Top.kind = "module" => Top.node \in Modules
        /\ Top.kind = "sub" => Top.node \in Subs /\ Top.node \in PlainSub
    BY <1>1, <2>5 DEF FrameOK
  <2>8. FrameOK(f)
    BY <1>1, <2>5, <2>6, <2>7 DEF FrameOK
  <2>9. Deeper(f) = Deeper(Top)
    BY <1>1, <2>5 DEF Deeper
  <2>10. /\ FrameOK(f) /\ f.base = Top.base /\ f.depth = Top.depth /\ f.kind = Top.kind
        /\ f.held = Top.held + 1 /\ f.node = Top.node /\ Deeper(f) = Deeper(Top)
    BY <2>5, <2>8, <2>9
  <2>11. \A h \in 1..f.held : params'[f.base + h].name = DeclaredBy(f, h)
    <3>1. SUFFICES ASSUME NEW h \in 1..f.held
                   PROVE params'[f.base + h].name = DeclaredBy(f, h)
      OBVIOUS
    <3>2. CASE h = Top.held + 1
      <4>1. params'[f.base + h].name = raw.name
        BY SMTT(30), <1>1, <2>2, <2>4, <2>10, <3>2
      <4>2. DeclaredBy(f, h) = raw.name
        BY <1>1, <1>2, <2>10, <3>2 DEF DeclaredBy, raw
      <4>. QED
        BY <4>1, <4>2
    <3>3. CASE h # Top.held + 1
      <4>1. h \in 1..Top.held
        BY <1>1, <2>10, <3>1, <3>3
      <4>2. Top.base + h \in 1..Len(params)
        BY <1>1, <2>2, <4>1
      <4>3. DeclaredBy(f, h) = DeclaredBy(Top, h)
        BY <2>10 DEF DeclaredBy
      <4>. QED
        BY <2>2, <2>4, <2>10, <4>1, <4>2, <4>3
    <3>. QED
      BY <3>2, <3>3
  <2>12. \A x \in 1..f.base : params'[x] = params[x]
    <3>1. \A x \in 1..f.base : x \in 1..Len(params)
      BY <1>1, <2>2, <2>10
    <3>. QED
      BY <2>4, <3>1
  <2>13. Len(params') = f.base + f.held
    BY <1>1, <2>2, <2>4, <2>10
  <2>14. path' \in Names /\ Len(path') = f.depth + Deeper(f)
    BY <2>1, <2>2, <2>10
  <2>. QED
    BY <1>1, <2>1, <2>4, <2>10, <2>11, <2>12, <2>13, <2>14, ReplaceStep
<1>. QED
  BY <1>5, <1>6

(* A call that leaves what the caller holds as it was. *)
LEMMA PlainCall ==
  ASSUME IInv, calls # <<>>, NEW f, FrameOK(f), f.base = Top.base, f.depth = Top.depth,
         f.kind = Top.kind, f.node = Top.node, f.held = Top.held, Deeper(f) = Deeper(Top),
         UNCHANGED <<net, params, path, res>>,
         NEW callee, FrameOK(callee), callee.kind # "network", callee.held = 0,
         Deeper(callee) = 0, callee.base = Len(params), callee.depth = Len(path),
         Calls(f, callee)
  PROVE  IInv'
<1>1. /\ params \in Seq(Param) /\ path \in Names /\ Len(params) = Top.base + Top.held
      /\ Len(path) = Top.depth + Deeper(Top)
      /\ \A h \in 1..Top.held : params[Top.base + h].name = DeclaredBy(Top, h)
  BY InHand
<1>2. \A h \in 1..f.held : params[f.base + h].name = DeclaredBy(f, h)
  BY <1>1 DEF DeclaredBy
<1>3. /\ params' \in Seq(Param) /\ path' \in Names /\ Len(params') = f.base + f.held
      /\ Len(path') = f.depth + Deeper(f) /\ callee.base = Len(params')
      /\ callee.depth = Len(path')
  BY <1>1
<1>4. /\ \A x \in 1..f.base : params'[x] = params[x]
      /\ \A h \in 1..f.held : params'[f.base + h].name = DeclaredBy(f, h)
  BY <1>2
<1>. QED
  BY <1>3, <1>4, CallStep

LEMMA ExpandRootStep ==
  ASSUME IInv, ExpandRoot
  PROVE  IInv'
<1> DEFINE f == [Top EXCEPT !.at = "inside"]
           mod == FindModule(Top.node, Top.node.module)
           callee == Frame("module", mod, "params", params, path)
<1>1. /\ calls # <<>> /\ FrameOK(Top) /\ Top.kind = "network" /\ Top.at = "params"
      /\ Top \in Frames
  BY Ready DEF ExpandRoot
<1>2. Top.held = Len(Top.node.params) /\ Top.node \in Networks
  BY <1>1 DEF ExpandRoot, ParamsEntered, FrameOK
<1>3. /\ f \in Frames /\ f.base = Top.base /\ f.depth = Top.depth /\ f.kind = "network"
      /\ f.at = "inside" /\ f.node = Top.node /\ f.held = Top.held
  BY <1>1 DEF Frames, Stages
<1>4. Calls(f, callee) /\ UNCHANGED <<net, params, path, res>>
  BY DEF ExpandRoot, GoesOn
<1> HIDE DEF f
<1>5. FrameOK(f) /\ Deeper(f) = Deeper(Top)
  BY <1>1, <1>2, <1>3 DEF FrameOK, Deeper
<1>6. mod \in Modules
  <2>1. Hits(Top.node, Top.node.module) # {}
    BY <1>1 DEF FrameOK
  <2>. QED
    BY <1>2, <2>1, ModuleFound
<1>7. /\ FrameOK(callee) /\ callee.kind = "module" /\ callee.held = 0 /\ Deeper(callee) = 0
      /\ callee.base = Len(params) /\ callee.depth = Len(path)
  <2>1. params \in Seq(Param) /\ path \in Names
    BY <1>1, InHand
  <2> HIDE DEF mod
  <2>. QED
    BY <1>6, <2>1, FrameOfModule
<1>. QED
  BY <1>1, <1>3, <1>4, <1>5, <1>7, PlainCall

LEMMA ExpandDoneStep ==
  ASSUME IInv, ExpandDone
  PROVE  IInv'
<1>1. calls # <<>> /\ Top.kind = "network"
  BY Ready DEF ExpandDone
<1>2. Deeper(Top) = 0
  BY <1>1 DEF Deeper
<1>. QED
  BY <1>1, <1>2, ReturnStep DEF ExpandDone

LEMMA ModuleGatesStep ==
  ASSUME IInv, ModuleGates
  PROVE  IInv'
<1> DEFINE f == [Top EXCEPT !.at = "gates"]
<1>1. /\ calls # <<>> /\ FrameOK(Top) /\ Top.kind = "module" /\ Top.at = "params"
      /\ Top \in Frames
  BY Ready DEF ModuleGates
<1>2. Top.held = Len(Top.node.params) /\ Top.node \in Modules /\ Top.i >= 1
  BY <1>1 DEF ModuleGates, ParamsEntered, FrameOK
<1>3. /\ f \in Frames /\ f.base = Top.base /\ f.depth = Top.depth /\ f.kind = "module" /\ f.i >= 1
      /\ f.at = "gates" /\ f.node = Top.node /\ f.held = Top.held
  BY <1>1, <1>2 DEF Frames, Stages
<1>4. Becomes(f) /\ UNCHANGED <<net, params, path, res>>
  BY DEF ModuleGates, GoesOn
<1> HIDE DEF f
<1>5. FrameOK(f) /\ Deeper(f) = Deeper(Top)
  BY <1>1, <1>2, <1>3 DEF FrameOK, Deeper
<1>. QED
  BY <1>1, <1>3, <1>4, <1>5, MoveStep

LEMMA GatesMadeStep ==
  ASSUME IInv, GatesMade
  PROVE  IInv'
<1> DEFINE at == IF Top.node.kind = "simple" THEN "end" ELSE "subs"
           f == [Top EXCEPT !.at = at]
<1>1. /\ calls # <<>> /\ FrameOK(Top) /\ Top.kind = "module" /\ Top.at = "gates"
      /\ Top \in Frames
  BY Ready DEF GatesMade
<1>2. CASE BadGates(Top.node.gates) # {}
  BY <1>2, FailStep DEF GatesMade
<1>3. CASE BadGates(Top.node.gates) = {}
  <2>1. Becomes(f) /\ UNCHANGED <<net, params, path, res>>
    BY <1>3 DEF GatesMade
  <2>2. Top.held = Len(Top.node.params) /\ Top.node \in Modules /\ Top.i >= 1
    BY <1>1 DEF FrameOK
  <2>3. at \in {"end", "subs"}
    OBVIOUS
  <2> HIDE DEF at
  <2>4. /\ f \in Frames /\ f.base = Top.base /\ f.depth = Top.depth /\ f.kind = "module" /\ f.i >= 1
        /\ f.at = at /\ f.node = Top.node /\ f.held = Top.held
    BY <1>1, <2>2, <2>3 DEF Frames, Stages
  <2> HIDE DEF f
  <2>5. FrameOK(f) /\ Deeper(f) = Deeper(Top)
    BY <1>1, <2>2, <2>3, <2>4 DEF FrameOK, Deeper
  <2>. QED
    BY <1>1, <2>1, <2>4, <2>5, MoveStep
<1>. QED
  BY <1>2, <1>3

LEMMA NextSubStep ==
  ASSUME IInv, NextSub
  PROVE  IInv'
<1>1. /\ calls # <<>> /\ FrameOK(Top) /\ Top.kind = "module" /\ Top.at = "subs"
      /\ Top \in Frames /\ Top.i \in Int
  BY Ready DEF NextSub
<1>2. Top.held = Len(Top.node.params) /\ Top.node \in Modules /\ Top.i >= 1
  BY <1>1 DEF FrameOK
<1>3. CASE Top.i <= Len(Top.node.subs)
  <2> DEFINE f == [Top EXCEPT !.i = @ + 1]
             node == Top.node.subs[Top.i]
             callee == Frame("sub", node, "start", params, path)
  <2>1. Calls(f, callee) /\ UNCHANGED <<net, params, path, res>>
    BY <1>3 DEF NextSub, GoesOn
  <2>2. node \in Subs
    <3>1. Top.node.subs \in Seq(Subs)
      BY <1>2, ExpandAssumption DEF Module
    <3>2. Top.i \in 1..Len(Top.node.subs)
      BY <1>1, <1>2, <1>3, <3>1
    <3>. QED
      BY <3>1, <3>2
  <2>3. /\ f \in Frames /\ f.base = Top.base /\ f.depth = Top.depth /\ f.kind = "module" /\ f.i >= 1
        /\ f.at = "subs" /\ f.node = Top.node /\ f.held = Top.held
    BY <1>1, <1>2 DEF Frames
  <2> HIDE DEF f, node
  <2>4. FrameOK(f) /\ Deeper(f) = Deeper(Top)
    BY <1>1, <1>2, <2>3 DEF FrameOK, Deeper
  <2>5. params \in Seq(Param) /\ path \in Names
    BY <1>1, InHand
  <2>6. /\ FrameOK(callee) /\ callee.kind = "sub" /\ callee.held = 0 /\ Deeper(callee) = 0
        /\ callee.base = Len(params) /\ callee.depth = Len(path)
    BY <2>2, <2>5, FrameOfSub
  <2>. QED
    BY <1>1, <2>1, <2>3, <2>4, <2>6, PlainCall
<1>4. CASE ~(Top.i <= Len(Top.node.subs))
  <2> DEFINE f == [Top EXCEPT !.at = "conns", !.i = 1]
  <2>1. Becomes(f) /\ UNCHANGED <<net, params, path, res>>
    BY <1>4 DEF NextSub, GoesOn
  <2>2. /\ f \in Frames /\ f.base = Top.base /\ f.depth = Top.depth /\ f.kind = "module" /\ f.i >= 1
        /\ f.at = "conns" /\ f.node = Top.node /\ f.held = Top.held
    <3> DEFINE e == [Top EXCEPT !.at = "conns"]
    <3>1. e \in Frames
      BY <1>1 DEF Frames, Stages
    <3>2. f = [e EXCEPT !.i = 1]
      OBVIOUS
    <3> HIDE DEF e, f
    <3>3. f \in Frames /\ f.i = 1
      BY <3>1, <3>2 DEF Frames
    <3> USE DEF f
    <3>4. /\ f.base = Top.base /\ f.depth = Top.depth /\ f.kind = "module"
          /\ f.at = "conns" /\ f.node = Top.node /\ f.held = Top.held
      BY <1>1 DEF Frames
    <3>. QED
      BY <3>3, <3>4
  <2> HIDE DEF f
  <2>3. FrameOK(f) /\ Deeper(f) = Deeper(Top)
    BY <1>1, <1>2, <2>2 DEF FrameOK, Deeper
  <2>. QED
    BY <1>1, <2>1, <2>2, <2>3, MoveStep
<1>. QED
  BY <1>3, <1>4

LEMMA NextConnStep ==
  ASSUME IInv, NextConn
  PROVE  IInv'
<1>1. /\ calls # <<>> /\ FrameOK(Top) /\ Top.kind = "module" /\ Top.at = "conns"
      /\ Top \in Frames /\ Top.i \in Int
  BY Ready DEF NextConn
<1>2. Top.held = Len(Top.node.params) /\ Top.node \in Modules /\ Top.i >= 1
  BY <1>1 DEF FrameOK
<1>3. CASE Top.i <= Len(Top.node.conns)
  <2> DEFINE f == [Top EXCEPT !.i = @ + 1]
             node == Top.node.conns[Top.i]
             callee == Frame("conn", node, "start", params, path)
  <2>1. Calls(f, callee) /\ UNCHANGED <<net, params, path, res>>
    BY <1>3 DEF NextConn, GoesOn
  <2>2. node \in Conns
    <3>1. Top.node.conns \in Seq(Conns)
      BY <1>2, ExpandAssumption DEF Module
    <3>2. Top.i \in 1..Len(Top.node.conns)
      BY <1>1, <1>2, <1>3, <3>1
    <3>. QED
      BY <3>1, <3>2
  <2>3. /\ f \in Frames /\ f.base = Top.base /\ f.depth = Top.depth /\ f.kind = "module" /\ f.i >= 1
        /\ f.at = "conns" /\ f.node = Top.node /\ f.held = Top.held
    BY <1>1, <1>2 DEF Frames
  <2> HIDE DEF f, node
  <2>4. FrameOK(f) /\ Deeper(f) = Deeper(Top)
    BY <1>1, <1>2, <2>3 DEF FrameOK, Deeper
  <2>5. params \in Seq(Param) /\ path \in Names
    BY <1>1, InHand
  <2>6. /\ FrameOK(callee) /\ callee.kind = "conn" /\ callee.held = 0 /\ Deeper(callee) = 0
        /\ callee.base = Len(params) /\ callee.depth = Len(path)
    BY <2>2, <2>5, FrameOfConn
  <2>. QED
    BY <1>1, <2>1, <2>3, <2>4, <2>6, PlainCall
<1>4. CASE ~(Top.i <= Len(Top.node.conns))
  <2> DEFINE f == [Top EXCEPT !.at = "replace", !.i = 1]
  <2>1. Becomes(f) /\ UNCHANGED <<net, params, path, res>>
    BY <1>4 DEF NextConn, GoesOn
  <2>2. /\ f \in Frames /\ f.base = Top.base /\ f.depth = Top.depth /\ f.kind = "module" /\ f.i >= 1
        /\ f.at = "replace" /\ f.node = Top.node /\ f.held = Top.held
    <3> DEFINE e == [Top EXCEPT !.at = "replace"]
    <3>1. e \in Frames
      BY <1>1 DEF Frames, Stages
    <3>2. f = [e EXCEPT !.i = 1]
      OBVIOUS
    <3> HIDE DEF e, f
    <3>3. f \in Frames /\ f.i = 1
      BY <3>1, <3>2 DEF Frames
    <3> USE DEF f
    <3>4. /\ f.base = Top.base /\ f.depth = Top.depth /\ f.kind = "module"
          /\ f.at = "replace" /\ f.node = Top.node /\ f.held = Top.held
      BY <1>1 DEF Frames
    <3>. QED
      BY <3>3, <3>4
  <2> HIDE DEF f
  <2>3. FrameOK(f) /\ Deeper(f) = Deeper(Top)
    BY <1>1, <1>2, <2>2 DEF FrameOK, Deeper
  <2>. QED
    BY <1>1, <2>1, <2>2, <2>3, MoveStep
<1>. QED
  BY <1>3, <1>4

LEMMA NextReplaceStep ==
  ASSUME IInv, NextReplace
  PROVE  IInv'
<1>1. /\ calls # <<>> /\ FrameOK(Top) /\ Top.kind = "module" /\ Top.at = "replace"
      /\ Top \in Frames /\ Top.i \in Int
  BY Ready DEF NextReplace
<1>2. Top.held = Len(Top.node.params) /\ Top.node \in Modules /\ Top.i >= 1
  BY <1>1 DEF FrameOK
<1>3. CASE Top.i <= Len(Top.node.replace)
  <2> DEFINE f == [Top EXCEPT !.at = "handover"]
             node == Top.node.replace[Top.i].sub
             callee == Frame("sub", node, "start", params, path)
  <2>1. Calls(f, callee) /\ UNCHANGED <<net, params, path, res>>
    BY <1>3 DEF NextReplace, GoesOn
  <2>2. node \in Subs
    <3>1. Top.node.replace \in Seq(Replacement)
      BY <1>2, ExpandAssumption DEF Module
    <3>2. Top.i \in 1..Len(Top.node.replace)
      BY <1>1, <1>2, <1>3, <3>1
    <3>3. Top.node.replace[Top.i] \in Replacement
      BY <3>1, <3>2
    <3>. QED
      BY <3>3 DEF Replacement
  <2>3. /\ f \in Frames /\ f.base = Top.base /\ f.depth = Top.depth /\ f.kind = "module" /\ f.i >= 1
        /\ f.at = "handover" /\ f.node = Top.node /\ f.held = Top.held
    BY <1>1, <1>2 DEF Frames, Stages
  <2> HIDE DEF f, node
  <2>4. FrameOK(f) /\ Deeper(f) = Deeper(Top)
    BY <1>1, <1>2, <2>3 DEF FrameOK, Deeper
  <2>5. params \in Seq(Param) /\ path \in Names
    BY <1>1, InHand
  <2>6. /\ FrameOK(callee) /\ callee.kind = "sub" /\ callee.held = 0 /\ Deeper(callee) = 0
        /\ callee.base = Len(params) /\ callee.depth = Len(path)
    BY <2>2, <2>5, FrameOfSub
  <2>. QED
    BY <1>1, <2>1, <2>3, <2>4, <2>6, PlainCall
<1>4. CASE ~(Top.i <= Len(Top.node.replace))
  <2> DEFINE f == [Top EXCEPT !.at = "end"]
  <2>1. Becomes(f) /\ UNCHANGED <<net, params, path, res>>
    BY <1>4 DEF NextReplace, GoesOn
  <2>2. /\ f \in Frames /\ f.base = Top.base /\ f.depth = Top.depth /\ f.kind = "module" /\ f.i >= 1
        /\ f.at = "end" /\ f.node = Top.node /\ f.held = Top.held
    BY <1>1, <1>2 DEF Frames, Stages
  <2> HIDE DEF f
  <2>3. FrameOK(f) /\ Deeper(f) = Deeper(Top)
    BY <1>1, <1>2, <2>2 DEF FrameOK, Deeper
  <2>. QED
    BY <1>1, <2>1, <2>2, <2>3, MoveStep
<1>. QED
  BY <1>3, <1>4

LEMMA TakeOverStep ==
  ASSUME IInv, TakeOver
  PROVE  IInv'
<1>1. /\ calls # <<>> /\ FrameOK(Top) /\ Top.kind = "module" /\ Top.at = "handover"
      /\ Top \in Frames /\ Top.i \in Int
  BY Ready DEF TakeOver
<1>2. Top.held = Len(Top.node.params) /\ Top.node \in Modules /\ Top.i >= 1
  BY <1>1 DEF FrameOK
<1> DEFINE e == [Top EXCEPT !.at = "replace"]
           f == [e EXCEPT !.i = @ + 1]
<1>3. e \in Frames /\ e.i = Top.i
  BY <1>1 DEF Frames, Stages
<1>4. f = [Top EXCEPT !.at = "replace", !.i = @ + 1]
  BY <1>1 DEF Frames
<1>5. Becomes(f) /\ UNCHANGED <<net, params, path, res>>
  BY <1>4 DEF TakeOver, GoesOn
<1>6. e.base = Top.base /\ e.depth = Top.depth /\ e.kind = "module"
      /\ e.at = "replace" /\ e.node = Top.node /\ e.held = Top.held
  BY <1>1 DEF Frames
<1> HIDE DEF e
<1>7. f \in Frames /\ f.i >= 1 /\ f.base = e.base /\ f.depth = e.depth /\ f.kind = e.kind
      /\ f.at = e.at /\ f.node = e.node /\ f.held = e.held
  BY <1>2, <1>3 DEF Frames
<1> HIDE DEF f
<1>8. FrameOK(f) /\ Deeper(f) = Deeper(Top)
  BY <1>1, <1>2, <1>6, <1>7 DEF FrameOK, Deeper
<1>. QED
  BY <1>1, <1>5, <1>6, <1>7, <1>8, MoveStep

LEMMA ModuleDoneStep ==
  ASSUME IInv, ModuleDone
  PROVE  IInv'
<1>1. calls # <<>> /\ Top.kind = "module" /\ res = "run"
  BY Ready DEF ModuleDone
<1>2. Deeper(Top) = 0
  BY <1>1 DEF Deeper
<1>. QED
  BY <1>1, <1>2, ReturnStep DEF ModuleDone, GoesOn

----------------------------------------------------------------------------
(* A function that holds nothing gives its place to another. *)
LEMMA InsteadStep ==
  ASSUME IInv, calls # <<>>, Top.held = 0, Deeper(Top) = 0,
         NEW f, FrameOK(f), f.kind = Top.kind, f.held = 0, Deeper(f) = 0,
         f.base = Len(params), f.depth = Len(path),
         Becomes(f), UNCHANGED <<net, params, path, res>>
  PROVE  IInv'
<1>1. /\ FrameOK(Top) /\ params \in Seq(Param) /\ path \in Names
      /\ Len(params) = Top.base + Top.held /\ Len(path) = Top.depth + Deeper(Top)
  BY InHand
<1>2. Top.base \in Nat /\ Top.depth \in Nat
  BY <1>1, FrameTypes
<1>3. f.base = Top.base /\ f.depth = Top.depth
  BY <1>1, <1>2
<1>4. /\ params' \in Seq(Param) /\ path' \in Names
      /\ Len(params') = f.base + f.held /\ Len(path') = f.depth + Deeper(f)
  BY <1>1, <1>2, <1>3
<1>5. /\ \A x \in 1..f.base : params'[x] = params[x]
      /\ \A h \in 1..f.held : params'[f.base + h].name = DeclaredBy(f, h)
  OBVIOUS
<1>. QED
  BY <1>3, <1>4, <1>5, ReplaceStep

LEMMA ChooseSubStep ==
  ASSUME IInv, ChooseSub
  PROVE  IInv'
<1>1. /\ calls # <<>> /\ FrameOK(Top) /\ Top.kind = "sub" /\ Top.at = "start"
      /\ Top.node.kind = "cond"
  BY Ready DEF ChooseSub, Choose
<1>2. Top.held = 0 /\ Deeper(Top) = 0
  BY <1>1 DEF FrameOK, Deeper
<1>3. Top.node \in CondSub
  BY <1>1, Arguments DEF PlainSub, CondSub
<1>4. Branch(Top.node) \in Subs \cup {None}
  BY <1>3, <1>1, ExpandAssumption DEF CondSub, Branch
<1>5. CASE ~Evaluates(params, Top.node.test)
  BY <1>5, FailStep DEF ChooseSub, Choose
<1>6. CASE Evaluates(params, Top.node.test) /\ Branch(Top.node) = None
  <2>1. Returns /\ UNCHANGED <<net, params, path, res>>
    BY <1>6 DEF ChooseSub, Choose
  <2>. QED
    BY <1>1, <1>2, <2>1, PlainReturn
<1>7. CASE Evaluates(params, Top.node.test) /\ Branch(Top.node) # None
  <2> DEFINE f == Frame("sub", Branch(Top.node), "start", params, path)
  <2>1. Becomes(f) /\ UNCHANGED <<net, params, path, res>>
    BY <1>7 DEF ChooseSub, Choose
  <2>2. params \in Seq(Param) /\ path \in Names
    BY <1>1, InHand
  <2>3. Branch(Top.node) \in Subs
    BY <1>4, <1>7
  <2>4. /\ FrameOK(f) /\ f.kind = "sub" /\ f.held = 0 /\ Deeper(f) = 0
        /\ f.base = Len(params) /\ f.depth = Len(path)
    BY <2>2, <2>3, FrameOfSub
  <2> HIDE DEF f
  <2>. QED
    BY <1>1, <1>2, <2>1, <2>4, InsteadStep
<1>. QED
  BY <1>5, <1>6, <1>7

LEMMA ChooseConnStep ==
  ASSUME IInv, ChooseConn
  PROVE  IInv'
<1>1. /\ calls # <<>> /\ FrameOK(Top) /\ Top.kind = "conn" /\ Top.at = "start"
      /\ Top.node.kind = "if"
  BY Ready DEF ChooseConn, Choose
<1>2. Top.held = 0 /\ Deeper(Top) = 0
  BY <1>1 DEF FrameOK, Deeper
<1>3. Top.node \in CondConn
  BY <1>1, Arguments DEF PlainConn, LoopConn, CondConn, ListConn, MatchConn
<1>4. Branch(Top.node) \in Conns \cup {None}
  BY <1>3, <1>1, ExpandAssumption DEF CondConn, Branch
<1>5. CASE ~Evaluates(params, Top.node.test)
  BY <1>5, FailStep DEF ChooseConn, Choose
<1>6. CASE Evaluates(params, Top.node.test) /\ Branch(Top.node) = None
  <2>1. Returns /\ UNCHANGED <<net, params, path, res>>
    BY <1>6 DEF ChooseConn, Choose
  <2>. QED
    BY <1>1, <1>2, <2>1, PlainReturn
<1>7. CASE Evaluates(params, Top.node.test) /\ Branch(Top.node) # None
  <2> DEFINE f == Frame("conn", Branch(Top.node), "start", params, path)
  <2>1. Becomes(f) /\ UNCHANGED <<net, params, path, res>>
    BY <1>7 DEF ChooseConn, Choose
  <2>2. params \in Seq(Param) /\ path \in Names
    BY <1>1, InHand
  <2>3. Branch(Top.node) \in Conns
    BY <1>4, <1>7
  <2>4. /\ FrameOK(f) /\ f.kind = "conn" /\ f.held = 0 /\ Deeper(f) = 0
        /\ f.base = Len(params) /\ f.depth = Len(path)
    BY <2>2, <2>3, FrameOfConn
  <2> HIDE DEF f
  <2>. QED
    BY <1>1, <1>2, <2>1, <2>4, InsteadStep
<1>. QED
  BY <1>5, <1>6, <1>7

LEMMA SubStartStep ==
  ASSUME IInv, SubStart
  PROVE  IInv'
<1> DEFINE f == [Top EXCEPT !.at = "params"]
<1>1. /\ calls # <<>> /\ FrameOK(Top) /\ Top.kind = "sub" /\ Top.at = "start"
      /\ Top \in Frames /\ Top.node.kind = "plain"
  BY Ready DEF SubStart
<1>2. Top.held = 0 /\ Top.node \in Subs
  BY <1>1 DEF FrameOK
<1>3. Top.node \in PlainSub
  BY <1>1, Arguments DEF CondSub
<1>4. Len(Top.node.params) \in Nat
  BY <1>3 DEF PlainSub
<1>5. /\ f \in Frames /\ f.base = Top.base /\ f.depth = Top.depth /\ f.kind = "sub"
      /\ f.at = "params" /\ f.node = Top.node /\ f.held = Top.held
  BY <1>1 DEF Frames, Stages
<1>6. Becomes(f) /\ UNCHANGED <<net, params, path, res>>
  BY DEF SubStart, GoesOn
<1> HIDE DEF f
<1>7. FrameOK(f) /\ Deeper(f) = Deeper(Top)
  BY <1>1, <1>2, <1>3, <1>4, <1>5 DEF FrameOK, Deeper
<1>. QED
  BY <1>1, <1>5, <1>6, <1>7, MoveStep

LEMMA SubSizeStep ==
  ASSUME IInv, SubSize
  PROVE  IInv'
<1> DEFINE size == Top.node.size
           last == IF size = None THEN 0 ELSE Eval(params, size)
           f == [Top EXCEPT !.at = "vector", !.last = last]
<1>1. /\ calls # <<>> /\ FrameOK(Top) /\ Top.kind = "sub" /\ Top.at = "params"
      /\ Top \in Frames
  BY Ready DEF SubSize
<1>2. Top.held = Len(Top.node.params) /\ Top.node \in Subs /\ Top.node \in PlainSub
  BY <1>1 DEF FrameOK, SubSize, ParamsEntered
<1>3. CASE size # None /\ ~Evaluates(params, size)
  BY <1>3, FailStep DEF SubSize
<1>4. CASE ~(size # None /\ ~Evaluates(params, size))
  <2>1. Becomes(f) /\ UNCHANGED <<net, params, path, res>>
    BY <1>4 DEF SubSize
  <2>2. last \in Int
    <3>1. size = None \/ size \in Expr
      BY <1>2 DEF PlainSub
    <3>2. params \in Seq(Param)
      BY <1>1, InHand
    <3> HIDE DEF size
    <3>3. CASE size = None
      BY <3>3
    <3>4. CASE size # None
      <4>1. Eval(params, size) \in Int
        BY <1>4, <3>1, <3>2, <3>4, ValueOfParam
      <4>. QED
        BY <3>4, <4>1
    <3>. QED
      BY <3>3, <3>4
  <2> HIDE DEF last
  <2>3. "vector" \in Stages
    BY DEF Stages
  <2>5. /\ f \in Frames /\ f.base = Top.base /\ f.depth = Top.depth /\ f.kind = "sub"
        /\ f.at = "vector" /\ f.node = Top.node /\ f.held = Top.held
    BY <1>1, <2>2, <2>3 DEF Frames
  <2> HIDE DEF f
  <2>6. FrameOK(f) /\ Deeper(f) = Deeper(Top)
    BY <1>1, <1>2, <2>5 DEF FrameOK, Deeper
  <2>. QED
    BY <1>1, <2>1, <2>5, <2>6, MoveStep
<1>. QED
  BY <1>3, <1>4

LEMMA NextElementStep ==
  ASSUME IInv, NextElement
  PROVE  IInv'
<1> DEFINE j == IF IsVector THEN Top.i - 1 ELSE -1
           stack == IF IsVector THEN Enter(params, Index, Top.i - 1) ELSE params
           names == EnterName(path, Top.node.name, j)
           held == Top.held + Len(stack) - Len(params)
           inside == [Top EXCEPT !.at = "inside", !.held = held]
           lost == [inside EXCEPT !.at = "lost"]
           count == IF Top.last > 0 THEN 1 ELSE 0
<1>1. /\ calls # <<>> /\ FrameOK(Top) /\ Top.kind = "sub" /\ Top.at = "vector"
      /\ Top \in Frames /\ Top.held \in Nat /\ Top.base \in Nat /\ Top.depth \in Nat
      /\ Top.i \in Int /\ Top.last \in Int
  BY Ready DEF NextElement
<1>2. Top.node \in Subs /\ Top.node \in PlainSub /\ Top.held = Len(Top.node.params)
  BY <1>1 DEF FrameOK
<1>3. /\ params \in Seq(Param) /\ path \in Names /\ Len(params) = Top.base + Top.held
      /\ Len(path) = Top.depth + Deeper(Top)
      /\ \A h \in 1..Top.held : params[Top.base + h].name = DeclaredBy(Top, h)
  BY <1>1, InHand
<1>4. /\ stack \in Seq(Param) /\ Len(stack) = Len(params) + count
      /\ \A k \in 1..Len(params) : stack[k] = params[k]
      /\ count = 1 => stack[Len(params) + 1].name = Index
  <2>1. CASE Top.last > 0
    <3>1. stack = Enter(params, Index, Top.i - 1) /\ count = 1
      BY <2>1 DEF IsVector
    <3>2. Top.i - 1 \in Int /\ Index \in Vars
      BY <1>1, ExpandAssumption
    <3> HIDE DEF stack, count
    <3>. QED
      BY <1>3, <3>1, <3>2, Entered
  <2>2. CASE ~(Top.last > 0)
    <3>1. stack = params /\ count = 0
      BY <2>2 DEF IsVector
    <3> HIDE DEF stack, count
    <3>. QED
      BY <1>3, <3>1
  <2>. QED
    BY <2>1, <2>2
<1>5. count \in {0, 1} /\ (count = 1 <=> Top.last > 0)
  OBVIOUS
<1>6. names \in Names /\ Len(names) = Len(path) + 1
  <2>1. j \in Int
    BY <1>1
  <2> HIDE DEF j
  <2>2. <<Top.node.name, IF j < 0 THEN -1 ELSE j>> \in Parts
    BY <1>2, <2>1 DEF Parts, PlainSub
  <2>. QED
    BY <1>3, <2>2 DEF Names, EnterName
<1>7. params' = stack /\ net' = net
  BY DEF NextElement
<1>8. held = Top.held + count
  <2> HIDE DEF stack, count
  <2>1. Len(params) \in Nat
    BY <1>3
  <2>. QED
    BY <1>1, <1>4, <1>5, <2>1
<1> HIDE DEF j, stack, names, held, count
<1>9. held \in Nat
  BY <1>1, <1>5, <1>8
<1>10. "inside" \in Stages /\ "lost" \in Stages
  BY DEF Stages
<1>11. /\ Len(stack) = Top.base + held
       /\ \A x \in 1..Top.base : stack[x] = params[x]
  <2>1. \A x \in 1..Top.base : x \in 1..Len(params)
    BY <1>1, <1>3
  <2>2. Len(stack) = (Top.base + Top.held) + count
    BY <1>3, <1>4
  <2>3. Len(stack) = Top.base + held
    BY <1>1, <1>5, <1>8, <2>2, Sums
  <2>. QED
    BY <1>4, <2>1, <2>3
<1>12. ASSUME NEW h \in 1..held
       PROVE  stack[Top.base + h].name = DeclaredBy(Top, h)
  <2>1. CASE h <= Top.held
    <3>1. h \in 1..Top.held /\ Top.base + h \in 1..Len(params)
      BY <1>1, <1>3, <1>9, <2>1
    <3>. QED
      BY <1>3, <1>4, <3>1
  <2>2. CASE ~(h <= Top.held)
    <3>1. count = 1 /\ h = Top.held + 1
      BY <1>1, <1>5, <1>8, <2>2
    <3>2. Top.base + h = Len(params) + 1
      <4>1. Top.base + (Top.held + 1) = (Top.base + Top.held) + 1
        BY <1>1, Sums
      <4>2. Len(params) = Top.base + Top.held
        BY <1>3
      <4>. QED
        BY <3>1, <4>1, <4>2
    <3>3. stack[Top.base + h].name = Index
      BY <1>4, <3>1, <3>2
    <3>4. DeclaredBy(Top, h) = Index
      BY <1>1, <1>2, <2>2 DEF DeclaredBy
    <3>. QED
      BY <3>3, <3>4
  <2>. QED
    BY <2>1, <2>2
<1>13. /\ inside \in Frames /\ inside.kind = "sub" /\ inside.node = Top.node
       /\ inside.base = Top.base /\ inside.depth = Top.depth /\ inside.held = held
       /\ inside.at = "inside" /\ inside.last = Top.last
  BY <1>1, <1>9, <1>10 DEF Frames
<1>14. CASE Hits(net, Top.node.module) = {}
  <2>1. Becomes(lost) /\ path' = path /\ res' = "NOMOD"
    BY <1>14 DEF NextElement, stack, held
  <2> HIDE DEF inside
  <2>2. /\ lost \in Frames /\ lost.kind = "sub" /\ lost.node = Top.node
        /\ lost.base = Top.base /\ lost.depth = Top.depth /\ lost.held = held
        /\ lost.at = "lost" /\ lost.last = Top.last
    BY <1>10, <1>13 DEF Frames
  <2> HIDE DEF lost
  <2>3. FrameOK(lost)
    BY <1>2, <1>8, <2>2 DEF FrameOK, count
  <2>4. Deeper(lost) = 0 /\ Deeper(Top) = 0
    BY <1>1, <2>2 DEF Deeper
  <2>5. params' \in Seq(Param) /\ path' \in Names
    BY <1>3, <1>4, <1>7, <2>1
  <2>6. Len(params') = lost.base + lost.held /\ Len(path') = lost.depth + Deeper(lost)
    BY <1>3, <1>7, <1>11, <2>1, <2>2, <2>4
  <2>7. \A x \in 1..lost.base : params'[x] = params[x]
    BY <1>7, <1>11, <2>2
  <2>8. \A h \in 1..lost.held : params'[lost.base + h].name = DeclaredBy(lost, h)
    BY <1>1, <1>7, <1>12, <2>2 DEF DeclaredBy
  <2>. QED
    BY <1>1, <1>7, <2>1, <2>2, <2>3, <2>5, <2>6, <2>7, <2>8, ReplaceStep
<1>15. CASE Hits(net, Top.node.module) # {}
  <2> DEFINE mod == FindModule(net, Top.node.module)
             callee == Frame("module", mod, "params", stack, names)
  <2>1. Calls(inside, callee) /\ path' = names /\ res' = res
    BY <1>15 DEF NextElement, stack, held, names, j
  <2>2. mod \in Modules
    BY <1>15, ModuleFound DEF IInv
  <2> HIDE DEF mod
  <2>3. /\ FrameOK(callee) /\ callee.kind = "module" /\ callee.held = 0 /\ Deeper(callee) = 0
        /\ callee.base = Len(params') /\ callee.depth = Len(path')
    BY <1>4, <1>6, <1>7, <2>1, <2>2, FrameOfModule
  <2> HIDE DEF inside, callee
  <2>4. FrameOK(inside)
    BY <1>2, <1>8, <1>13 DEF FrameOK, count
  <2>5. Deeper(inside) = 1 /\ Deeper(Top) = 0
    BY <1>1, <1>13 DEF Deeper
  <2>6. params' \in Seq(Param) /\ path' \in Names
    BY <1>4, <1>6, <1>7, <2>1
  <2>7. Len(params') = inside.base + inside.held
    BY <1>7, <1>11, <1>13
  <2>8. Len(path') = inside.depth + Deeper(inside)
    BY <1>1, <1>3, <1>6, <1>13, <2>1, <2>5
  <2>9. \A x \in 1..inside.base : params'[x] = params[x]
    BY <1>7, <1>11, <1>13
  <2>10. \A h \in 1..inside.held : params'[inside.base + h].name = DeclaredBy(inside, h)
    BY <1>1, <1>7, <1>12, <1>13 DEF DeclaredBy
  <2>. QED
    BY <1>1, <1>7, <1>13, <2>1, <2>3, <2>4, <2>6, <2>7, <2>8, <2>9, <2>10, CallStep
<1>. QED
  BY <1>14, <1>15

LEMMA ElementDoneStep ==
  ASSUME IInv, ElementDone
  PROVE  IInv'
<1> DEFINE count == IF Top.last > 0 THEN 1 ELSE 0
           i == Top.i + 1
           held == Top.held - count
           f == [Top EXCEPT !.at = "vector", !.i = i, !.held = held]
<1>1. /\ calls # <<>> /\ FrameOK(Top) /\ Top.kind = "sub" /\ Top.at = "inside"
      /\ Top \in Frames /\ Top.held \in Nat /\ Top.base \in Nat /\ Top.depth \in Nat
      /\ Top.i \in Int
  BY Ready DEF ElementDone
<1>2. /\ Top.node \in Subs /\ Top.node \in PlainSub
      /\ Top.held = Len(Top.node.params) + count
  BY <1>1 DEF FrameOK
<1>3. /\ params \in Seq(Param) /\ path \in Names /\ Len(params) = Top.base + Top.held
      /\ Len(path) = Top.depth + Deeper(Top)
      /\ \A h \in 1..Top.held : params[Top.base + h].name = DeclaredBy(Top, h)
  BY <1>1, InHand
<1>4. /\ params' = Leave(params, count) /\ path' = LeaveName(path) /\ Becomes(f)
      /\ UNCHANGED <<net, res>>
  BY DEF ElementDone, GoesOn, IndexHeld, IsVector
<1>5. count \in {0, 1}
  OBVIOUS
<1>6. Len(Top.node.params) \in Nat
  BY <1>2 DEF PlainSub
<1> HIDE DEF count
<1>7. held = Len(Top.node.params) /\ held \in Nat /\ Top.held = held + count
  BY <1>2, <1>5, <1>6
<1>8. i \in Int /\ "vector" \in Stages
  BY <1>1 DEF Stages
<1> HIDE DEF i, held
<1>9. /\ f \in Frames /\ f.kind = "sub" /\ f.node = Top.node /\ f.base = Top.base
      /\ f.depth = Top.depth /\ f.held = held /\ f.at = "vector"
  BY <1>1, <1>7, <1>8 DEF Frames
<1> HIDE DEF f
<1>10. FrameOK(f)
  BY <1>2, <1>7, <1>9 DEF FrameOK
<1>11. Deeper(f) = 0 /\ Deeper(Top) = 1
  BY <1>1, <1>9 DEF Deeper
<1>12. /\ params' \in Seq(Param) /\ Len(params') = Top.base + held
       /\ \A k \in 1..Top.base + held : params'[k] = params[k]
  <2>1. Top.base + held \in Nat /\ count \in Nat
    BY <1>1, <1>5, <1>7
  <2>2. Len(params) = (Top.base + held) + count
    <3>1. (Top.base + held) + count = Top.base + (held + count)
      <4>1. Top.base \in Nat /\ held \in Nat /\ count \in Nat
        BY <1>1, <1>7, <2>1
      <4>. QED
        BY <4>1, Sums
    <3>2. Len(params) = Top.base + Top.held
      BY <1>3
    <3>3. Top.held = held + count
      BY <1>7
    <3>. QED
      BY <3>1, <3>2, <3>3
  <2>. QED
    BY <1>3, <1>4, <2>1, <2>2, Left
<1>13. path' \in Names /\ Len(path') = f.depth + Deeper(f)
  <2>1. path \in Seq(Parts) /\ Len(path) = Top.depth + 1
    BY <1>3, <1>11 DEF Names
  <2>2. path' \in Seq(Parts) /\ Len(path') = Len(path) - 1
    BY <1>1, <1>4, <2>1, SubSeqProperties DEF LeaveName, Front
  <2>. QED
    BY <1>1, <1>9, <1>11, <2>1, <2>2 DEF Names
<1>14. \A x \in 1..f.base : params'[x] = params[x]
  <2>1. \A x \in 1..Top.base : x \in 1..Top.base + held
    BY <1>1, <1>7
  <2>. QED
    BY <1>9, <1>12, <2>1
<1>15. \A h \in 1..f.held : params'[f.base + h].name = DeclaredBy(f, h)
  <2>1. SUFFICES ASSUME NEW h \in 1..held
                 PROVE params'[Top.base + h].name = DeclaredBy(f, h)
    BY <1>9
  <2>2. h \in 1..Top.held /\ Top.base + h \in 1..Top.base + held
    BY <1>1, <1>5, <1>7
  <2>3. DeclaredBy(f, h) = DeclaredBy(Top, h)
    BY <1>1, <1>9 DEF DeclaredBy
  <2>. QED
    BY <1>3, <1>12, <2>2, <2>3
<1>16. Len(params') = f.base + f.held
  BY <1>9, <1>12
<1>. QED
  BY <1>1, <1>4, <1>9, <1>10, <1>12, <1>13, <1>14, <1>15, <1>16, ReplaceStep

LEMMA SubDoneStep ==
  ASSUME IInv, SubDone
  PROVE  IInv'
<1>1. calls # <<>> /\ Top.kind = "sub" /\ Top.at = "vector" /\ res = "run"
  BY Ready DEF SubDone
<1>2. Deeper(Top) = 0
  BY <1>1 DEF Deeper
<1>. QED
  BY <1>1, <1>2, ReturnStep DEF SubDone, GoesOn

----------------------------------------------------------------------------
(* A connection that has not begun holds nothing. *)
LEMMA FreshConn ==
  ASSUME IInv, Running("conn", "start")
  PROVE  /\ calls # <<>> /\ res = "run" /\ FrameOK(Top) /\ Top.kind = "conn"
         /\ Top.at = "start" /\ Top \in Frames /\ Top.node \in Conns
         /\ Top.held = 0 /\ Deeper(Top) = 0
<1>1. /\ calls # <<>> /\ res = "run" /\ FrameOK(Top) /\ Top.kind = "conn"
      /\ Top.at = "start" /\ Top \in Frames
  BY Ready
<1>2. Top.node \in Conns /\ Top.held = 0
  BY <1>1 DEF FrameOK
<1>. QED
  BY <1>1, <1>2 DEF Deeper

LEMMA ConnectStep ==
  ASSUME IInv, Connect
  PROVE  IInv'
<1>1. calls # <<>> /\ Top.kind = "conn" /\ Top.held = 0 /\ Deeper(Top) = 0
  BY FreshConn DEF Connect
<1>2. \/ Fail("EVAL") /\ net' = net
      \/ Returns /\ UNCHANGED <<net, params, path, res>>
  BY DEF Connect
<1>3. CASE Fail("EVAL") /\ net' = net
  BY <1>3, FailStep
<1>4. CASE Returns /\ UNCHANGED <<net, params, path, res>>
  BY <1>1, <1>4, PlainReturn
<1>. QED
  BY <1>2, <1>3, <1>4

LEMMA OpenLoopStep ==
  ASSUME IInv, OpenLoop
  PROVE  IInv'
<1> DEFINE i == Eval(params, Top.node.start)
           last == Eval(params, Top.node.end)
           f == [Top EXCEPT !.at = "loop", !.i = i, !.last = last]
<1>1. /\ calls # <<>> /\ FrameOK(Top) /\ Top.kind = "conn" /\ Top.at = "start"
      /\ Top \in Frames /\ Top.node \in Conns /\ Top.held = 0 /\ Deeper(Top) = 0
      /\ Top.node.kind = "loop" /\ net' = net
  BY FreshConn DEF OpenLoop
<1>2. CASE RangeError # "none"
  <2>1. RangeError \in {"EVAL", "LOOP"}
    BY <1>2 DEF RangeError
  <2>2. Fail(RangeError)
    BY <1>2 DEF OpenLoop
  <2>. QED
    BY <1>1, <2>1, <2>2, FailStep
<1>3. CASE RangeError = "none"
  <2>1. Becomes(f) /\ UNCHANGED <<net, params, path, res>>
    BY <1>1, <1>3 DEF OpenLoop
  <2>2. Evaluates(params, Top.node.start) /\ Evaluates(params, Top.node.end)
    BY <1>3 DEF RangeError
  <2>3. Top.node.start \in Expr /\ Top.node.end \in Expr
    <3>1. Top.node \in LoopConn
      BY <1>1, Arguments DEF PlainConn, CondConn, ListConn, MatchConn
    <3>. QED
      BY <3>1 DEF LoopConn
  <2>4. params \in Seq(Param)
    BY <1>1, InHand
  <2>5. i \in Int /\ last \in Int
    BY <2>2, <2>3, <2>4, ValueOfParam
  <2>6. "loop" \in Stages
    BY DEF Stages
  <2> HIDE DEF i, last
  <2>7. /\ f \in Frames /\ f.base = Top.base /\ f.depth = Top.depth /\ f.kind = "conn"
        /\ f.at = "loop" /\ f.node = Top.node /\ f.held = Top.held
    BY <1>1, <2>5, <2>6 DEF Frames
  <2> HIDE DEF f
  <2>8. FrameOK(f) /\ Deeper(f) = Deeper(Top)
    BY <1>1, <2>7 DEF FrameOK, Deeper
  <2>. QED
    BY <1>1, <2>1, <2>7, <2>8, MoveStep
<1>. QED
  BY <1>2, <1>3

(* A loop that is open. *)
LEMMA LoopInHand ==
  ASSUME IInv, NEW at \in {"loop", "round"}, Running("conn", at)
  PROVE  /\ calls # <<>> /\ res = "run" /\ FrameOK(Top) /\ Top.kind = "conn" /\ Top.at = at
         /\ Top \in Frames /\ Top.node \in Conns /\ Top.node \in LoopConn
         /\ Top.node.kind = "loop"
         /\ Top.held = IF at = "round" THEN 1 ELSE 0
         /\ Top.base \in Nat /\ Top.depth \in Nat /\ Top.i \in Int /\ Deeper(Top) = 0
<1>1. /\ calls # <<>> /\ res = "run" /\ FrameOK(Top) /\ Top.kind = "conn" /\ Top.at = at
      /\ Top \in Frames /\ Top.base \in Nat /\ Top.depth \in Nat /\ Top.i \in Int
  BY Ready
<1>2. /\ Top.node \in Conns /\ Top.node.kind = "loop"
      /\ Top.held = IF at = "round" THEN 1 ELSE 0
  BY <1>1 DEF FrameOK
<1>3. Top.node \in LoopConn
  BY <1>1, <1>2, Arguments DEF PlainConn, CondConn, ListConn, MatchConn
<1>. QED
  BY <1>1, <1>2, <1>3 DEF Deeper

LEMMA NextRoundStep ==
  ASSUME IInv, NextRound
  PROVE  IInv'
<1> DEFINE f == [Top EXCEPT !.at = "round", !.held = 1]
           callee == Frame("conn", Top.node.conn, "start", params', path)
<1>1. /\ calls # <<>> /\ FrameOK(Top) /\ Top.kind = "conn" /\ Top.at = "loop"
      /\ Top \in Frames /\ Top.node \in Conns /\ Top.node \in LoopConn
      /\ Top.node.kind = "loop" /\ Top.held = 0
      /\ Top.base \in Nat /\ Top.depth \in Nat /\ Top.i \in Int /\ Deeper(Top) = 0
  BY LoopInHand DEF NextRound
<1>2. Top.node.var \in Vars /\ Top.node.conn \in Conns
  BY <1>1 DEF LoopConn
<1>3. /\ params' = Enter(params, Top.node.var, Top.i) /\ Calls(f, callee)
      /\ UNCHANGED <<net, path, res>>
  BY DEF NextRound, GoesOn
<1>4. /\ params \in Seq(Param) /\ path \in Names /\ Len(params) = Top.base
      /\ Len(path) = Top.depth
  <2>1. /\ params \in Seq(Param) /\ path \in Names /\ Len(params) = Top.base + Top.held
        /\ Len(path) = Top.depth + Deeper(Top)
    BY <1>1, InHand
  <2>2. Top.base + 0 = Top.base /\ Top.depth + 0 = Top.depth
    BY <1>1
  <2>. QED
    BY <1>1, <2>1, <2>2
<1>5. /\ params' \in Seq(Param) /\ Len(params') = Len(params) + 1
      /\ \A k \in 1..Len(params) : params'[k] = params[k]
      /\ params'[Len(params) + 1].name = Top.node.var
  BY <1>1, <1>2, <1>3, <1>4, Entered
<1>6. /\ FrameOK(callee) /\ callee.kind = "conn" /\ callee.held = 0 /\ Deeper(callee) = 0
      /\ callee.base = Len(params') /\ callee.depth = Len(path)
  BY <1>2, <1>4, <1>5, FrameOfConn
<1>7. "round" \in Stages /\ 1 \in Nat
  BY DEF Stages
<1>8. /\ f \in Frames /\ f.base = Top.base /\ f.depth = Top.depth /\ f.kind = "conn"
      /\ f.at = "round" /\ f.node = Top.node /\ f.held = 1
  BY <1>1, <1>7 DEF Frames
<1> HIDE DEF f, callee
<1>9. FrameOK(f) /\ Deeper(f) = 0
  BY <1>1, <1>8 DEF FrameOK, Deeper
<1>10. Len(params') = f.base + f.held /\ Len(path') = f.depth + Deeper(f)
  <2>1. Top.depth + 0 = Top.depth
    BY <1>1
  <2>. QED
    BY <1>3, <1>4, <1>5, <1>8, <1>9, <2>1
<1>11. \A h \in 1..f.held : params'[f.base + h].name = DeclaredBy(f, h)
  <2>1. SUFFICES params'[f.base + 1].name = DeclaredBy(f, 1)
    BY <1>8
  <2>. QED
    BY <1>4, <1>5, <1>8 DEF DeclaredBy
<1>12. /\ path' \in Names /\ callee.depth = Len(path')
       /\ \A x \in 1..f.base : params'[x] = params[x]
  BY <1>3, <1>4, <1>5, <1>6, <1>8
<1>. QED
  BY <1>1, <1>3, <1>5, <1>6, <1>8, <1>9, <1>10, <1>11, <1>12, CallStep

LEMMA RoundDoneStep ==
  ASSUME IInv, RoundDone
  PROVE  IInv'
<1> DEFINE i == RoundAfter
           f == [Top EXCEPT !.at = "loop", !.i = i, !.held = 0]
<1>1. /\ calls # <<>> /\ FrameOK(Top) /\ Top.kind = "conn" /\ Top.at = "round"
      /\ Top \in Frames /\ Top.node \in Conns /\ Top.node.kind = "loop" /\ Top.held = 1
      /\ Top.base \in Nat /\ Top.depth \in Nat /\ Top.i \in Int /\ Deeper(Top) = 0
  BY LoopInHand DEF RoundDone
<1>2. params' = Leave(params, 1) /\ Becomes(f) /\ UNCHANGED <<net, path, res>>
  BY DEF RoundDone, GoesOn
<1>3. /\ params \in Seq(Param) /\ path \in Names /\ Len(params) = Top.base + 1
      /\ Len(path) = Top.depth + Deeper(Top)
  BY <1>1, InHand
<1>4. /\ params' \in Seq(Param) /\ Len(params') = Top.base
      /\ \A k \in 1..Top.base : params'[k] = params[k]
  BY <1>1, <1>2, <1>3, Left
<1>5. i \in Int /\ "loop" \in Stages
  BY <1>1 DEF RoundAfter, Stages
<1> HIDE DEF i
<1>6. /\ f \in Frames /\ f.base = Top.base /\ f.depth = Top.depth /\ f.kind = "conn"
      /\ f.at = "loop" /\ f.node = Top.node /\ f.held = 0
  BY <1>1, <1>5 DEF Frames
<1> HIDE DEF f
<1>7. FrameOK(f) /\ Deeper(f) = 0
  BY <1>1, <1>6 DEF FrameOK, Deeper
<1>8. Len(params') = f.base + f.held /\ Len(path') = f.depth + Deeper(f)
  <2>1. Top.base + 0 = Top.base
    BY <1>1
  <2>. QED
    BY <1>1, <1>2, <1>3, <1>4, <1>6, <1>7, <2>1
<1>9. /\ path' \in Names
      /\ \A x \in 1..f.base : params'[x] = params[x]
      /\ \A h \in 1..f.held : params'[f.base + h].name = DeclaredBy(f, h)
  BY <1>2, <1>3, <1>4, <1>6
<1>. QED
  BY <1>1, <1>2, <1>4, <1>6, <1>7, <1>8, <1>9, ReplaceStep

LEMMA LoopDoneStep ==
  ASSUME IInv, LoopDone
  PROVE  IInv'
<1>1. calls # <<>> /\ Top.kind = "conn" /\ Top.held = 0 /\ Deeper(Top) = 0
  BY LoopInHand DEF LoopDone
<1>. QED
  BY <1>1, PlainReturn DEF LoopDone, GoesOn

LEMMA ConnectListStep ==
  ASSUME IInv, ConnectList
  PROVE  IInv'
<1>1. /\ calls # <<>> /\ Top.kind = "conn" /\ Top.held = 0 /\ Deeper(Top) = 0
      /\ net' = net
  BY FreshConn DEF ConnectList
<1>2. CASE RangeError # "none"
  <2>1. RangeError \in {"EVAL", "LOOP"}
    BY <1>2 DEF RangeError
  <2>2. Fail(RangeError)
    BY <1>2 DEF ConnectList
  <2>. QED
    BY <1>1, <2>1, <2>2, FailStep
<1>3. CASE RangeError = "none"
  <2>1. \/ Fail("EVAL")
        \/ Returns /\ UNCHANGED <<params, path, res>>
    BY <1>3 DEF ConnectList
  <2>2. CASE Fail("EVAL")
    BY <1>1, <2>2, FailStep
  <2>3. CASE Returns /\ UNCHANGED <<params, path, res>>
    BY <1>1, <2>3, PlainReturn
  <2>. QED
    BY <2>1, <2>2, <2>3
<1>. QED
  BY <1>2, <1>3

LEMMA ConnectMatchStep ==
  ASSUME IInv, ConnectMatch
  PROVE  IInv'
<1>1. calls # <<>> /\ Top.kind = "conn" /\ Top.held = 0 /\ Deeper(Top) = 0
  BY FreshConn DEF ConnectMatch
<1>. QED
  BY <1>1, PlainReturn DEF ConnectMatch, GoesOn

----------------------------------------------------------------------------
LEMMA InitIInv ==
  ASSUME ExpandInit
  PROVE  IInv
<1> DEFINE f == Frame("network", net, "start", <<>>, path)
<1>1. /\ net \in Networks /\ params = <<>> /\ path = <<<<Root, -1>>>> /\ res = "run"
      /\ calls = <<f>>
  BY DEF ExpandInit
<1>2. params \in Seq(Param) /\ Len(params) = 0
  BY <1>1
<1>3. path \in Names /\ Len(path) = 1
  <2>1. <<Root, -1>> \in Parts
    BY ExpandAssumption DEF Parts
  <2>. QED
    BY <1>1, <2>1 DEF Names
<1>4. /\ f \in Frames /\ f.kind = "network" /\ f.node = net /\ f.at = "start" /\ f.held = 0
      /\ f.base = 0 /\ f.depth = 1
  BY <1>1, <1>3 DEF Frames, Stages, Frame
<1> HIDE DEF f
<1>5. FrameOK(f) /\ Deeper(f) = 0
  BY <1>1, <1>4 DEF FrameOK, Deeper
<1>6. calls \in Seq(Frames) /\ Len(calls) = 1 /\ calls[1] = f /\ DOMAIN calls = 1..1
      /\ calls # <<>>
  BY <1>1, <1>4
<1>7. Chain(calls)
  BY <1>4, <1>5, <1>6 DEF Chain
<1>8. Lengths(calls, params, path)
  BY <1>2, <1>3, <1>4, <1>5, <1>6 DEF Lengths
<1>9. NamesHeld(calls, params)
  BY <1>4, <1>6 DEF NamesHeld
<1>. QED
  BY <1>1, <1>2, <1>3, <1>6, <1>7, <1>8, <1>9 DEF IInv, Stacks

LEMMA StepIInv ==
  ASSUME IInv, [ExpandNext]_expandVars
  PROVE  IInv'
<1>1. CASE UNCHANGED expandVars
  BY <1>1 DEF expandVars, IInv
<1>2. CASE FindRoot
  BY <1>2, FindRootStep
<1>3. CASE EnterParam
  BY <1>3, EnterParamStep
<1>4. CASE ExpandRoot
  BY <1>4, ExpandRootStep
<1>5. CASE ExpandDone
  BY <1>5, ExpandDoneStep
<1>6. CASE ModuleGates
  BY <1>6, ModuleGatesStep
<1>7. CASE GatesMade
  BY <1>7, GatesMadeStep
<1>8. CASE NextSub
  BY <1>8, NextSubStep
<1>9. CASE NextConn
  BY <1>9, NextConnStep
<1>10. CASE ModuleDone
  BY <1>10, ModuleDoneStep
<1>11. CASE ChooseSub
  BY <1>11, ChooseSubStep
<1>12. CASE SubStart
  BY <1>12, SubStartStep
<1>13. CASE SubSize
  BY <1>13, SubSizeStep
<1>14. CASE NextElement
  BY <1>14, NextElementStep
<1>15. CASE ElementDone
  BY <1>15, ElementDoneStep
<1>16. CASE SubDone
  BY <1>16, SubDoneStep
<1>17. CASE Connect
  BY <1>17, ConnectStep
<1>18. CASE ChooseConn
  BY <1>18, ChooseConnStep
<1>19. CASE OpenLoop
  BY <1>19, OpenLoopStep
<1>20. CASE NextRound
  BY <1>20, NextRoundStep
<1>21. CASE RoundDone
  BY <1>21, RoundDoneStep
<1>22. CASE LoopDone
  BY <1>22, LoopDoneStep
<1>23. CASE ConnectList
  BY <1>23, ConnectListStep
<1>24. CASE ConnectMatch
  BY <1>24, ConnectMatchStep
<1>25. CASE NextReplace
  BY <1>25, NextReplaceStep
<1>26. CASE TakeOver
  BY <1>26, TakeOverStep
<1>27. CASE Wire
  BY <1>27 DEF Wire, IInv
<1>. QED
  BY <1>1, <1>2, <1>3, <1>4, <1>5, <1>6, <1>7, <1>8, <1>9, <1>10, <1>11, <1>12, <1>13,
     <1>14, <1>15, <1>16, <1>17, <1>18, <1>19, <1>20, <1>21, <1>22, <1>23, <1>24, <1>25,
     <1>26, <1>27
  DEF ExpandNext

LEMMA AlwaysIInv == ExpandSpec => []IInv
<1>1. ExpandInit => IInv
  BY InitIInv
<1>2. IInv /\ [ExpandNext]_expandVars => IInv'
  BY StepIInv
<1>. QED
  BY <1>1, <1>2, PTL DEF ExpandSpec

(* The variables of the expansion keep their types, the values of parameters
   among them stay numbers, and a frame has an argument that the definition
   contains: for definitions of every size. *)
THEOREM ExpansionIsTyped == ExpandSpec => []ExpandTypeOK
<1>1. IInv => ExpandTypeOK
  BY DEF IInv, Stacks, ExpandTypeOK
<1>. QED
  BY <1>1, AlwaysIInv, PTL

(* Every function of the expansion leaves the parameter stack and the path as
   it found them, for every definition and at every depth of recursion: each
   call of param_stack_enter and of name_stack_enter is matched. *)
THEOREM StacksBalanced == ExpandSpec => []StacksNest
<1>1. ASSUME IInv
      PROVE  LengthsNest
  <2>1. CASE calls = <<>>
    BY <1>1, <2>1 DEF IInv, Stacks, Lengths, LengthsNest
  <2>2. CASE calls # <<>>
    <3>1. Len(params) = Top.base + Top.held /\ Len(path) = Top.depth + Deeper(Top)
      BY <1>1, <2>2, InHand
    <3>2. Chain(calls)
      BY <1>1 DEF IInv, Stacks
    <3>. QED
      BY <2>2, <3>1, <3>2 DEF Chain, LengthsNest
  <2>. QED
    BY <2>1, <2>2
<1>2. IInv => NamesAreDeclared
  BY DEF IInv, Stacks, NamesHeld, NamesAreDeclared
<1>3. IInv => StacksNest
  BY <1>1, <1>2 DEF StacksNest
<1>. QED
  BY <1>3, AlwaysIInv, PTL
=============================================================================
