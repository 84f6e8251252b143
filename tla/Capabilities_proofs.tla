-------------------------- MODULE Capabilities_proofs --------------------------
(* Proofs about the capabilities of a device, for all values of their         *)
(* constants: their registration (CapabilityRegistry), the energy of a gap    *)
(* (PowerMeter) and the calibration of the current sensor (CurrentSensor),    *)
(* and the types of these, of the gate (GarageControl) and of the reset       *)
(* button (ResetButton).                                                      *)
EXTENDS CapabilityRegistry, GarageControl, ResetButton, PowerMeter, CurrentSensor,
        FiniteSetTheorems, WellFoundedInduction, TLAPS

-----------------------------------------------------------------------------
(* The registry: objects stay apart in the arena and the ids of current       *)
(* sensors stay unique.                                                       *)

(* Alignment never moves a block back. *)
LEMMA AlignUpGrows ==
  ASSUME NEW value \in Nat, NEW alignment \in Nat \ {0}
  PROVE  AlignUp(value, alignment) \in Nat /\ AlignUp(value, alignment) >= value
<1> DEFINE x == value + alignment - 1  q == x \div alignment
<1>1. x \in Nat /\ x >= value
  OBVIOUS
<1>2. q \in Nat /\ x % alignment \in 0..(alignment - 1) /\ x = (q * alignment) + (x % alignment)
  BY <1>1
<1>3. q * alignment \in Nat
  BY <1>2
<1>4. q * alignment >= value
  BY <1>2, <1>3
<1> QED  BY <1>3, <1>4 DEF AlignUp

(* A set of numbers that is not empty has a smallest. *)
LEMMA SmallestExists ==
  ASSUME NEW S, S \subseteq Nat, S # {}
  PROVE  \E x \in S : \A y \in S : x <= y
<1> DEFINE Less == {pair \in Nat \X Nat : pair[1] < pair[2]}
<1>1. IsWellFoundedOn(Less, Nat)
  BY NatLessThanWellFounded DEF OpToRel
<1>2. PICK x \in S : \A y \in S : <<y, x>> \notin Less
  <2> HIDE DEF Less
  <2> QED  BY <1>1, WFMin
<1>3. ASSUME NEW y \in S PROVE x <= y
  <2>1. x \in Nat /\ y \in Nat
    OBVIOUS
  <2>2. ~(y < x)
    BY <1>2, <2>1
  <2> QED  BY <2>1, <2>2
<1> QED  BY <1>3

-----------------------------------------------------------------------------
(* The invariant of a registry *)

Boxes == [at : Nat, size : Nat]
NamedBoxes == [name : Names, at : Nat, size : Nat]

Shaped(r) ==
  r \in [open : BOOLEAN, caps : Seq(NamedBoxes), adapters : Seq(Boxes), offset : Nat,
         pins : SUBSET Pins, ids : SUBSET CapNames]

Inside(r) ==
  /\ \A i \in DOMAIN r.caps : Within(r.caps[i], r)
  /\ \A i \in DOMAIN r.adapters : Within(r.adapters[i], r)

AllApart(r) ==
  /\ \A i, j \in DOMAIN r.caps : i # j => Apart(r.caps[i], r.caps[j])
  /\ \A i, j \in DOMAIN r.adapters : i # j => Apart(r.adapters[i], r.adapters[j])
  /\ \A i \in DOMAIN r.caps, j \in DOMAIN r.adapters : Apart(r.caps[i], r.adapters[j])

\* An id that a current sensor took has one capability.
Once(r, id) ==
  \E i \in DOMAIN r.caps :
    r.caps[i].name = id /\ \A j \in DOMAIN r.caps : r.caps[j].name = id => j = i
IdsOnce(r) == \A id \in r.ids : Once(r, id)

\* Arrays and arena are not overrun.
InLimits(r) ==
  Len(r.caps) <= MaxCaps /\ Len(r.adapters) <= MaxAdapters /\ r.offset <= ArenaBytes

Sound(r) == Shaped(r) /\ Inside(r) /\ AllApart(r) /\ IdsOnce(r) /\ InLimits(r)

(* What is placed has a place and a size. *)
LEMMA PlacedTyped ==
  ASSUME NEW r, Shaped(r)
  PROVE  /\ \A i \in DOMAIN r.caps : r.caps[i] \in NamedBoxes
                                   /\ r.caps[i].at \in Nat /\ r.caps[i].size \in Nat
         /\ \A i \in DOMAIN r.adapters : r.adapters[i] \in Boxes
                                       /\ r.adapters[i].at \in Nat /\ r.adapters[i].size \in Nat
<1>1. r.caps \in Seq(NamedBoxes) /\ r.adapters \in Seq(Boxes)
  BY DEF Shaped
<1>2. \A i \in DOMAIN r.caps : r.caps[i] \in NamedBoxes
  BY <1>1
<1>3. \A i \in DOMAIN r.adapters : r.adapters[i] \in Boxes
  BY <1>1
<1> QED  BY <1>2, <1>3 DEF NamedBoxes, Boxes

-----------------------------------------------------------------------------
(* The arena *)

(* A block is placed at or after the offset and moves it past itself. *)
LEMMA BlockPlaced ==
  ASSUME NEW r, Shaped(r), NEW b \in Blocks
  PROVE  /\ Block(r, b) \in Boxes /\ Block(r, b).at >= r.offset
         /\ Block(r, b).at + Block(r, b).size \in Nat
         /\ Block(r, b).at + Block(r, b).size >= r.offset
         /\ Allocate(r, b) = [r EXCEPT !.offset = Block(r, b).at + Block(r, b).size]
<1>1. r.offset \in Nat
  BY DEF Shaped
<1>2. Layout[b].size \in Nat \ {0} /\ Layout[b].align \in Nat \ {0}
  BY RegistryAssumption
<1>3. /\ AlignUp(r.offset, Layout[b].align) \in Nat
      /\ AlignUp(r.offset, Layout[b].align) >= r.offset
  BY <1>1, <1>2, AlignUpGrows
<1> QED  BY <1>1, <1>2, <1>3 DEF Block, Boxes, Allocate

(* Room that is taken and not used disturbs nothing. *)
LEMMA AllocateSound ==
  ASSUME NEW r, Sound(r), NEW b \in Blocks, Fits(r, b)
  PROVE  Sound(Allocate(r, b))
<1> DEFINE end == Block(r, b).at + Block(r, b).size
<1>1. end \in Nat /\ end >= r.offset /\ Allocate(r, b) = [r EXCEPT !.offset = end]
  BY BlockPlaced DEF Sound
<1> HIDE DEF end
<1>2. Shaped(Allocate(r, b))
  BY <1>1 DEF Sound, Shaped
<1>3. /\ Allocate(r, b).caps = r.caps /\ Allocate(r, b).adapters = r.adapters
      /\ Allocate(r, b).ids = r.ids /\ Allocate(r, b).offset = end
  BY <1>1 DEF Sound, Shaped
<1>4. /\ \A i \in DOMAIN r.caps : r.caps[i].at \in Nat /\ r.caps[i].size \in Nat
      /\ \A i \in DOMAIN r.adapters : r.adapters[i].at \in Nat /\ r.adapters[i].size \in Nat
  BY PlacedTyped DEF Sound
<1>5. Inside(Allocate(r, b))
  BY <1>1, <1>3, <1>4 DEF Sound, Shaped, Inside, Within
<1>6. AllApart(Allocate(r, b)) /\ IdsOnce(Allocate(r, b))
  BY <1>3 DEF Sound, AllApart, IdsOnce, Once
<1>7. InLimits(Allocate(r, b))
  BY <1>3 DEF Sound, InLimits, Fits, Block, end
<1> QED  BY <1>2, <1>5, <1>6, <1>7 DEF Sound

(* An adapter is placed behind all that is there. *)
LEMMA AdapterSound ==
  ASSUME NEW r, Sound(r), NEW b \in Blocks, CanTake(r, b)
  PROVE  Sound(RegisterAdapter(Allocate(r, b), Block(r, b)))
<1> DEFINE box == Block(r, b)
           new == RegisterAdapter(Allocate(r, b), box)
<1>1. /\ box \in Boxes /\ box.at \in Nat /\ box.size \in Nat /\ box.at >= r.offset
      /\ Allocate(r, b) = [r EXCEPT !.offset = box.at + box.size]
  BY BlockPlaced DEF Sound, Boxes
<1> HIDE DEF box
<1>2. Shaped(r) /\ r.adapters \in Seq(Boxes) /\ r.caps \in Seq(NamedBoxes) /\ r.offset \in Nat
  BY DEF Sound, Shaped
<1>3. new = [r EXCEPT !.offset = box.at + box.size, !.adapters = Append(r.adapters, box)]
  BY <1>1, <1>2 DEF RegisterAdapter, Shaped
<1>4. /\ new.caps = r.caps /\ new.ids = r.ids /\ new.offset = box.at + box.size
      /\ new.adapters = Append(r.adapters, box)
  BY <1>2, <1>3 DEF Shaped
<1>5. Append(r.adapters, box) \in Seq(Boxes) /\ box.at + box.size \in Nat
  BY <1>1, <1>2
<1>6. Shaped(new)
  BY <1>2, <1>3, <1>5 DEF Shaped
<1> HIDE DEF new
<1>7. /\ DOMAIN new.adapters = 1..(Len(r.adapters) + 1)
      /\ DOMAIN r.adapters = 1..Len(r.adapters) /\ Len(r.adapters) \in Nat
      /\ \A i \in DOMAIN r.adapters : new.adapters[i] = r.adapters[i]
      /\ new.adapters[Len(r.adapters) + 1] = box
  BY <1>2, <1>4
<1>8. /\ \A i \in DOMAIN r.caps : r.caps[i].at \in Nat /\ r.caps[i].size \in Nat
                                 /\ r.caps[i].at + r.caps[i].size <= r.offset
      /\ \A i \in DOMAIN r.adapters :
             /\ r.adapters[i].at \in Nat /\ r.adapters[i].size \in Nat
             /\ r.adapters[i].at + r.adapters[i].size <= r.offset
  BY <1>2, PlacedTyped DEF Sound, Inside, Within
<1>9. Inside(new)
  <2>1. new.offset \in Nat /\ new.offset >= r.offset
    BY <1>1, <1>2, <1>4
  <2>2. ASSUME NEW i \in DOMAIN new.caps PROVE Within(new.caps[i], new)
    <3>1. /\ new.caps[i] = r.caps[i] /\ r.caps[i].at \in Nat /\ r.caps[i].size \in Nat
          /\ r.caps[i].at + r.caps[i].size <= r.offset
      BY <1>4, <1>8
    <3> QED  BY <1>2, <2>1, <3>1 DEF Within
  <2>3. ASSUME NEW i \in DOMAIN r.adapters PROVE Within(new.adapters[i], new)
    <3>1. /\ new.adapters[i] = r.adapters[i]
          /\ r.adapters[i].at \in Nat /\ r.adapters[i].size \in Nat
          /\ r.adapters[i].at + r.adapters[i].size <= r.offset
      BY <1>7, <1>8
    <3> QED  BY <1>2, <2>1, <3>1 DEF Within
  <2>4. Within(new.adapters[Len(r.adapters) + 1], new)
    BY <1>1, <1>4, <1>7 DEF Within
  <2> QED  BY <1>7, <2>2, <2>3, <2>4 DEF Inside
<1>10. /\ \A i \in DOMAIN r.caps : Apart(r.caps[i], box)
       /\ \A i \in DOMAIN r.adapters : Apart(r.adapters[i], box) /\ Apart(box, r.adapters[i])
  BY <1>1, <1>2, <1>8 DEF Apart
<1>11. AllApart(new)
  BY <1>4, <1>7, <1>10 DEF Sound, AllApart
<1>12. IdsOnce(new)
  BY <1>4 DEF Sound, IdsOnce, Once
<1>13. InLimits(new)
  <2>1. Len(new.adapters) = Len(r.adapters) + 1 /\ Len(r.adapters) < MaxAdapters
    BY <1>1, <1>2, <1>4 DEF CanTake
  <2>2. box.at + box.size <= ArenaBytes
    BY DEF CanTake, Fits, Block, box
  <2> QED  BY <1>2, <1>4, <2>1, <2>2, RegistryAssumption DEF Sound, InLimits
<1>14. Sound(new)
  BY <1>6, <1>9, <1>11, <1>12, <1>13 DEF Sound
<1> QED  BY <1>14 DEF new, box

(* A capability is placed behind all that is there, under a name that no      *)
(* current sensor has.                                                        *)
LEMMA CapabilitySound ==
  ASSUME NEW r, Sound(r), NEW b \in Blocks, NEW name \in Names, Fits(r, b), Resolvable(r, name)
  PROVE  /\ Sound(RegisterCapability(Allocate(r, b), Block(r, b), name))
         /\ RegisterCapability(Allocate(r, b), Block(r, b), name).caps
              = Append(r.caps, [name |-> name, at |-> Block(r, b).at, size |-> Block(r, b).size])
         /\ RegisterCapability(Allocate(r, b), Block(r, b), name).ids = r.ids
<1> DEFINE box == Block(r, b)
           cap == [name |-> name, at |-> box.at, size |-> box.size]
           new == RegisterCapability(Allocate(r, b), box, name)
<1>1. /\ box \in Boxes /\ box.at \in Nat /\ box.size \in Nat /\ box.at >= r.offset
      /\ Allocate(r, b) = [r EXCEPT !.offset = box.at + box.size]
  BY BlockPlaced DEF Sound, Boxes
<1> HIDE DEF box
<1>2. Shaped(r) /\ r.adapters \in Seq(Boxes) /\ r.caps \in Seq(NamedBoxes) /\ r.offset \in Nat
  BY DEF Sound, Shaped
<1>3. new = [r EXCEPT !.offset = box.at + box.size, !.caps = Append(r.caps, cap)]
  BY <1>1, <1>2 DEF RegisterCapability, Shaped
<1>4. cap \in NamedBoxes /\ cap.at = box.at /\ cap.size = box.size /\ cap.name = name
  BY <1>1 DEF NamedBoxes
<1> HIDE DEF cap
<1>5. /\ new.adapters = r.adapters /\ new.ids = r.ids /\ new.offset = box.at + box.size
      /\ new.caps = Append(r.caps, cap)
  BY <1>2, <1>3 DEF Shaped
<1>6. Append(r.caps, cap) \in Seq(NamedBoxes) /\ box.at + box.size \in Nat
  BY <1>1, <1>2, <1>4
<1>7. Shaped(new)
  BY <1>2, <1>3, <1>6 DEF Shaped
<1> HIDE DEF new
<1>8. /\ DOMAIN new.caps = 1..(Len(r.caps) + 1)
      /\ DOMAIN r.caps = 1..Len(r.caps) /\ Len(r.caps) \in Nat
      /\ \A i \in DOMAIN r.caps : new.caps[i] = r.caps[i]
      /\ new.caps[Len(r.caps) + 1] = cap
  BY <1>2, <1>5
<1>9. /\ \A i \in DOMAIN r.caps : r.caps[i].at \in Nat /\ r.caps[i].size \in Nat
                                 /\ r.caps[i].at + r.caps[i].size <= r.offset
      /\ \A i \in DOMAIN r.adapters :
             /\ r.adapters[i].at \in Nat /\ r.adapters[i].size \in Nat
             /\ r.adapters[i].at + r.adapters[i].size <= r.offset
  BY <1>2, PlacedTyped DEF Sound, Inside, Within
<1>10. Inside(new)
  <2>1. new.offset \in Nat /\ new.offset >= r.offset
    BY <1>1, <1>2, <1>5
  <2>2. ASSUME NEW i \in DOMAIN r.caps PROVE Within(new.caps[i], new)
    <3>1. /\ new.caps[i] = r.caps[i] /\ r.caps[i].at \in Nat /\ r.caps[i].size \in Nat
          /\ r.caps[i].at + r.caps[i].size <= r.offset
      BY <1>8, <1>9
    <3> QED  BY <1>2, <2>1, <3>1 DEF Within
  <2>3. ASSUME NEW i \in DOMAIN new.adapters PROVE Within(new.adapters[i], new)
    <3>1. /\ new.adapters[i] = r.adapters[i]
          /\ r.adapters[i].at \in Nat /\ r.adapters[i].size \in Nat
          /\ r.adapters[i].at + r.adapters[i].size <= r.offset
      BY <1>5, <1>9
    <3> QED  BY <1>2, <2>1, <3>1 DEF Within
  <2>4. Within(new.caps[Len(r.caps) + 1], new)
    BY <1>1, <1>4, <1>5, <1>8 DEF Within
  <2> QED  BY <1>8, <2>2, <2>3, <2>4 DEF Inside
<1>11. /\ \A i \in DOMAIN r.adapters : Apart(cap, r.adapters[i])
       /\ \A i \in DOMAIN r.caps : Apart(r.caps[i], cap) /\ Apart(cap, r.caps[i])
  BY <1>1, <1>2, <1>4, <1>9 DEF Apart
<1>12. AllApart(new)
  BY <1>5, <1>8, <1>11 DEF Sound, AllApart
<1>13. IdsOnce(new)
  <2> SUFFICES ASSUME NEW id \in r.ids PROVE Once(new, id)
    BY <1>5 DEF IdsOnce
  <2>1. PICK i \in DOMAIN r.caps :
          r.caps[i].name = id /\ \A j \in DOMAIN r.caps : r.caps[j].name = id => j = i
    BY DEF Sound, IdsOnce, Once
  <2>2. i \in DOMAIN new.caps /\ new.caps[i].name = id
    BY <1>8, <2>1
  <2>3. cap.name # id
    BY <1>4 DEF Resolvable
  <2>4. \A j \in DOMAIN new.caps : new.caps[j].name = id => j = i
    BY <1>8, <2>1, <2>3
  <2> QED  BY <2>2, <2>4 DEF Once
<1>14. InLimits(new)
  <2>1. Len(new.caps) = Len(r.caps) + 1 /\ Len(r.caps) < MaxCaps
    BY <1>2, <1>5 DEF Resolvable
  <2>2. box.at + box.size <= ArenaBytes
    BY DEF Fits, Block, box
  <2> QED  BY <1>2, <1>5, <2>1, <2>2, RegistryAssumption DEF Sound, InLimits
<1>15. Sound(new)
  BY <1>7, <1>10, <1>12, <1>13, <1>14 DEF Sound
<1> QED  BY <1>5, <1>15 DEF new, box, cap

-----------------------------------------------------------------------------
(* Adapters one after the other *)

(* The function that AdaptersAfter defines is the one its recursion says. The *)
(* function on 0..k exists for every k, for there is no smallest k without.   *)
LEMMA AdaptersAfterDef ==
  ASSUME NEW r, NEW wanted \in Seq(Blocks)
  PROVE  LET after == AdaptersAfter(r, wanted) IN
         /\ after[0] = r
         /\ \A i \in 1..Len(wanted) : after[i] = CreateAdapter(after[i - 1], wanted[i])
<1> DEFINE Next1(f, i) == IF i = 0 THEN r ELSE CreateAdapter(f[i - 1], wanted[i])
           Upto(k) == \E f : f = [i \in 0..k |-> Next1(f, i)]
           bad == {k \in Nat : ~Upto(k)}
<1>1. bad = {}
  <2> SUFFICES ASSUME bad # {} PROVE FALSE
    OBVIOUS
  <2>1. PICK k \in bad : \A j \in bad : k <= j
    <3>1. bad \subseteq Nat
      OBVIOUS
    <3> HIDE DEF bad
    <3> QED  BY <3>1, SmallestExists
  <2>2. CASE k = 0
    <3> DEFINE f == [i \in 0..0 |-> r]
    <3>1. f = [i \in 0..0 |-> Next1(f, i)]
      OBVIOUS
    <3> QED  BY <2>2, <3>1
  <2>3. CASE k # 0
    <3>1. k \in Nat /\ k - 1 \in Nat /\ k - 1 \notin bad
      <4>1. k \in Nat
        BY <2>1
      <4>2. k - 1 \in Nat /\ ~(k <= k - 1)
        BY <2>3, <4>1
      <4> HIDE DEF bad
      <4> QED  BY <2>1, <4>1, <4>2
    <3>2. PICK f : f = [i \in 0..(k - 1) |-> Next1(f, i)]
      BY <3>1
    <3> DEFINE g == [i \in 0..k |-> IF i < k THEN f[i] ELSE Next1(f, k)]
    <3>3. ASSUME NEW i \in 0..k PROVE g[i] = Next1(g, i)
      <4>1. CASE i = 0
        BY <2>3, <3>1, <3>2, <4>1
      <4>2. CASE i # 0 /\ i < k
        <5>1. i \in 0..(k - 1) /\ i - 1 \in 0..k /\ i - 1 < k
          BY <3>1, <4>2
        <5>2. g[i] = f[i] /\ g[i - 1] = f[i - 1]
          BY <4>2, <5>1
        <5>3. f[i] = Next1(f, i)
          BY <3>2, <5>1
        <5> QED  BY <4>2, <5>2, <5>3
      <4>3. CASE i = k
        <5>1. k - 1 \in 0..k /\ k - 1 < k
          BY <3>1
        <5>2. g[k] = Next1(f, k) /\ g[k - 1] = f[k - 1]
          BY <3>1, <5>1
        <5> QED  BY <4>3, <5>2
      <4> QED  BY <3>1, <4>1, <4>2, <4>3
    <3>4. g = [i \in 0..k |-> Next1(g, i)]
      BY <3>3
    <3> QED  BY <2>1, <3>4
  <2> QED  BY <2>2, <2>3
<1>2. Len(wanted) \in Nat
  OBVIOUS
<1>3. Upto(Len(wanted))
  BY <1>1, <1>2
<1> DEFINE after == AdaptersAfter(r, wanted)
<1>4. after = [i \in 0..Len(wanted) |-> Next1(after, i)]
  BY <1>3 DEF AdaptersAfter
<1> HIDE DEF after
<1>5. after[0] = r
  BY <1>2, <1>4
<1>6. ASSUME NEW i \in 1..Len(wanted) PROVE after[i] = CreateAdapter(after[i - 1], wanted[i])
  BY <1>2, <1>4
<1> QED  BY <1>5, <1>6 DEF after

(* An adapter is created, or nothing happens. *)
LEMMA CreateAdapterSound ==
  ASSUME NEW r, Sound(r), NEW b \in Blocks
  PROVE  Sound(CreateAdapter(r, b))
BY AdapterSound DEF CreateAdapter

(* After any number of the adapters the registry is sound. *)
LEMMA AdaptersOfSound ==
  ASSUME NEW r, Sound(r), NEW wanted \in Seq(Blocks)
  PROVE  Sound(AdaptersOf(r, wanted).r)
<1> DEFINE after == AdaptersAfter(r, wanted)
<1>1. /\ after[0] = r /\ Len(wanted) \in Nat
      /\ \A i \in 1..Len(wanted) :
            after[i] = CreateAdapter(after[i - 1], wanted[i]) /\ wanted[i] \in Blocks
  BY AdaptersAfterDef
<1> DEFINE failed == {i \in 1..Len(wanted) : ~CanTake(after[i - 1], wanted[i])}
           bad == {i \in 0..Len(wanted) : ~Sound(after[i])}
<1>2. AdaptersOf(r, wanted)
        = IF failed = {} THEN [complete |-> TRUE, r |-> after[Len(wanted)]]
          ELSE [complete |-> FALSE,
                r |-> after[(CHOOSE i \in failed : \A j \in failed : i <= j) - 1]]
  BY DEF AdaptersOf
<1> HIDE DEF after
<1>3. bad = {}
  <2> SUFFICES ASSUME bad # {} PROVE FALSE
    OBVIOUS
  <2>1. PICK k \in bad : \A j \in bad : k <= j
    <3>1. bad \subseteq Nat
      BY <1>1
    <3> HIDE DEF bad
    <3> QED  BY <3>1, SmallestExists
  <2>2. k \in 0..Len(wanted) /\ ~Sound(after[k])
    BY <2>1
  <2>3. k # 0
    BY <1>1, <2>2
  <2>4. k \in 1..Len(wanted) /\ k - 1 \in 0..Len(wanted) /\ ~(k <= k - 1)
    BY <1>1, <2>2, <2>3
  <2>5. Sound(after[k - 1])
    BY <2>1, <2>4
  <2> QED  BY <1>1, <2>2, <2>4, <2>5, CreateAdapterSound
<1>4. \A i \in 0..Len(wanted) : Sound(after[i])
  BY <1>3
<1>5. CASE failed = {}
  <2>1. AdaptersOf(r, wanted).r = after[Len(wanted)] /\ Len(wanted) \in 0..Len(wanted)
    BY <1>1, <1>2, <1>5
  <2> QED  BY <1>4, <2>1
<1>6. CASE failed # {}
  <2> DEFINE first == CHOOSE i \in failed : \A j \in failed : i <= j
  <2>1. first \in failed
    <3>1. failed \subseteq Nat
      BY <1>1
    <3> HIDE DEF failed
    <3>2. \E i \in failed : \A j \in failed : i <= j
      BY <1>6, <3>1, SmallestExists
    <3> QED  BY <3>2
  <2>2. AdaptersOf(r, wanted).r = after[first - 1]
    BY <1>2, <1>6
  <2> HIDE DEF first
  <2>3. first - 1 \in 0..Len(wanted)
    BY <1>1, <2>1
  <2> QED  BY <1>4, <2>2, <2>3
<1> QED  BY <1>5, <1>6

-----------------------------------------------------------------------------
(* The adds *)

(* A capability is created, or nothing happens. *)
LEMMA CreateCapabilitySound ==
  ASSUME NEW r, Sound(r), NEW name \in Names
  PROVE  Sound(CreateCapability(r, name))
BY CapabilitySound DEF CreateCapability, Blocks

(* A capability on its adapters, all, some or none of them. *)
LEMMA CreateOnSound ==
  ASSUME NEW r, Sound(r), NEW wanted \in Seq(Blocks), NEW name \in Names
  PROVE  Sound(CreateOn(r, wanted, name))
BY AdaptersOfSound, CreateCapabilitySound DEF CreateOn

(* A capability and its adapter come both or not at all: what was placed when *)
(* the second finds no room is given back, exactly.                           *)
LEMMA CreateBothSound ==
  ASSUME NEW r, Sound(r), NEW b \in Blocks, NEW name \in Names
  PROVE  /\ Sound(CreateBoth(r, b, name))
         /\ \/ CreateBoth(r, b, name) = r
            \/ /\ CreateBoth(r, b, name).ids = r.ids
               /\ \E cap \in NamedBoxes :
                    cap.name = name /\ CreateBoth(r, b, name).caps = Append(r.caps, cap)
<1> DEFINE placed == Allocate(r, b)
           held == RegisterAdapter(placed, Block(r, b))
<1>1. CASE ~(CanTake(r, b) /\ Resolvable(r, name))
  BY <1>1 DEF CreateBoth
<1>2. CASE CanTake(r, b) /\ Resolvable(r, name) /\ ~Fits(placed, "capability")
  <2>1. CreateBoth(r, b, name) = [placed EXCEPT !.offset = r.offset]
    BY <1>2 DEF CreateBoth
  <2>2. [placed EXCEPT !.offset = r.offset] = r
    BY DEF Allocate, Sound, Shaped
  <2> QED  BY <2>1, <2>2
<1>3. CASE CanTake(r, b) /\ Resolvable(r, name) /\ Fits(placed, "capability")
  <2>1. Sound(held)
    BY <1>3, AdapterSound
  <2>2. /\ held.caps = r.caps /\ held.ids = r.ids /\ held.open = r.open
        /\ held.offset = placed.offset
    BY DEF Sound, Shaped, Allocate, RegisterAdapter
  <2> HIDE DEF held
  <2>3. Fits(held, "capability") /\ Resolvable(held, name)
    BY <1>3, <2>2 DEF Fits, Block, Resolvable
  <2>4. CreateBoth(r, b, name)
          = RegisterCapability(Allocate(held, "capability"), Block(held, "capability"), name)
    BY <1>3, <2>3 DEF CreateBoth, CreateCapability, held
  <2>5. "capability" \in Blocks
    BY DEF Blocks
  <2>6. /\ Sound(CreateBoth(r, b, name)) /\ CreateBoth(r, b, name).ids = r.ids
        /\ CreateBoth(r, b, name).caps
             = Append(r.caps, [name |-> name, at |-> Block(held, "capability").at,
                               size |-> Block(held, "capability").size])
    BY <2>1, <2>2, <2>3, <2>4, <2>5, CapabilitySound
  <2>7. Block(held, "capability") \in Boxes
    BY <2>1, <2>5, BlockPlaced DEF Sound
  <2>8. [name |-> name, at |-> Block(held, "capability").at,
         size |-> Block(held, "capability").size] \in NamedBoxes
    BY <2>7 DEF Boxes, NamedBoxes
  <2> QED  BY <2>6, <2>8
<1> QED  BY <1>1, <1>2, <1>3

(* What needs no capability of that name before may take the name as its id.  *)
LEMMA TakeIdSound ==
  ASSUME NEW r, Sound(r), NEW new, Sound(new), new.ids = r.ids, NEW name \in CapNames,
         ~InUse(r, name), NEW cap \in NamedBoxes, cap.name = name,
         new.caps = Append(r.caps, cap), NEW pins \in SUBSET Pins
  PROVE  Sound([new EXCEPT !.pins = @ \cup pins, !.ids = @ \cup {name}])
<1> DEFINE taken == [new EXCEPT !.pins = @ \cup pins, !.ids = @ \cup {name}]
<1>1. Shaped(new)
  BY DEF Sound
<1>2. /\ taken.caps = new.caps /\ taken.adapters = new.adapters /\ taken.offset = new.offset
      /\ taken.ids = r.ids \cup {name}
  BY <1>1 DEF Shaped
<1>3. Shaped(taken)
  BY <1>1 DEF Shaped
<1> HIDE DEF taken
<1>4. Inside(taken) /\ AllApart(taken)
  BY <1>2 DEF Sound, Inside, Within, AllApart
<1>5. InLimits(taken)
  BY <1>2 DEF Sound, InLimits
<1>6. r.caps \in Seq(NamedBoxes)
  BY DEF Sound, Shaped
<1>7. Once(taken, name)
  <2>1. /\ DOMAIN taken.caps = 1..(Len(r.caps) + 1) /\ DOMAIN r.caps = 1..Len(r.caps)
        /\ Len(r.caps) \in Nat
        /\ \A i \in DOMAIN r.caps : taken.caps[i] = r.caps[i]
        /\ taken.caps[Len(r.caps) + 1] = cap
    BY <1>2, <1>6
  <2>2. \A j \in DOMAIN taken.caps : taken.caps[j].name = name => j = Len(r.caps) + 1
    BY <2>1 DEF InUse
  <2> QED  BY <2>1, <2>2 DEF Once
<1>8. ASSUME NEW id \in r.ids PROVE Once(taken, id)
  BY <1>2 DEF Sound, IdsOnce, Once
<1>9. IdsOnce(taken)
  BY <1>2, <1>7, <1>8 DEF IdsOnce
<1> QED  BY <1>3, <1>4, <1>5, <1>9 DEF Sound, taken

-----------------------------------------------------------------------------
(* The operations *)

(* The operations on an output, an input or nothing, with their names.        *)
LEMMA SimpleAddSound ==
  ASSUME Sound(registry), NEW name \in Names,
         OnOutput(name) \/ OnInput(name) \/ OnNothing(name) \/ Resolved(name)
  PROVE  Sound(registry')
<1>1. <<"output">> \in Seq(Blocks) /\ <<"input">> \in Seq(Blocks) /\ <<>> \in Seq(Blocks)
  BY DEF Blocks
<1> QED  BY <1>1, CreateOnSound, CreateCapabilitySound DEF OnOutput, OnInput, OnNothing, Resolved

(* The interpreter of a valve takes room that is there. *)
LEMMA AddValveSound ==
  ASSUME Sound(registry), NEW name \in Names, AddValve(name)
  PROVE  Sound(registry')
<1> DEFINE r == CreateOn(registry, <<"output">>, name)
<1>1. <<"output">> \in Seq(Blocks) /\ "interpreter" \in Blocks
  BY DEF Blocks
<1>2. Sound(r)
  BY <1>1, CreateOnSound
<1>3. registry' = r \/ (Fits(r, "interpreter") /\ registry' = Allocate(r, "interpreter"))
  BY DEF AddValve
<1> HIDE DEF r
<1> QED  BY <1>1, <1>2, <1>3, AllocateSound

(* The fan, the garage and the composite of a power sensor. *)
LEMMA AddSeveralSound ==
  ASSUME Sound(registry), NEW name \in Names, NEW ends \in 0..2,
         AddFan(name) \/ AddGarageControl(name, ends) \/ AddPowerEnergy(name)
  PROVE  Sound(registry')
<1>1. {"output", "composite"} \subseteq Blocks
  BY DEF Blocks
<1>2. Definitive(name, "fan") \in Names
  BY DEF Definitive, Names
<1>3. CASE AddFan(name)
  BY <1>1, <1>2, <1>3, CreateBothSound DEF AddFan
<1>4. CASE AddPowerEnergy(name)
  BY <1>1, <1>4, CreateBothSound DEF AddPowerEnergy
<1>5. CASE AddGarageControl(name, ends)
  <2> DEFINE wanted == [i \in 1..(4 + ends) |-> IF i <= 4 THEN "output" ELSE "input"]
  <2>1. wanted \in Seq(Blocks)
    <3>1. 4 + ends \in Nat
      OBVIOUS
    <3>2. \A i \in 1..(4 + ends) : wanted[i] \in Blocks
      BY DEF Blocks
    <3> QED  BY <3>1, <3>2
  <2>2. registry' = CreateOn(registry, wanted, name)
    BY <1>5 DEF AddGarageControl
  <2> HIDE DEF wanted
  <2> QED  BY <2>1, <2>2, CreateOnSound
<1> QED  BY <1>3, <1>4, <1>5

(* The sensors an application owns. *)
LEMMA AddExternalSound ==
  ASSUME Sound(registry), NEW name \in Names,
         \/ AddExternalCurrentSensor(name) \/ AddExternalVoltageSensor(name)
         \/ AddExternalPowerEnergy(name)
  PROVE  Sound(registry')
BY CreateCapabilitySound
   DEF AddExternalCurrentSensor, AddExternalVoltageSensor, AddExternalPowerEnergy

(* A voltage sensor reserves a pin. *)
LEMMA AddVoltageSound ==
  ASSUME Sound(registry), NEW name \in Names, NEW pin \in Pins, AddVoltageSensor(name, pin)
  PROVE  Sound(registry')
<1> DEFINE r == CreateBoth(registry, "analog", name)
<1>1. Sound(r)
  BY CreateBothSound DEF Blocks
<1>2. registry' \in {registry, r, [r EXCEPT !.pins = @ \cup {pin}]}
  BY DEF AddVoltageSensor
<1> HIDE DEF r
<1> DEFINE reserved == [r EXCEPT !.pins = @ \cup {pin}]
<1>3. Shaped(r)
  BY <1>1 DEF Sound
<1>4. Shaped(reserved)
  BY <1>3 DEF Shaped
<1>5. /\ reserved.caps = r.caps /\ reserved.adapters = r.adapters /\ reserved.offset = r.offset
      /\ reserved.ids = r.ids
  BY <1>3 DEF Shaped
<1> HIDE DEF reserved
<1>6. Inside(reserved) /\ AllApart(reserved)
  BY <1>1, <1>5 DEF Sound, Inside, Within, AllApart
<1>7. IdsOnce(reserved) /\ InLimits(reserved)
  BY <1>1, <1>5 DEF Sound, IdsOnce, Once, InLimits
<1>8. Sound(reserved)
  BY <1>4, <1>6, <1>7 DEF Sound
<1> QED  BY <1>1, <1>2, <1>8 DEF reserved

(* A current sensor takes its id, too. *)
LEMMA AddCurrentSound ==
  ASSUME Sound(registry), NEW name \in ConfiguredNames, NEW pins \in SUBSET Pins,
         AddCurrentSensor(name, pins)
  PROVE  Sound(registry')
<1> DEFINE r == CreateBoth(registry, "analog", name)
<1>1. name \in Names /\ "analog" \in Blocks
  BY DEF ConfiguredNames, Names, Blocks
<1>2. /\ Sound(r)
      /\ r # registry =>
            /\ r.ids = registry.ids
            /\ \E cap \in NamedBoxes : cap.name = name /\ r.caps = Append(registry.caps, cap)
  BY <1>1, CreateBothSound
<1>3. r # registry => name \in CapNames
  BY DEF CreateBoth, Resolvable, ConfiguredNames
<1>4. \/ registry' = registry
      \/ registry' = r
      \/ /\ r # registry /\ ~InUse(registry, name)
         /\ registry' = [r EXCEPT !.pins = @ \cup pins, !.ids = @ \cup {name}]
  BY DEF AddCurrentSensor
<1> HIDE DEF r
<1>5. CASE r # registry /\ ~InUse(registry, name)
           /\ registry' = [r EXCEPT !.pins = @ \cup pins, !.ids = @ \cup {name}]
  <2>1. PICK cap \in NamedBoxes : cap.name = name /\ r.caps = Append(registry.caps, cap)
    BY <1>2, <1>5
  <2>2. r.ids = registry.ids /\ name \in CapNames
    BY <1>2, <1>3, <1>5
  <2> QED  BY <1>2, <1>5, <2>1, <2>2, TakeIdSound
<1> QED  BY <1>2, <1>4, <1>5

(* Every add keeps the registry sound. *)
LEMMA RegistryStep ==
  ASSUME Sound(registry), [RegistryNext]_registryVars
  PROVE  Sound(registry')
<1>1. CASE AddCapability
  <2>1. /\ ConfiguredNames \subseteq Names
        /\ CapNames \cup {TooLong, Omitted} \subseteq Names
        /\ {"water_level_percent", "water_level_liters", "glp", "glp_meter", "glp_weight",
            "color"} \subseteq Names
    BY DEF ConfiguredNames, Names
  <2>2. CASE \E name \in CapNames \cup {TooLong, Omitted} : AddLight(name) \/ AddFan(name)
    <3>1. PICK name \in CapNames \cup {TooLong, Omitted} : AddLight(name) \/ AddFan(name)
      BY <2>2
    <3>2. name \in Names /\ Definitive(name, "light") \in Names /\ 0 \in 0..2
      BY <2>1 DEF Definitive, Names
    <3> QED  BY <3>1, <3>2, SimpleAddSound, AddSeveralSound DEF AddLight
  <2>3. CASE \E name \in ConfiguredNames :
               \/ AddSwitch(name) \/ AddSwitchPlug(name) \/ AddLED(name)
               \/ AddAlarm(name) \/ AddValve(name)
               \/ AddPushButton(name) \/ AddTouchButton(name) \/ AddDoorSensor(name)
               \/ AddPirSensor(name) \/ AddClapSensor(name)
               \/ AddWaterFlowHallSensor(name) \/ AddTemperatureSensor(name)
               \/ AddHumiditySensor(name) \/ AddDistance(name) \/ AddLuminosity(name)
               \/ \E ends \in 0..2 : AddGarageControl(name, ends)
    <3>1. PICK name \in Names :
               \/ OnOutput(name) \/ OnInput(name) \/ Resolved(name) \/ AddValve(name)
               \/ \E ends \in 0..2 : AddGarageControl(name, ends)
      BY <2>1, <2>3
         DEF AddSwitch, AddSwitchPlug, AddLED, AddAlarm, AddPushButton, AddTouchButton,
             AddDoorSensor, AddPirSensor, AddClapSensor, AddWaterFlowHallSensor,
             AddTemperatureSensor, AddHumiditySensor, AddDistance, AddLuminosity
    <3> QED  BY <3>1, SimpleAddSound, AddValveSound, AddSeveralSound
  <2>4. CASE \/ AddWaterLevelPercent \/ AddWaterLevelLiters \/ AddGlpSensor
             \/ AddGlpMeterPercent \/ AddGlpMeterKg \/ AddOperationalColorSensor
    <3>1. \E name \in Names : OnNothing(name)
      BY <2>1, <2>4
         DEF AddWaterLevelPercent, AddWaterLevelLiters, AddGlpSensor, AddGlpMeterPercent,
             AddGlpMeterKg, AddOperationalColorSensor
    <3> QED  BY <3>1, SimpleAddSound
  <2> QED  BY <1>1, <2>2, <2>3, <2>4 DEF AddCapability
<1>2. CASE AddMeasuring
  <2>1. ConfiguredNames \subseteq Names
    BY DEF ConfiguredNames, Names
  <2>2. PICK name \in ConfiguredNames :
          \/ \E pins \in SUBSET Pins : AddCurrentSensor(name, pins)
          \/ \E pin \in Pins : AddVoltageSensor(name, pin)
          \/ AddExternalCurrentSensor(name)
          \/ AddExternalVoltageSensor(name)
          \/ AddPowerEnergy(name)
          \/ AddExternalPowerEnergy(name)
    BY <1>2 DEF AddMeasuring
  <2>3. name \in Names /\ 0 \in 0..2
    BY <2>1
  <2> QED  BY <2>2, <2>3, AddCurrentSound, AddVoltageSound, AddExternalSound, AddSeveralSound
<1>3. CASE StartSetup
  <2> DEFINE new == [registry EXCEPT !.open = FALSE]
  <2>1. registry' = new /\ Shaped(registry)
    BY <1>3 DEF StartSetup, Sound
  <2>2. Shaped(new)
    BY <2>1 DEF Shaped
  <2>3. /\ new.caps = registry.caps /\ new.adapters = registry.adapters
        /\ new.offset = registry.offset /\ new.ids = registry.ids
    BY <2>1 DEF Shaped
  <2> HIDE DEF new
  <2>4. Inside(new) /\ AllApart(new)
    BY <2>3 DEF Sound, Inside, Within, AllApart
  <2>5. IdsOnce(new) /\ InLimits(new)
    BY <2>3 DEF Sound, IdsOnce, Once, InLimits
  <2>6. Sound(new)
    BY <2>2, <2>4, <2>5 DEF Sound
  <2> QED  BY <2>1, <2>6
<1>4. CASE UNCHANGED registryVars
  BY <1>4 DEF registryVars
<1> QED  BY <1>1, <1>2, <1>3, <1>4 DEF RegistryNext

(* The registry is sound in every state of every behaviour. *)
THEOREM RegistryInvariance == RegistrySpec => []Sound(registry)
<1>1. RegistryInit => Sound(registry)
  <2> SUFFICES ASSUME RegistryInit PROVE Sound(registry)
    OBVIOUS
  <2>1. /\ registry.caps = <<>> /\ registry.adapters = <<>> /\ registry.offset = 0
        /\ registry.ids = {}
    BY DEF RegistryInit, EmptyRegistry
  <2>2. Shaped(registry)
    BY DEF RegistryInit, EmptyRegistry, Shaped
  <2>3. Inside(registry) /\ AllApart(registry) /\ IdsOnce(registry)
    BY <2>1 DEF Inside, AllApart, IdsOnce
  <2>4. InLimits(registry)
    BY <2>1, RegistryAssumption DEF InLimits
  <2> QED  BY <2>2, <2>3, <2>4 DEF Sound
<1>2. Sound(registry) /\ [RegistryNext]_registryVars => Sound(registry)'
  BY RegistryStep
<1> QED  BY <1>1, <1>2, PTL DEF RegistrySpec

(* Objects stay apart and current sensors keep an id of their own, for every  *)
(* size and alignment, every capacity and every sequence of adds.             *)
THEOREM AddsAreSound == RegistrySpec => []RegistrySound
<1>1. Sound(registry) => RegistrySound
  <2> SUFFICES ASSUME Sound(registry) PROVE ObjectsApart /\ CurrentIdsUnique
    BY DEF RegistrySound
  <2>1. ObjectsApart
    BY DEF ObjectsApart, Sound, Inside, AllApart
  <2>2. ASSUME NEW id \in registry.ids
        PROVE  Cardinality({i \in DOMAIN registry.caps : registry.caps[i].name = id}) = 1
    <3>1. PICK k \in DOMAIN registry.caps :
            /\ registry.caps[k].name = id
            /\ \A j \in DOMAIN registry.caps : registry.caps[j].name = id => j = k
      BY DEF Sound, IdsOnce, Once
    <3>2. {i \in DOMAIN registry.caps : registry.caps[i].name = id} = {k}
      BY <3>1
    <3> QED  BY <3>2, FS_Singleton
  <2> QED  BY <2>1, <2>2 DEF CurrentIdsUnique
<1> QED  BY <1>1, RegistryInvariance, PTL

(* Neither the arrays nor the arena are overrun, whatever is added. *)
THEOREM LimitsHold ==
  RegistrySpec => [](/\ Len(registry.caps) <= MaxCaps
                     /\ Len(registry.adapters) <= MaxAdapters
                     /\ registry.offset <= ArenaBytes)
<1>1. Sound(registry) => /\ Len(registry.caps) <= MaxCaps
                         /\ Len(registry.adapters) <= MaxAdapters
                         /\ registry.offset <= ArenaBytes
  BY DEF Sound, InLimits
<1> QED  BY <1>1, RegistryInvariance, PTL

-----------------------------------------------------------------------------
(* Energy *)

\* The baseline is the last sound evaluation, and energy stays below what the
\* largest power makes of the time between sound ones.
MeterInv ==
  /\ now \in Nat
  /\ sound \in [time : Nat, last : Nat, was : BOOLEAN] /\ sound.last <= now
  /\ baseline \in [has : BOOLEAN, at : Nat, previous : 0..MaxLevel]
  /\ baseline.has => sound.was /\ sound.last = baseline.at
  /\ Usable(reading) => reading.power \in 0..MaxLevel
  /\ meter.energy \in Nat /\ GapsAddNoEnergy

(* A trapezoid is at most the rectangle of the largest power. *)
LEMMA Trapezoid ==
  ASSUME NEW a \in 0..MaxLevel, NEW b \in 0..MaxLevel, NEW d \in Nat,
         NEW time \in Nat, NEW energy \in Nat, energy <= 2 * MaxLevel * time
  PROVE  /\ energy + (a + b) * d \in Nat
         /\ energy + (a + b) * d <= 2 * MaxLevel * (time + d)
<1> USE PowerMeterAssumption
<1>1. PICK rest \in Nat : 2 * MaxLevel = (a + b) + rest
  <2>1. 2 * MaxLevel - (a + b) \in Nat
    OBVIOUS
  <2> QED  BY <2>1
<1>2. rest * d \in Nat /\ (a + b) * d \in Nat
  OBVIOUS
<1>3. (2 * MaxLevel) * d = (a + b) * d + rest * d
  BY <1>1
<1>4. 2 * MaxLevel * (time + d) = 2 * MaxLevel * time + (2 * MaxLevel) * d
  OBVIOUS
<1>5. 2 * MaxLevel * time \in Nat
  OBVIOUS
<1> QED  BY <1>2, <1>3, <1>4, <1>5

(* More sound time allows more energy. *)
LEMMA MoreTime ==
  ASSUME NEW time \in Nat, NEW d \in Nat, NEW energy \in Nat, energy <= 2 * MaxLevel * time
  PROVE  energy <= 2 * MaxLevel * (time + d)
<1>1. 0 \in 0..MaxLevel
  BY PowerMeterAssumption
<1>2. energy + (0 + 0) * d <= 2 * MaxLevel * (time + d)
  BY <1>1, Trapezoid
<1>3. (0 + 0) * d = 0
  OBVIOUS
<1> QED  BY <1>2, <1>3

(* The sensors give a power only within the limits.                           *)
LEMMA SensorReadsKeeps ==
  ASSUME MeterInv, SensorReads
  PROVE  Usable(reading)' => reading'.power \in 0..MaxLevel
<1>1. CASE UNCHANGED reading
  BY <1>1 DEF MeterInv, Usable
<1>2. CASE reading' \in CompositeReadings
  BY <1>2 DEF CompositeReadings, NoReading, Usable
<1>3. CASE reading' \in Ina3221Readings
  BY <1>3 DEF Ina3221Readings, NoReading, Usable
<1> QED  BY <1>1, <1>2, <1>3 DEF SensorReads

(* An evaluation adds the time since a sound one, or nothing. *)
LEMMA EvaluateKeeps ==
  ASSUME MeterInv, NEW t \in Nat, now <= t, now' = t,
         Usable(reading)' => reading'.power \in 0..MaxLevel,
         EvaluateEnergy(t, reading')
  PROVE  MeterInv'
<1>1. PICK d \in Nat : t - sound.last = d
  BY DEF MeterInv
<1>2. CASE Usable(reading')
  <2>1. /\ meter'.energy = IF baseline.has
                           THEN meter.energy + (baseline.previous + reading'.power) * (t - baseline.at)
                           ELSE meter.energy
        /\ baseline' = [has |-> TRUE, at |-> t, previous |-> reading'.power]
        /\ sound' = [time |-> IF sound.was THEN sound.time + (t - sound.last) ELSE sound.time,
                     last |-> t, was |-> TRUE]
    BY <1>2 DEF EvaluateEnergy, Integrate
  <2>2. reading'.power \in 0..MaxLevel
    BY <1>2 DEF Usable
  <2>3. sound'.time \in Nat /\ meter'.energy \in Nat /\ meter'.energy <= 2 * MaxLevel * sound'.time
    <3>1. CASE baseline.has
      <4>1. /\ meter'.energy = meter.energy + (baseline.previous + reading'.power) * d
            /\ sound'.time = sound.time + d
        BY <1>1, <2>1, <3>1 DEF MeterInv
      <4> QED  BY <2>2, <4>1, Trapezoid DEF MeterInv, GapsAddNoEnergy
    <3>2. CASE ~baseline.has
      <4>1. meter'.energy = meter.energy /\ (sound'.time = sound.time \/ sound'.time = sound.time + d)
        BY <1>1, <2>1, <3>2
      <4> QED  BY <4>1, MoreTime DEF MeterInv, GapsAddNoEnergy
    <3> QED  BY <3>1, <3>2
  <2> QED  BY <2>1, <2>2, <2>3 DEF MeterInv, GapsAddNoEnergy, Usable
<1>3. CASE ~Usable(reading')
  <2>1. /\ meter'.energy = meter.energy /\ baseline' = NoBaseline
        /\ sound' = [time |-> sound.time, last |-> t, was |-> FALSE]
    <3>1. /\ meter' = [meter EXCEPT !.power = Absent, !.status = reading'.status]
          /\ baseline' = NoBaseline
      BY <1>3 DEF EvaluateEnergy, Invalidate
    <3>2. sound' = [time |-> sound.time, last |-> t, was |-> FALSE]
      <4>1. sound' = [time |-> sound.time, last |-> t, was |-> Usable(reading')]
        BY <1>3 DEF EvaluateEnergy
      <4>2. Usable(reading') = FALSE
        BY <1>3 DEF Usable
      <4> QED  BY <4>1, <4>2
    <3>3. meter'.energy = meter.energy
      BY <3>1
    <3> QED  BY <3>1, <3>2, <3>3
  <2>2. baseline' \in [has : BOOLEAN, at : Nat, previous : 0..MaxLevel] /\ ~baseline'.has
    BY <2>1, PowerMeterAssumption DEF NoBaseline
  <2> QED  BY <1>3, <2>1, <2>2 DEF MeterInv, GapsAddNoEnergy, Usable
<1> QED  BY <1>2, <1>3

(* Every step keeps the invariant. *)
LEMMA MeterStep == MeterInv /\ [MeterNext]_meterVars => MeterInv'
<1> SUFFICES ASSUME MeterInv, [MeterNext]_meterVars PROVE MeterInv'
  OBVIOUS
<1>1. CASE MeterHandle
  <2>1. now' \in Nat /\ now <= now'
    BY <1>1, PowerMeterAssumption DEF MeterHandle, MeterInv
  <2>2. Usable(reading)' => reading'.power \in 0..MaxLevel
    BY <1>1, SensorReadsKeeps DEF MeterHandle
  <2>3. CASE EvaluateEnergy(now', reading')
    BY <2>1, <2>2, <2>3, EvaluateKeeps
  <2>4. CASE UNCHANGED <<meter, baseline, meterShown, sound>>
    BY <2>1, <2>2, <2>4 DEF MeterInv, GapsAddNoEnergy
  <2> QED  BY <1>1, <2>3, <2>4 DEF MeterHandle
<1>2. CASE ResetEnergy
  <2>1. /\ meter'.energy = 0
        /\ sound' = [sound EXCEPT !.time = 0, !.was = FALSE]
        /\ baseline' = NoBaseline
        /\ UNCHANGED <<reading, now>>
    BY <1>2 DEF ResetEnergy
  <2>2. baseline' \in [has : BOOLEAN, at : Nat, previous : 0..MaxLevel] /\ ~baseline'.has
    BY <2>1, PowerMeterAssumption DEF NoBaseline
  <2>3. sound' \in [time : Nat, last : Nat, was : BOOLEAN] /\ sound'.last <= now /\ sound'.time = 0
    BY <2>1 DEF MeterInv
  <2> QED  BY <2>1, <2>2, <2>3, PowerMeterAssumption DEF MeterInv, GapsAddNoEnergy, Usable
<1>3. CASE UNCHANGED meterVars
  BY <1>3 DEF meterVars, MeterInv, GapsAddNoEnergy, Usable
<1> QED  BY <1>1, <1>2, <1>3 DEF MeterNext

(* A stretch without readings adds no energy, however long it is and whatever *)
(* the readings around it are.                                                *)
THEOREM GapsAreNotCounted == MeterSpec => []GapsAddNoEnergy
<1>1. MeterInit => MeterInv
  BY PowerMeterAssumption
     DEF MeterInit, MeterInv, NoBaseline, NoReading, GapsAddNoEnergy, Usable
<1>2. MeterInv => GapsAddNoEnergy
  BY DEF MeterInv
<1> QED  BY <1>1, <1>2, MeterStep, PTL DEF MeterSpec

-----------------------------------------------------------------------------
(* Calibration *)

Allowing == {"IN_RANGE", "NOT_MONITORED"}
Phases == {"WARMUP", "RECALIBRATION_SETTLE", "CALIBRATING", "MEASURING", "ZERO_FAILED"}

CalibrationTypes ==
  /\ phase \in Phases
  /\ measured \in Measurements /\ before \in Measurements
  /\ samples.from \subseteq Phases \X Supplies
  /\ initialCal \in BOOLEAN

\* A calibration goes on only under a supply that allows it, and collects from
\* an empty accumulator.
CalibrationClean ==
  /\ phase \in {"CALIBRATING", "RECALIBRATION_SETTLE"} => measured.supply \in Allowing
  /\ phase = "RECALIBRATION_SETTLE" => ~initialCal
  /\ phase = "CALIBRATING" => samples.from \subseteq {"CALIBRATING"} \X Allowing

\* What a stopped calibration brings back had a zero, which is still there.
BeforeIsBacked ==
  Calibrating /\ ~initialCal /\ before.amps = "some" =>
    zero # {} /\ before.status # "ZERO_CALIBRATION_FAILED"
MeasuredSome == measured.amps = "some" => measured.status # "ZERO_CALIBRATION_FAILED"

CalibrationInv ==
  /\ CalibrationTypes /\ CalibrationClean /\ BeforeIsBacked /\ MeasuredSome
  /\ ZeroIsClean /\ AmpsAreBacked

(* A sample of the supply leaves the rest of the measurement, or takes its    *)
(* amperes.                                                                   *)
LEMMA SupplySample ==
  ASSUME CalibrationInv, NEW m \in SampledSupply
  PROVE  /\ m \in Measurements /\ m.supply \in {"IN_RANGE", "SUPPLY_OUT_OF_RANGE"}
         /\ m.status = measured.status
         /\ m.amps = "some" => measured.amps = "some" /\ m.supply = "IN_RANGE"
BY DEF CalibrationInv, CalibrationTypes, SampledSupply, Measurements, Supplies

(* Watching the supply keeps the invariant outside calibrations. *)
LEMMA WatchStep ==
  ASSUME CalibrationInv, WatchSupply, ~Calibrating
  PROVE  CalibrationInv'
BY SupplySample
   DEF CalibrationInv, CalibrationTypes, CalibrationClean, BeforeIsBacked, MeasuredSome,
       ZeroIsClean, AmpsAreBacked, WatchSupply, Calibrating, SupplyAllows

(* A stopped calibration brings back amperes only under a supply that allows. *)
LEMMA AbortKeeps ==
  ASSUME CalibrationInv, Calibrating, NEW m \in SampledSupply, ~SupplyAllows(m.supply), Abort(m)
  PROVE  CalibrationInv'
<1> USE DEF CalibrationInv, CalibrationTypes, CalibrationClean, BeforeIsBacked, MeasuredSome,
            ZeroIsClean, AmpsAreBacked
<1>1. m.supply \in Supplies
  BY SupplySample DEF Supplies
<1>2. samples' = NoSamples /\ UNCHANGED <<initialCal, before, zero>>
  BY DEF Abort
<1>3. samples'.from = {}
  BY <1>2 DEF NoSamples
<1>4. CASE initialCal
  <2>1. phase' = "WARMUP" /\ measured' = NotReady(m.supply)
    BY <1>4 DEF Abort
  <2>2. measured' \in Measurements /\ measured'.amps = "none"
    BY <1>1, <2>1 DEF NotReady, Measurements
  <2> QED  BY <1>2, <1>3, <2>1, <2>2 DEF Calibrating, Phases
<1>5. CASE ~initialCal
  <2>1. measured' = Restored(m) /\ phase' \in {"ZERO_FAILED", "MEASURING"}
    BY <1>5 DEF Abort
  <2>2. measured' \in Measurements /\ measured'.amps # "some"
    BY <1>1, <2>1 DEF Restored, Measurements
  <2> QED  BY <1>2, <1>3, <2>1, <2>2 DEF Calibrating, Phases
<1> QED  BY <1>4, <1>5

(* A sample of the supply during a calibration. *)
LEMMA CheckStep ==
  ASSUME CalibrationInv, CheckSupply, Calibrating
  PROVE  CalibrationInv'
<1>1. PICK m \in SampledSupply :
        IF SupplyAllows(m.supply)
        THEN /\ measured' = m
             /\ UNCHANGED <<phase, recalRequested, initialCal, before, zero, samples>>
        ELSE Abort(m)
  BY DEF CheckSupply
<1>2. CASE SupplyAllows(m.supply)
  <2>1. measured' = m /\ UNCHANGED <<phase, initialCal, before, zero, samples>>
    BY <1>1, <1>2
  <2>2. /\ m \in Measurements /\ m.supply \in Allowing /\ m.status = measured.status
        /\ m.amps = "some" => measured.amps = "some"
    BY <1>2, SupplySample DEF SupplyAllows, Allowing
  <2> QED  BY <2>1, <2>2
           DEF CalibrationInv, CalibrationTypes, CalibrationClean, BeforeIsBacked, MeasuredSome,
               ZeroIsClean, AmpsAreBacked, Calibrating, SupplyAllows, Allowing
<1>3. CASE ~SupplyAllows(m.supply)
  BY <1>1, <1>3, AbortKeeps
<1> QED  BY <1>2, <1>3

(* A calibration begins with no samples. *)
LEMMA BeginKeeps ==
  ASSUME CalibrationInv, NEW initial \in BOOLEAN, BeginCalibration(initial),
         SupplyAllows(measured.supply), UNCHANGED <<before, zero>>,
         ~initial => Calibrating /\ ~initialCal
  PROVE  CalibrationInv'
<1>1. /\ measured' \in Measurements /\ measured'.amps = "none"
      /\ measured'.supply = measured.supply
  BY DEF BeginCalibration, CalibrationInv, CalibrationTypes, Measurements
<1>2. samples'.from = {} /\ phase' = "CALIBRATING" /\ initialCal' = initial
  BY DEF BeginCalibration, NoSamples
<1> QED  BY <1>1, <1>2
         DEF CalibrationInv, CalibrationTypes, CalibrationClean, BeforeIsBacked, MeasuredSome,
             ZeroIsClean, AmpsAreBacked, Calibrating, SupplyAllows, Allowing, Phases

(* Sample by sample, and the zero at the end. *)
LEMMA CalibrateStep ==
  ASSUME CalibrationInv, phase = "CALIBRATING", Calibrate
  PROVE  CalibrationInv'
<1>1. PICK saturated \in BOOLEAN :
        /\ IF Grown(saturated).count >= ZeroSamples THEN CompleteCalibration(Grown(saturated))
           ELSE samples' = Grown(saturated) /\ UNCHANGED <<zero, measured, phase>>
        /\ UNCHANGED <<recalRequested, initialCal, before>>
  BY DEF Calibrate
<1> DEFINE grown == Grown(saturated)
<1>2. /\ grown.from \subseteq {"CALIBRATING"} \X Allowing /\ grown.from # {}
      /\ grown.from \subseteq Phases \X Supplies
  <2>1. grown.from = samples.from \cup {<<"CALIBRATING", measured.supply>>}
    BY DEF Grown
  <2>2. measured.supply \in Allowing /\ samples.from \subseteq {"CALIBRATING"} \X Allowing
    BY DEF CalibrationInv, CalibrationClean
  <2>3. <<"CALIBRATING", measured.supply>> \in {"CALIBRATING"} \X Allowing
    BY <2>2
  <2>4. {"CALIBRATING"} \X Allowing \subseteq Phases \X Supplies
    BY DEF Phases, Supplies, Allowing
  <2> HIDE DEF grown
  <2>5. grown.from \subseteq {"CALIBRATING"} \X Allowing /\ grown.from # {}
    BY <2>1, <2>2, <2>3
  <2> QED  BY <2>4, <2>5
<1> HIDE DEF grown
<1>3. CASE samples' = grown /\ UNCHANGED <<zero, measured, phase>>
  BY <1>1, <1>2, <1>3
     DEF CalibrationInv, CalibrationTypes, CalibrationClean, BeforeIsBacked, MeasuredSome,
         ZeroIsClean, AmpsAreBacked, Calibrating
<1>4. CASE CompleteCalibration(grown)
  <2>1. samples'.from = {} /\ phase' \in {"MEASURING", "ZERO_FAILED"}
    BY <1>4 DEF CompleteCalibration, NoSamples
  <2>2. CASE /\ zero' = grown.from /\ phase' = "MEASURING"
             /\ measured' = [measured EXCEPT !.status = "ESTIMATED", !.amps = "some"]
    <3>1. /\ measured' \in Measurements /\ measured'.status = "ESTIMATED"
          /\ measured'.supply = measured.supply
      BY <2>2 DEF CalibrationInv, CalibrationTypes, Measurements
    <3>2. measured.supply \in Allowing
      BY DEF CalibrationInv, CalibrationClean
    <3>3. ZeroIsClean' /\ AmpsAreBacked'
      BY <1>2, <2>2, <3>1, <3>2 DEF ZeroIsClean, AmpsAreBacked, SupplyAllows, Allowing
    <3> QED  BY <1>1, <2>1, <2>2, <3>1, <3>3
             DEF CalibrationInv, CalibrationTypes, CalibrationClean, BeforeIsBacked,
                 MeasuredSome, Calibrating, Phases
  <2>3. CASE /\ zero' = {} /\ phase' = "ZERO_FAILED"
             /\ measured' = [measured EXCEPT !.status = "ZERO_CALIBRATION_FAILED", !.amps = "none"]
    <3>1. measured' \in Measurements /\ measured'.amps = "none"
      BY <2>3 DEF CalibrationInv, CalibrationTypes, Measurements
    <3> QED  BY <1>1, <2>1, <2>3, <3>1
             DEF CalibrationInv, CalibrationTypes, CalibrationClean, BeforeIsBacked,
                 MeasuredSome, ZeroIsClean, AmpsAreBacked, Calibrating, Phases
  <2> QED  BY <1>4, <2>2, <2>3 DEF CompleteCalibration
<1> QED  BY <1>1, <1>3, <1>4 DEF grown

(* A reading ends with amperes only when a zero and the supply back them. *)
LEMMA MeasureStep ==
  ASSUME CalibrationInv, phase = "MEASURING", Measure
  PROVE  CalibrationInv'
<1>1. PICK saturated \in BOOLEAN :
        /\ IF Grown(saturated).count >= ReadingSamples
           THEN samples' = NoSamples /\ measured' \in Qualified(Grown(saturated))
           ELSE samples' = Grown(saturated) /\ UNCHANGED measured
        /\ UNCHANGED <<phase, recalRequested, initialCal, before, zero>>
  BY DEF Measure
<1>2. samples'.from \subseteq Phases \X Supplies
  BY <1>1 DEF Grown, NoSamples, CalibrationInv, CalibrationTypes, Measurements
<1>3. CASE UNCHANGED measured
  BY <1>1, <1>2, <1>3
     DEF CalibrationInv, CalibrationTypes, CalibrationClean, BeforeIsBacked, MeasuredSome,
         ZeroIsClean, AmpsAreBacked, Calibrating
<1>4. CASE measured' \in Qualified(Grown(saturated))
  <2>1. /\ measured' \in Measurements
        /\ measured'.amps = "some" =>
              /\ zero # {} /\ SupplyAllows(measured'.supply)
              /\ measured'.status \in {"ESTIMATED", "VALID"}
    BY <1>4 DEF Qualified, CalibrationInv, CalibrationTypes, Measurements
  <2> QED  BY <1>1, <1>2, <2>1
           DEF CalibrationInv, CalibrationTypes, CalibrationClean, BeforeIsBacked, MeasuredSome,
               ZeroIsClean, AmpsAreBacked, Calibrating
<1> QED  BY <1>1, <1>3, <1>4

(* A request that is taken keeps the measurement there is. *)
LEMMA RequestStep ==
  ASSUME CalibrationInv, TakeRequest
  PROVE  CalibrationInv'
<1>1. ~Calibrating
  BY DEF TakeRequest
<1>2. CASE WatchSupply
  BY <1>1, <1>2, WatchStep
<1>3. CASE UNCHANGED <<before, initialCal, measured, phase, zero, samples>>
  BY <1>3
     DEF CalibrationInv, CalibrationTypes, CalibrationClean, BeforeIsBacked, MeasuredSome,
         ZeroIsClean, AmpsAreBacked, Calibrating
<1>4. CASE /\ SupplyAllows(measured.supply)
           /\ before' = measured /\ initialCal' = FALSE
           /\ measured' = [measured EXCEPT !.amps = "none", !.status = "CALIBRATING"]
           /\ phase' = "RECALIBRATION_SETTLE"
           /\ UNCHANGED <<zero, samples>>
  <2>1. /\ measured' \in Measurements /\ measured'.amps = "none"
        /\ measured'.supply = measured.supply
    BY <1>4 DEF CalibrationInv, CalibrationTypes, Measurements
  <2> QED  BY <1>4, <2>1
           DEF CalibrationInv, CalibrationTypes, CalibrationClean, BeforeIsBacked, MeasuredSome,
               ZeroIsClean, AmpsAreBacked, SupplyAllows, Allowing, Phases
<1> QED  BY <1>2, <1>3, <1>4 DEF TakeRequest

(* Every turn of handle() keeps the invariant. *)
LEMMA SensorStep ==
  ASSUME CalibrationInv, SensorHandle
  PROVE  CalibrationInv'
<1>1. CASE TakeRequest
  BY <1>1, RequestStep
<1>2. CASE Warmup
  <2>1. CASE WatchSupply
    BY <1>2, <2>1, WatchStep DEF Warmup, Calibrating
  <2>2. CASE SupplyAllows(measured.supply) /\ BeginCalibration(TRUE) /\ UNCHANGED <<before, zero>>
    BY <2>2, BeginKeeps
  <2> QED  BY <1>2, <2>1, <2>2 DEF Warmup
<1>3. CASE phase = "CALIBRATING" /\ (CheckSupply \/ Calibrate)
  BY <1>3, CheckStep, CalibrateStep DEF Calibrating
<1>4. CASE phase = "ZERO_FAILED" /\ WatchSupply
  BY <1>4, WatchStep DEF Calibrating
<1>5. CASE phase = "MEASURING" /\ (WatchSupply \/ Measure)
  BY <1>5, WatchStep, MeasureStep DEF Calibrating
<1>6. CASE UNCHANGED <<phase, recalRequested, initialCal, measured, before, zero, samples>>
  BY <1>6
     DEF CalibrationInv, CalibrationTypes, CalibrationClean, BeforeIsBacked, MeasuredSome,
         ZeroIsClean, AmpsAreBacked, Calibrating
<1>7. CASE Settle
  <2>1. CASE CheckSupply
    BY <1>7, <2>1, CheckStep DEF Settle, Calibrating
  <2>2. CASE BeginCalibration(FALSE) /\ UNCHANGED <<before, zero>>
    <3>1. SupplyAllows(measured.supply) /\ Calibrating /\ ~initialCal
      BY <1>7 DEF Settle, CalibrationInv, CalibrationClean, SupplyAllows, Allowing, Calibrating
    <3> QED  BY <2>2, <3>1, BeginKeeps
  <2> QED  BY <1>7, <2>1, <2>2 DEF Settle
<1> QED  BY <1>1, <1>2, <1>3, <1>4, <1>5, <1>6, <1>7 DEF SensorHandle

(* The sensor starts without a zero and without amperes. *)
LEMMA CalibrationStart == CurrentInit => CalibrationInv
BY DEF CurrentInit, NotReady, NoSamples, CalibrationInv, CalibrationTypes, CalibrationClean,
       BeforeIsBacked, MeasuredSome, ZeroIsClean, AmpsAreBacked, Measurements, Supplies,
       Phases, Calibrating

(* Every step keeps the invariant. *)
LEMMA CalibrationStep == CalibrationInv /\ [CurrentNext]_currentVars => CalibrationInv'
<1> SUFFICES ASSUME CalibrationInv, [CurrentNext]_currentVars PROVE CalibrationInv'
  OBVIOUS
<1>1. CASE CurrentHandle
  BY <1>1, SensorStep DEF CurrentHandle
<1>2. CASE RequestZeroCalibration \/ UNCHANGED currentVars
  BY <1>2
     DEF RequestZeroCalibration, currentVars, CalibrationInv, CalibrationTypes,
         CalibrationClean, BeforeIsBacked, MeasuredSome, ZeroIsClean, AmpsAreBacked, Calibrating
<1> QED  BY <1>1, <1>2 DEF CurrentNext

(* Amperes are backed and the zero is clean, whatever the supply does in a    *)
(* calibration and however many samples it takes.                             *)
THEOREM CalibrationIsSound == CurrentSpec => []CurrentSound
<1>1. CalibrationInv => CurrentSound
  BY DEF CalibrationInv, CurrentSound
<1> QED  BY <1>1, CalibrationStart, CalibrationStep, PTL DEF CurrentSpec

-----------------------------------------------------------------------------
(* The types of the registry *)

SetupKnown == setupStarted \in BOOLEAN

(* The registry's arrays and sets hold what they are for. *)
THEOREM RegistryTypes == RegistrySpec => []RegistryTypeOK
<1>1. Sound(registry) /\ SetupKnown => RegistryTypeOK
  <2> SUFFICES ASSUME Sound(registry), SetupKnown PROVE RegistryTypeOK
    OBVIOUS
  <2>1. registry \in [open : BOOLEAN, caps : Seq(NamedBoxes), adapters : Seq(Boxes),
                      offset : 0..ArenaBytes, pins : SUBSET Pins, ids : SUBSET CapNames]
    BY RegistryAssumption DEF Sound, Shaped, InLimits
  <2> QED  BY <2>1 DEF SetupKnown, RegistryTypeOK, Sound, InLimits, NamedBoxes, Boxes
<1>2. RegistryInit => SetupKnown
  BY DEF RegistryInit, SetupKnown
<1>3. SetupKnown /\ [RegistryNext]_registryVars => SetupKnown'
  BY DEF SetupKnown, RegistryNext, AddCapability, AddMeasuring, StartSetup, registryVars
<1> QED  BY <1>1, <1>2, <1>3, RegistryInvariance, PTL DEF RegistrySpec

-----------------------------------------------------------------------------
(* The types of the gate *)

(* The loop derives a state of the door. *)
LEMMA EvaluateTyped == GarageTypeOK => Evaluate \in States
BY DEF GarageTypeOK, Evaluate, Plain, States, Travels

(* An edit of the state begins with a state. *)
LEMMA EditingTyped ==
  ASSUME GarageTypeOK, NEW op \in {"lock", "stop", "unlock"}
  PROVE  Editing(op) \in [op : {"none", "lock", "stop", "unlock"},
                          at : {"idle", "write", "publish", "pause"},
                          read : States, again : BOOLEAN]
BY DEF GarageTypeOK, Editing

(* Every step of the loop and of the commands keeps the types. *)
LEMMA GarageStep == GarageTypeOK /\ [GarageNext]_garageVars => GarageTypeOK'
<1> SUFFICES ASSUME GarageTypeOK, [GarageNext]_garageVars PROVE GarageTypeOK'
  OBVIOUS
<1>1. ASSUME NEW settled, HandleSensorState(settled) PROVE GarageTypeOK'
  <2>1. /\ raw' \in [Endpoints -> BOOLEAN] /\ stable' \in [Endpoints -> BOOLEAN]
    BY <1>1 DEF HandleSensorState, GarageTypeOK
  <2>2. current' \in States
    BY <1>1, EvaluateTyped DEF HandleSensorState
  <2>3. direction' \in {"none", "open", "close"}
    BY <1>1 DEF HandleSensorState, GarageTypeOK
  <2> QED  BY <1>1, <2>1, <2>2, <2>3 DEF HandleSensorState, GarageTypeOK
<1>2. CASE PublishChange \/ RememberState
  BY <1>2 DEF PublishChange, RememberState, GarageTypeOK, sensing
<1>3. CASE Command
  <2>1. commandsLeft' \in 0..MaxGarageCommands
    BY <1>3, GarageAssumption DEF Command, GarageTypeOK
  <2>2. /\ direction' \in {"none", "open", "close"}
        /\ command' \in [op : {"none", "lock", "stop", "unlock"},
                         at : {"idle", "write", "publish", "pause"},
                         read : States, again : BOOLEAN]
    BY <1>3, EditingTyped DEF Command, GarageTypeOK
  <2> QED  BY <1>3, <2>1, <2>2 DEF Command, GarageTypeOK, sensing
<1>4. CASE WriteState
  <2>1. command.read \in States /\ NoCommand.read \in States
    BY DEF GarageTypeOK, NoCommand, Plain, States, Travels
  <2>2. /\ [command.read EXCEPT !.locks = AtMost(@ + 1, 2)] \in States
        /\ Plain(command.read.base) \in States
    BY <2>1 DEF States, AtMost, Plain
  <2>3. /\ current' \in States
        /\ command' = [command EXCEPT !.at = "publish", !.read = NoCommand.read]
    BY <1>4, <2>2 DEF WriteState
  <2> QED  BY <1>4, <2>1, <2>3 DEF WriteState, GarageTypeOK, sensing
<1>5. CASE PublishState
  <2>1. NoCommand \in [op : {"none", "lock", "stop", "unlock"},
                       at : {"idle", "write", "publish", "pause"},
                       read : States, again : BOOLEAN]
    BY DEF NoCommand, Plain, States, Travels
  <2> QED  BY <1>5, <2>1 DEF PublishState, GarageTypeOK, sensing
<1>6. CASE SecondStop
  BY <1>6, EditingTyped DEF SecondStop, GarageTypeOK, sensing
<1>7. CASE DoorMoves
  BY <1>7 DEF DoorMoves, GarageTypeOK, sensing, Endpoints
<1>8. CASE UNCHANGED garageVars
  BY <1>8 DEF garageVars, GarageTypeOK, sensing
<1> QED  BY <1>1, <1>2, <1>3, <1>4, <1>5, <1>6, <1>7, <1>8 DEF GarageNext, Handle, Execute

(* The setup leaves every variable in its type. *)
LEMMA GarageStarts == GarageInit => GarageTypeOK
<1> SUFFICES ASSUME GarageInit PROVE GarageTypeOK
  OBVIOUS
<1>1. Plain("unknown") \in States
  BY DEF Plain, States, Travels
<1>2. NoCommand \in [op : {"none", "lock", "stop", "unlock"},
                     at : {"idle", "write", "publish", "pause"},
                     read : States, again : BOOLEAN]
  BY <1>1 DEF NoCommand
<1>3. sensors \subseteq Endpoints /\ door \in {"moving"} \cup Endpoints
  BY DEF GarageInit, Endpoints
<1>4. commandsLeft \in 0..MaxGarageCommands
  BY GarageAssumption DEF GarageInit
<1> QED  BY <1>1, <1>2, <1>3, <1>4 DEF GarageInit, GarageTypeOK

(* However commands fall between the steps of the loop, the state string is   *)
(* one of those there are and the command one of those that can be running.   *)
THEOREM GarageTypes == GarageSpec => []GarageTypeOK
BY GarageStarts, GarageStep, PTL DEF GarageSpec

-----------------------------------------------------------------------------
(* The types of the button *)

\* Nothing is later than the clock, which stays inside its bound.
ButtonTimes == ButtonTypeOK /\ lastRead.at <= ticks /\ releasedAt <= ticks

(* A time in the past is within the bound of the present. *)
LEMMA Elapsed ==
  ASSUME NEW t \in 0..MaxTicks, NEW r \in 0..MaxTicks, r <= t
  PROVE  t - r \in 0..MaxTicks
BY ResetButtonAssumption

(* What is cleared is a record of how. *)
LEMMA ClearingTyped ==
  ASSUME NEW held \in 0..MaxTicks
  PROVE  [done |-> TRUE, held |-> held] \in [done : BOOLEAN, held : 0..MaxTicks]
OBVIOUS

(* A turn reads the pin now or keeps what it had read. *)
LEMMA ButtonHandleTimes ==
  ASSUME ButtonTimes, ButtonHandle
  PROVE  ButtonTimes'
<1> USE ResetButtonAssumption
<1>1. PICK wait \in 0..MaxWait : ticks + wait <= MaxTicks /\ ticks' = ticks + wait
  BY DEF ButtonHandle
<1>2. ticks' \in 0..MaxTicks /\ ticks <= ticks'
  BY <1>1 DEF ButtonTimes, ButtonTypeOK
<1>3. PICK first \in {"pressed", "released"}, second \in {"pressed", "released"},
           third \in {"pressed", "released"} :
        /\ lastRead' = ReadPin(first, second, ticks')
        /\ releasedAt' = IF "released" \in {first, second} THEN ticks' ELSE releasedAt
        /\ wasActive' = (third = "pressed")
        /\ LET due == third = "pressed" /\ ~triggered /\ ticks' - lastRead'.at > Hold IN
             /\ triggered' = (third = "pressed" /\ (triggered \/ due))
             /\ clearing' = IF due THEN [done |-> TRUE, held |-> ticks' - releasedAt']
                            ELSE clearing
  BY DEF ButtonHandle
<1>4. /\ lastRead' \in [state : {"unknown", "pressed", "released"}, at : 0..MaxTicks]
      /\ lastRead'.at <= ticks'
  <2>1. CASE first = lastRead.state
    BY <1>2, <1>3, <2>1 DEF ReadPin, ButtonTimes, ButtonTypeOK
  <2>2. CASE first # lastRead.state
    BY <1>2, <1>3, <2>2 DEF ReadPin
  <2> QED  BY <2>1, <2>2
<1>5. releasedAt' \in 0..MaxTicks /\ releasedAt' <= ticks'
  BY <1>2, <1>3 DEF ButtonTimes, ButtonTypeOK
<1>6. clearing' \in [done : BOOLEAN, held : 0..MaxTicks]
  <2>1. ticks' - releasedAt' \in 0..MaxTicks
    BY <1>2, <1>5, Elapsed
  <2>2. \/ clearing' = clearing
        \/ clearing' = [done |-> TRUE, held |-> ticks' - releasedAt']
    BY <1>3
  <2>3. clearing \in [done : BOOLEAN, held : 0..MaxTicks]
    BY DEF ButtonTimes, ButtonTypeOK
  <2> QED  BY <2>1, <2>2, <2>3, ClearingTyped
<1>7. wasActive' \in BOOLEAN /\ triggered' \in BOOLEAN
  <2>1. wasActive' \in BOOLEAN
    BY <1>3
  <2>2. triggered' \in BOOLEAN
    BY <1>3
  <2> QED  BY <2>1, <2>2
<1>8. configured' \in BOOLEAN
  BY DEF ButtonHandle, ButtonTimes, ButtonTypeOK
<1> QED  BY <1>2, <1>4, <1>5, <1>6, <1>7, <1>8 DEF ButtonTimes, ButtonTypeOK

(* Every step keeps the types. *)
LEMMA ButtonTimesStep == ButtonTimes /\ [ButtonNext]_buttonVars => ButtonTimes'
<1> SUFFICES ASSUME ButtonTimes, [ButtonNext]_buttonVars PROVE ButtonTimes'
  OBVIOUS
<1>1. Unread \in [state : {"unknown", "pressed", "released"}, at : 0..MaxTicks] /\ Unread.at = 0
  BY ResetButtonAssumption DEF Unread
<1>2. NotClearing \in [done : BOOLEAN, held : 0..MaxTicks]
  BY ResetButtonAssumption DEF NotClearing
<1>3. CASE ConfigureButton
  <2>1. /\ configured' = TRUE /\ wasActive' = FALSE /\ triggered' = FALSE
        /\ lastRead' = Unread /\ releasedAt' = ticks /\ ticks' = ticks /\ clearing' = clearing
    BY <1>3 DEF ConfigureButton, ReleaseButton
  <2>2. lastRead'.at <= ticks'
    BY <1>1, <2>1, ResetButtonAssumption DEF ButtonTimes, ButtonTypeOK
  <2>3. releasedAt' \in 0..MaxTicks /\ releasedAt' <= ticks'
    BY <2>1, ResetButtonAssumption DEF ButtonTimes, ButtonTypeOK
  <2> QED  BY <1>1, <2>1, <2>2, <2>3 DEF ButtonTimes, ButtonTypeOK
<1>4. CASE RestartSafely
  <2>1. /\ configured' = FALSE /\ wasActive' = FALSE /\ triggered' = FALSE
        /\ lastRead' = Unread /\ releasedAt' = ticks /\ ticks' = ticks /\ clearing' = NotClearing
    BY <1>4 DEF RestartSafely
  <2>2. lastRead'.at <= ticks'
    BY <1>1, <2>1, ResetButtonAssumption DEF ButtonTimes, ButtonTypeOK
  <2>3. releasedAt' \in 0..MaxTicks /\ releasedAt' <= ticks'
    BY <2>1, ResetButtonAssumption DEF ButtonTimes, ButtonTypeOK
  <2> QED  BY <1>1, <1>2, <2>1, <2>2, <2>3 DEF ButtonTimes, ButtonTypeOK
<1>5. CASE UNCHANGED buttonVars
  BY <1>5 DEF buttonVars, ButtonTimes, ButtonTypeOK
<1> QED  BY <1>3, <1>4, <1>5, ButtonHandleTimes DEF ButtonNext

(* The button's variables start in their types. *)
LEMMA ButtonTimesStart == ButtonInit => ButtonTimes
<1> SUFFICES ASSUME ButtonInit PROVE ButtonTimes
  OBVIOUS
<1>1. /\ lastRead \in [state : {"unknown", "pressed", "released"}, at : 0..MaxTicks]
      /\ lastRead.at = 0 /\ ticks = 0 /\ releasedAt = 0 /\ 0 \in 0..MaxTicks /\ 0 <= 0
  BY ResetButtonAssumption DEF ButtonInit, Unread
<1>2. clearing \in [done : BOOLEAN, held : 0..MaxTicks]
  BY <1>1 DEF ButtonInit, NotClearing
<1>3. configured = FALSE /\ wasActive = FALSE /\ triggered = FALSE
  BY DEF ButtonInit
<1> QED  BY <1>1, <1>2, <1>3 DEF ButtonTimes, ButtonTypeOK

(* No time the controller remembers is in the future, so none it computes     *)
(* with is negative.                                                          *)
THEOREM ButtonTypes == ButtonSpec => []ButtonTypeOK
<1>1. ButtonTimes => ButtonTypeOK
  BY DEF ButtonTimes
<1> QED  BY <1>1, ButtonTimesStart, ButtonTimesStep, PTL DEF ButtonSpec

-----------------------------------------------------------------------------
(* The types of the meter *)

\* With sound time no longer than time itself.
MeterTimes ==
  /\ sensor \in PowerSensors
  /\ reading.power \in 0..Absent /\ meter.power \in 0..Absent
  /\ baseline.at <= now /\ now <= MaxTime
  /\ sound.time <= sound.last

MeterBounds == MeterInv /\ MeterTimes

(* What a sensor gives is a power or the lack of one. *)
LEMMA ReadingTyped ==
  ASSUME MeterTimes, SensorReads
  PROVE  reading'.power \in 0..Absent
<1> USE PowerMeterAssumption
<1>1. Absent \in 0..Absent /\ \A n \in 0..MaxLevel : n \in 0..Absent
  BY DEF Absent
<1>2. CASE reading' = reading
  BY <1>2 DEF MeterTimes
<1>3. CASE reading' \in CompositeReadings
  BY <1>1, <1>3 DEF CompositeReadings, NoReading
<1>4. CASE reading' \in Ina3221Readings
  BY <1>1, <1>4 DEF Ina3221Readings, NoReading
<1> QED  BY <1>2, <1>3, <1>4 DEF SensorReads

(* An evaluation counts at most the time since the last one. *)
LEMMA EvaluateTimes ==
  ASSUME MeterBounds, NEW t \in Nat, now <= t, t <= MaxTime, now' = t,
         reading'.power \in 0..Absent, EvaluateEnergy(t, reading'), sensor' = sensor
  PROVE  MeterTimes'
<1> USE PowerMeterAssumption
<1>1. sound' = [time |-> IF sound.was /\ Usable(reading') THEN sound.time + (t - sound.last)
                         ELSE sound.time,
                last |-> t, was |-> Usable(reading')]
  BY DEF EvaluateEnergy
<1>2. sound'.last = t /\ sound'.time \in {sound.time, sound.time + (t - sound.last)}
  BY <1>1
<1>3. /\ sound.time \in Nat /\ sound.last \in Nat /\ sound.last <= now /\ sound.time <= sound.last
      /\ now \in Nat
  BY DEF MeterBounds, MeterInv, MeterTimes
<1>4. sound'.time <= sound'.last
  BY <1>2, <1>3
<1>5. meter'.power \in 0..Absent /\ baseline'.at <= t
  <2>1. CASE Usable(reading')
    <3>1. meter'.power = reading'.power /\ baseline'.at = t
      BY <2>1 DEF EvaluateEnergy, Integrate
    <3> QED  BY <3>1
  <2>2. CASE ~Usable(reading')
    <3>1. /\ meter' = [meter EXCEPT !.power = Absent, !.status = reading'.status]
          /\ baseline' = NoBaseline
      BY <2>2 DEF EvaluateEnergy, Invalidate
    <3> QED  BY <3>1 DEF NoBaseline, Absent, MeterBounds, MeterTimes
  <2> QED  BY <2>1, <2>2
<1> QED  BY <1>4, <1>5 DEF MeterBounds, MeterTimes

(* Every step keeps the bounds. *)
LEMMA MeterBoundsStep == MeterBounds /\ [MeterNext]_meterVars => MeterBounds'
<1> SUFFICES ASSUME MeterBounds, [MeterNext]_meterVars PROVE MeterTimes'
  BY MeterStep DEF MeterBounds
<1> USE PowerMeterAssumption
<1>1. CASE MeterHandle
  <2>1. now' \in Nat /\ now <= now' /\ now' <= MaxTime /\ sensor' = sensor
    BY <1>1 DEF MeterHandle, MeterBounds, MeterInv
  <2>2. reading'.power \in 0..Absent
    BY <1>1, ReadingTyped DEF MeterHandle, MeterBounds
  <2>3. CASE EvaluateEnergy(now', reading')
    BY <2>1, <2>2, <2>3, EvaluateTimes
  <2>4. CASE UNCHANGED <<meter, baseline, sound>>
    <3>1. baseline.at \in Nat /\ baseline.at <= now'
      BY <2>1 DEF MeterBounds, MeterInv, MeterTimes
    <3> QED  BY <2>1, <2>2, <2>4, <3>1 DEF MeterBounds, MeterTimes
  <2> QED  BY <1>1, <2>3, <2>4 DEF MeterHandle
<1>2. CASE ResetEnergy
  <2>1. /\ meter'.power = meter.power /\ baseline'.at = 0
        /\ sound'.time = 0 /\ sound'.last = sound.last
        /\ UNCHANGED <<sensor, reading, now>>
    BY <1>2 DEF ResetEnergy, NoBaseline, MeterBounds, MeterInv
  <2>2. now \in Nat /\ sound.last \in Nat
    BY DEF MeterBounds, MeterInv
  <2> QED  BY <2>1, <2>2 DEF MeterBounds, MeterTimes
<1>3. CASE UNCHANGED meterVars
  BY <1>3 DEF meterVars, MeterBounds, MeterTimes
<1> QED  BY <1>1, <1>2, <1>3 DEF MeterNext

(* The meter starts at zero. *)
LEMMA MeterBoundsStart == MeterInit => MeterBounds
<1> SUFFICES ASSUME MeterInit PROVE MeterBounds
  OBVIOUS
<1>1. MeterInv
  BY PowerMeterAssumption
     DEF MeterInit, MeterInv, NoBaseline, NoReading, GapsAddNoEnergy, Usable
<1>2. Absent \in 0..Absent
  BY PowerMeterAssumption DEF Absent
<1>3. MeterTimes
  BY <1>2, PowerMeterAssumption DEF MeterInit, MeterTimes, NoReading, NoBaseline
<1> QED  BY <1>1, <1>3 DEF MeterBounds

(* Energy over the sound time is at most that over all of it. *)
LEMMA EnergyBounded ==
  ASSUME NEW time \in Nat, NEW total \in Nat, time <= total,
         NEW energy \in Nat, energy <= 2 * MaxLevel * time
  PROVE  energy \in 0..(2 * MaxLevel * total)
<1>1. PICK d \in Nat : total = time + d
  <2>1. total - time \in Nat /\ total = time + (total - time)
    OBVIOUS
  <2> QED  BY <2>1
<1>2. energy <= 2 * MaxLevel * total
  BY <1>1, MoreTime
<1>3. 2 * MaxLevel * total \in Nat
  BY PowerMeterAssumption
<1> QED  BY <1>2, <1>3

(* The energy stays within what the largest power makes of all the time that  *)
(* has passed.                                                                *)
THEOREM MeterTypes == MeterSpec => []MeterTypeOK
<1>1. MeterBounds => MeterTypeOK
  <2> SUFFICES ASSUME MeterBounds PROVE MeterTypeOK
    OBVIOUS
  <2>1. sensor.kind \in {"composite", "ina3221"} /\ sensor.ready \in BOOLEAN
    BY DEF MeterBounds, MeterTimes, PowerSensors
  <2>2. /\ now \in 0..MaxTime /\ baseline.at \in 0..MaxTime /\ baseline.has \in BOOLEAN
        /\ sound.time \in Nat /\ sound.time <= MaxTime
    BY PowerMeterAssumption DEF MeterBounds, MeterInv, MeterTimes
  <2>3. meter.energy \in 0..(2 * MaxLevel * MaxTime)
    BY <2>2, EnergyBounded, PowerMeterAssumption DEF MeterBounds, MeterInv, GapsAddNoEnergy
  <2> QED  BY <2>1, <2>2, <2>3 DEF MeterTypeOK, MeterBounds, MeterTimes
<1> QED  BY <1>1, MeterBoundsStart, MeterBoundsStep, PTL DEF MeterSpec

-----------------------------------------------------------------------------
(* The types of the current sensor *)

\* How far the accumulator may fill: a reading that a request cut short stays
\* in it until the calibration begins.
Filled == samples.count < IF phase = "CALIBRATING" THEN ZeroSamples ELSE ReadingSamples

ShownAndFilled ==
  /\ monitored \in BOOLEAN /\ recalRequested \in BOOLEAN
  /\ shown \in Measurements
  /\ samples.count \in Nat /\ Filled

CurrentBounds == CalibrationInv /\ ShownAndFilled

(* No samples fit. *)
LEMMA NoSamplesFit ==
  ASSUME samples' = NoSamples
  PROVE  samples'.count \in Nat /\ Filled'
BY CurrentSensorAssumption DEF NoSamples, Filled

(* A turn of handle() keeps the accumulator from filling up: what fills it    *)
(* ends the calibration or the reading.                                       *)
LEMMA SamplesKeep ==
  ASSUME CurrentBounds, SensorHandle
  PROVE  samples'.count \in Nat /\ Filled' /\ recalRequested' \in BOOLEAN
<1> USE DEF CurrentBounds, ShownAndFilled
<1>1. ASSUME UNCHANGED <<samples, phase, recalRequested>>
      PROVE  samples'.count \in Nat /\ Filled' /\ recalRequested' \in BOOLEAN
  BY <1>1 DEF Filled
<1>2. ASSUME WatchSupply
      PROVE  samples'.count \in Nat /\ Filled' /\ recalRequested' \in BOOLEAN
  BY <1>1, <1>2 DEF WatchSupply
<1>3. ASSUME CheckSupply
      PROVE  samples'.count \in Nat /\ Filled' /\ recalRequested' \in BOOLEAN
  <2>1. \/ UNCHANGED <<samples, phase, recalRequested>>
        \/ samples' = NoSamples /\ recalRequested' = recalRequested
    BY <1>3 DEF CheckSupply, Abort
  <2> QED  BY <1>1, <2>1, NoSamplesFit
<1>4. ASSUME NEW initial, BeginCalibration(initial), UNCHANGED recalRequested
      PROVE  samples'.count \in Nat /\ Filled' /\ recalRequested' \in BOOLEAN
  BY <1>4, NoSamplesFit DEF BeginCalibration
<1>5. ASSUME TakeRequest
      PROVE  samples'.count \in Nat /\ Filled' /\ recalRequested' \in BOOLEAN
  <2>1. \/ WatchSupply
        \/ recalRequested' = FALSE /\ UNCHANGED <<samples, phase>>
        \/ recalRequested' = FALSE /\ UNCHANGED samples /\ phase' = "RECALIBRATION_SETTLE"
    BY <1>5 DEF TakeRequest
  <2>2. phase # "CALIBRATING"
    BY <1>5 DEF TakeRequest, Calibrating
  <2> QED  BY <1>2, <2>1, <2>2 DEF Filled
<1>6. ASSUME phase = "CALIBRATING", Calibrate
      PROVE  samples'.count \in Nat /\ Filled' /\ recalRequested' \in BOOLEAN
  <2>1. PICK saturated \in BOOLEAN :
          /\ IF Grown(saturated).count >= ZeroSamples THEN CompleteCalibration(Grown(saturated))
             ELSE samples' = Grown(saturated) /\ UNCHANGED <<zero, measured, phase>>
          /\ UNCHANGED <<recalRequested, initialCal, before>>
    BY <1>6 DEF Calibrate
  <2>2. Grown(saturated).count = samples.count + 1
    BY DEF Grown
  <2>3. CASE samples' = NoSamples
    BY <2>1, <2>3, NoSamplesFit
  <2>4. CASE /\ ~(Grown(saturated).count >= ZeroSamples)
             /\ samples' = Grown(saturated) /\ phase' = phase
    <3>1. samples'.count = samples.count + 1 /\ ~(samples.count + 1 >= ZeroSamples)
      BY <2>2, <2>4
    <3>2. samples'.count \in Nat /\ samples'.count < ZeroSamples
      BY <3>1, CurrentSensorAssumption
    <3> QED  BY <1>6, <2>1, <2>4, <3>2 DEF Filled
  <2> QED  BY <2>1, <2>3, <2>4 DEF CompleteCalibration
<1>7. ASSUME phase = "MEASURING", Measure
      PROVE  samples'.count \in Nat /\ Filled' /\ recalRequested' \in BOOLEAN
  <2>1. PICK saturated \in BOOLEAN :
          /\ IF Grown(saturated).count >= ReadingSamples
             THEN samples' = NoSamples /\ measured' \in Qualified(Grown(saturated))
             ELSE samples' = Grown(saturated) /\ UNCHANGED measured
          /\ UNCHANGED <<phase, recalRequested, initialCal, before, zero>>
    BY <1>7 DEF Measure
  <2>2. Grown(saturated).count = samples.count + 1
    BY DEF Grown
  <2>3. CASE samples' = NoSamples
    BY <2>1, <2>3, NoSamplesFit
  <2>4. CASE ~(Grown(saturated).count >= ReadingSamples) /\ samples' = Grown(saturated)
    <3>1. samples'.count = samples.count + 1 /\ ~(samples.count + 1 >= ReadingSamples)
      BY <2>2, <2>4
    <3>2. samples'.count \in Nat /\ samples'.count < ReadingSamples
      BY <3>1, CurrentSensorAssumption
    <3> QED  BY <1>7, <2>1, <3>2 DEF Filled
  <2> QED  BY <2>1, <2>3, <2>4
<1> QED  BY <1>1, <1>2, <1>3, <1>4, <1>5, <1>6, <1>7 DEF SensorHandle, Warmup, Settle

(* What is published is a measurement. *)
LEMMA FormattedTyped ==
  ASSUME NEW m \in Measurements
  PROVE  Formatted(m) \in Measurements
BY DEF Formatted, Measurements

(* Every step keeps the bounds. *)
LEMMA CurrentBoundsStep == CurrentBounds /\ [CurrentNext]_currentVars => CurrentBounds'
<1> SUFFICES ASSUME CurrentBounds, [CurrentNext]_currentVars PROVE CurrentBounds'
  OBVIOUS
<1>1. CalibrationInv'
  BY CalibrationStep DEF CurrentBounds
<1>2. CASE CurrentHandle
  <2>1. samples'.count \in Nat /\ Filled' /\ recalRequested' \in BOOLEAN
    BY <1>2, SamplesKeep DEF CurrentHandle
  <2>2. measured' \in Measurements
    BY <1>1 DEF CalibrationInv, CalibrationTypes
  <2>3. shown' \in Measurements
    BY <1>2, <2>2, FormattedTyped DEF CurrentHandle, PublishCurrent, CurrentBounds, ShownAndFilled
  <2> QED  BY <1>1, <1>2, <2>1, <2>3 DEF CurrentHandle, CurrentBounds, ShownAndFilled
<1>3. CASE RequestZeroCalibration
  BY <1>1, <1>3 DEF RequestZeroCalibration, CurrentBounds, ShownAndFilled, Filled
<1>4. CASE UNCHANGED currentVars
  BY <1>1, <1>4 DEF currentVars, CurrentBounds, ShownAndFilled, Filled
<1> QED  BY <1>2, <1>3, <1>4 DEF CurrentNext

(* The sensor starts without samples. *)
LEMMA CurrentBoundsStart == CurrentInit => CurrentBounds
<1> SUFFICES ASSUME CurrentInit PROVE CurrentBounds
  OBVIOUS
<1>1. CalibrationInv
  BY CalibrationStart
<1>2. shown \in Measurements
  BY DEF CurrentInit, NothingShown, Measurements, Supplies
<1>3. samples.count = 0 /\ phase = "WARMUP"
  BY DEF CurrentInit, NoSamples
<1>4. samples.count \in Nat /\ Filled
  BY <1>3, CurrentSensorAssumption DEF Filled
<1> QED  BY <1>1, <1>2, <1>4 DEF CurrentInit, CurrentBounds, ShownAndFilled

(* The accumulator never holds more samples than a reading or a calibration   *)
(* takes, and everything shown is a measurement.                              *)
THEOREM CurrentTypes == CurrentSpec => []CurrentTypeOK
<1>1. CurrentBounds => CurrentTypeOK
  <2> SUFFICES ASSUME CurrentBounds PROVE CurrentTypeOK
    OBVIOUS
  <2>1. /\ phase \in Phases /\ {measured, before, shown} \subseteq Measurements
        /\ initialCal \in BOOLEAN
    BY DEF CurrentBounds, ShownAndFilled, CalibrationInv, CalibrationTypes
  <2>2. zero \subseteq {"CALIBRATING", "MEASURING"} \X Supplies
    <3>1. {"CALIBRATING"} \X {"IN_RANGE", "NOT_MONITORED"}
            \subseteq {"CALIBRATING", "MEASURING"} \X Supplies
      BY DEF Supplies
    <3> QED  BY <3>1 DEF CurrentBounds, CalibrationInv, ZeroIsClean
  <2>3. samples.count \in 0..(IF ZeroSamples > ReadingSamples THEN ZeroSamples ELSE ReadingSamples)
    BY CurrentSensorAssumption DEF CurrentBounds, ShownAndFilled, Filled
  <2> QED  BY <2>1, <2>2, <2>3 DEF CurrentTypeOK, Phases, CurrentBounds, ShownAndFilled
<1> QED  BY <1>1, CurrentBoundsStart, CurrentBoundsStep, PTL DEF CurrentSpec
=============================================================================
