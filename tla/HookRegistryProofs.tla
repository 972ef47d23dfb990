--------------------------- MODULE HookRegistryProofs ---------------------------
(***************************************************************************)
(* Proofs about HookRegistry, for every set of modifications, every order  *)
(* of their constructors and every place the image may be loaded at.       *)
(***************************************************************************)
EXTENDS HookRegistry, FiniteSetTheorems, TLAPS

-------------------------------------------------------------------------------
(* The operators of the steps.                                               *)

Values == Modifications \cup {"original", "zero", "heap"}

\* What an overwrite may copy to a place of that modification.
Buffers(m) == [0 .. ByteCount[m] - 1 -> Values]

\* The loop has been at that address of that modification.
Passed(k, i) == k < place[1] \/ (k = place[1] /\ i < place[2])

\* The four kinds.
LEMMA KindsAreFour ==
  /\ Range(Kinds) = {"call", "detour", "patch", "array"}
  /\ \A m \in Modifications : Kind[m] \in {"call", "detour", "patch", "array"}
<1>1. Range(Kinds) = {"call", "detour", "patch", "array"}
  <2>1. DOMAIN Kinds = 1 .. 4
    BY DEF Kinds
  <2>2. /\ Kinds[1] = "call" /\ Kinds[2] = "detour" /\ Kinds[3] = "patch" /\ Kinds[4] = "array"
    BY DEF Kinds
  <2>3. \A i \in 1 .. 4 : i = 1 \/ i = 2 \/ i = 3 \/ i = 4
    OBVIOUS
  <2> QED BY <2>1, <2>2, <2>3 DEF Range
<1> QED BY <1>1, HookAssumption

\* Each modification has places, with their addresses, in memory.
LEMMA PlacesOfModification ==
  ASSUME NEW m \in Modifications
  PROVE  /\ Len(Addresses[m]) \in Nat \ {0}
         /\ DOMAIN Addresses[m] = 1 .. Len(Addresses[m])
         /\ \A i \in DOMAIN Addresses[m] : Addresses[m][i] \in Nat
         /\ ByteCount[m] \in Nat \ {0}
<1>1. Addresses[m] \in Seq(Nat) /\ Addresses[m] # << >> /\ ByteCount[m] \in Nat \ {0}
  BY HookAssumption
<1> QED BY <1>1

\* The image is somewhere in memory, and so is every place a modification names.
LEMMA TargetIsAddress ==
  ASSUME TypeOK, NEW m \in Modifications, NEW i \in DOMAIN Addresses[m]
  PROVE  /\ Target(m, i) \in Nat
         /\ ~Unset(m, i) => Target(m, i) \in Bytes(m, i)
         /\ \A address \in Bytes(m, i) : address - Target(m, i) \in 0 .. ByteCount[m] - 1
<1>1. global_module \in Nat
  BY HookAssumption DEF TypeOK
<1>2. Addresses[m][i] \in Nat /\ ByteCount[m] \in Nat \ {0}
  BY PlacesOfModification
<1>3. Rva(Addresses[m][i]) \in Nat
  <2>1. PICK va \in Nat : va = Addresses[m][i]
    BY <1>2
  <2>2. \A n \in Nat : n % LongModulus \in Nat
    BY HookAssumption
  <2>3. (IF va >= PreferredBase THEN va - PreferredBase ELSE va) \in Nat
    BY <2>1, HookAssumption
  <2> QED BY <2>1, <2>2, <2>3 DEF Rva
<1>4. Target(m, i) \in Nat
  BY <1>1, <1>2, <1>3 DEF Target
<1> QED BY <1>2, <1>4 DEF Bytes

-------------------------------------------------------------------------------
(* Type correctness.                                                         *)

\* TypeOK says nothing of what the buffers hold, which is written to memory, nor
\* of the order of the lists; and that the place is one of a modification needs
\* it to be the first while they still grow.
RegistryInvariant ==
  /\ TypeOK
  /\ registered \in [Range(Kinds) -> Seq(Modifications)]
  /\ DOMAIN originals = Modifications
  /\ \A m \in Modifications :
       /\ DOMAIN originals[m] = DOMAIN Addresses[m]
       /\ \A i \in DOMAIN Addresses[m] : originals[m][i] = Null \/ originals[m][i] \in Buffers(m)
  /\ pc = "load" =>
       /\ place = <<1, 1>> /\ ~applied
       /\ \A address \in Mapped : memory[address] = "original"
       /\ \A m \in Modifications : \A i \in DOMAIN Addresses[m] :
            Kind[m] = "detour" => originals[m][i] = Null
  /\ pc = "installed" /\ applied => ~More
  /\ pc = "removed" => ~More

\* The loops go through a list of the modifications, each in it once.
LEMMA OrderOfModifications ==
  ASSUME registered \in [Range(Kinds) -> Seq(Modifications)]
  PROVE  Order \in Seq(Modifications)
<1>1. /\ registered["call"] \in Seq(Modifications)
      /\ registered["detour"] \in Seq(Modifications)
      /\ registered["patch"] \in Seq(Modifications)
      /\ registered["array"] \in Seq(Modifications)
  BY KindsAreFour
<1> QED BY <1>1 DEF Order

\* What a loop is at is a modification of the kind it is for.
LEMMA CurrentIsModification ==
  ASSUME RegistryInvariant, More
  PROVE  /\ Current \in Modifications
         /\ place[1] \in DOMAIN Order
         /\ place[2] \in DOMAIN Addresses[Current]
         /\ Order \in Seq(Modifications)
<1>1. Order \in Seq(Modifications)
  BY OrderOfModifications DEF RegistryInvariant
<1>2. place[1] \in 1 .. Len(Order) + 1 /\ place[1] <= Len(Order) /\ Len(Order) \in Nat
  BY <1>1 DEF RegistryInvariant, TypeOK, More
<1>3. place[1] \in DOMAIN Order /\ DOMAIN Order = 1 .. Len(Order)
  BY <1>1, <1>2
<1> QED BY <1>1, <1>3 DEF RegistryInvariant, TypeOK, Current

\* The next place of the loops is the only one they have been at since.
LEMMA NextPlacePassed ==
  ASSUME RegistryInvariant, More, NextPlace, UNCHANGED registered
  PROVE  /\ Order' = Order
         /\ place' \in (1 .. Len(Order) + 1) \X Nat
         /\ More' => place'[2] \in DOMAIN Addresses[Current']
         /\ \A k \in DOMAIN Order : \A i \in DOMAIN Addresses[Order[k]] :
              Passed(k, i)' <=> Passed(k, i) \/ (k = place[1] /\ i = place[2])
<1>1. /\ Current \in Modifications
      /\ place[1] \in DOMAIN Order
      /\ place[2] \in DOMAIN Addresses[Current]
      /\ Order \in Seq(Modifications)
  BY CurrentIsModification
<1>2. PICK n \in Nat \ {0} : n = Len(Addresses[Current]) /\ DOMAIN Addresses[Current] = 1 .. n
  BY <1>1, PlacesOfModification
<1>3. Order' = Order
  BY DEF Order
<1>4. DOMAIN Order = 1 .. Len(Order) /\ Len(Order) \in Nat
  BY <1>1
<1>5. place[1] \in 1 .. Len(Order) /\ place[2] \in 1 .. n
  BY <1>1, <1>2, <1>4
<1>6. place' = IF place[2] < n THEN <<place[1], place[2] + 1>> ELSE <<place[1] + 1, 1>>
  BY <1>2 DEF NextPlace
<1>7. place' \in (1 .. Len(Order) + 1) \X Nat
  BY <1>4, <1>5, <1>6
<1>8. ASSUME More'
      PROVE  place'[2] \in DOMAIN Addresses[Current']
  <2>1. CASE place[2] < n
    BY <1>2, <1>3, <1>5, <1>6, <2>1 DEF Current
  <2>2. CASE ~(place[2] < n)
    <3>1. place' = <<place[1] + 1, 1>> /\ place[1] + 1 \in DOMAIN Order
      BY <1>3, <1>4, <1>5, <1>6, <1>8, <2>2 DEF More
    <3>2. PICK next \in Modifications : next = Order[place[1] + 1]
      BY <1>1, <3>1
    <3>3. 1 \in DOMAIN Addresses[next]
      BY PlacesOfModification
    <3> QED BY <1>3, <3>1, <3>2, <3>3 DEF Current
  <2> QED BY <2>1, <2>2
<1>9. ASSUME NEW k \in DOMAIN Order, NEW i \in DOMAIN Addresses[Order[k]]
      PROVE  Passed(k, i)' <=> Passed(k, i) \/ (k = place[1] /\ i = place[2])
  <2>1. k \in Nat /\ i \in Nat \ {0} /\ (k = place[1] => i \in 1 .. n)
    <3>1. Order[k] \in Modifications
      BY <1>1
    <3>2. /\ DOMAIN Addresses[Order[k]] = 1 .. Len(Addresses[Order[k]])
          /\ Len(Addresses[Order[k]]) \in Nat
      BY <3>1, PlacesOfModification
    <3> QED BY <1>2, <1>4, <3>2 DEF Current
  <2>2. Passed(k, i)' <=> k < place'[1] \/ (k = place'[1] /\ i < place'[2])
    BY DEF Passed
  <2> QED BY <1>5, <1>6, <2>1, <2>2 DEF Passed
<1> QED BY <1>3, <1>7, <1>8, <1>9

\* Nothing else is passed while the loops stand still.
LEMMA SamePlacePassed ==
  ASSUME UNCHANGED <<registered, place>>
  PROVE  /\ Order' = Order
         /\ Current' = Current
         /\ More' <=> More
         /\ \A k, i : Passed(k, i)' <=> Passed(k, i)
BY DEF Order, Current, More, Passed

\* What is read at a place is a buffer for it.
LEMMA SnapshotIsBuffer ==
  ASSUME TypeOK, NEW m \in Modifications, NEW i \in DOMAIN Addresses[m],
         ~Unset(m, i), Readable(m, i)
  PROVE  /\ Snapshot(m, i) \in Buffers(m)
         /\ Snapshot(m, i) # Null
         /\ \A address \in Bytes(m, i) : Snapshot(m, i)[address - Target(m, i)] = memory[address]
<1>1. Target(m, i) \in Nat /\ ByteCount[m] \in Nat \ {0}
  BY TargetIsAddress, PlacesOfModification
<1>2. \A offset \in 0 .. ByteCount[m] - 1 : Target(m, i) + offset \in Bytes(m, i)
  BY <1>1 DEF Bytes
<1>3. \A address \in Mapped : memory[address] \in Values
  BY DEF TypeOK, Range, Mapped, Values
<1>4. Snapshot(m, i) \in Buffers(m)
  BY <1>2, <1>3 DEF Readable, Snapshot, Buffers
<1>5. Snapshot(m, i) # Null
  <2>1. 0 \in DOMAIN Snapshot(m, i)
    BY <1>1 DEF Snapshot
  <2>2. DOMAIN Null = {}
    BY DEF Null
  <2> QED BY <2>1, <2>2
<1>6. ASSUME NEW address \in Bytes(m, i)
      PROVE  Snapshot(m, i)[address - Target(m, i)] = memory[address]
  <2>1. address - Target(m, i) \in 0 .. ByteCount[m] - 1 /\ address \in Int
    BY <1>1, TargetIsAddress DEF Bytes
  <2>2. Target(m, i) + (address - Target(m, i)) = address
    BY <1>1, <2>1
  <2> QED BY <2>1, <2>2 DEF Snapshot
<1> QED BY <1>4, <1>5, <1>6

\* So is what a modification holds to revert with.
LEMMA HeldIsBuffer ==
  ASSUME RegistryInvariant, NEW m \in Modifications, NEW i \in DOMAIN Addresses[m],
         originals[m][i] # Null, NEW buffer \in Held(m, i)
  PROVE  buffer \in Buffers(m)
<1>1. originals[m][i] \in Buffers(m)
  BY DEF RegistryInvariant
<1>2. CASE Kind[m] # "patch"
  BY <1>1, <1>2 DEF Held
<1>3. CASE Kind[m] = "patch"
  <2>1. Range(originals[m][i]) \cup {"heap"} \subseteq Values
    BY <1>1 DEF Buffers, Range, Values
  <2> QED BY <1>3, <2>1 DEF Held, Buffers
<1> QED BY <1>2, <1>3

\* Copying a buffer changes the bytes of the place and no other.
LEMMA WrittenBytes ==
  ASSUME TypeOK, NEW m \in Modifications, NEW i \in DOMAIN Addresses[m],
         NEW buffer \in Buffers(m)
  PROVE  /\ DOMAIN Written(m, i, buffer) = Mapped
         /\ Range(Written(m, i, buffer)) \subseteq Values
         /\ \A address \in Mapped :
              Written(m, i, buffer)[address] =
                IF address \in Bytes(m, i)
                THEN buffer[address - Target(m, i)]
                ELSE memory[address]
<1>1. \A address \in Mapped : memory[address] \in Values
  BY DEF TypeOK, Range, Mapped, Values
<1>2. \A address \in Bytes(m, i) : buffer[address - Target(m, i)] \in Values
  BY TargetIsAddress DEF Buffers
<1> QED BY <1>1, <1>2 DEF Written, Range

\* Overwriting a place that is mapped keeps the types of memory and protection.
LEMMA OverwriteTypes ==
  ASSUME TypeOK, NEW m \in Modifications, NEW i \in DOMAIN Addresses[m],
         ~Unset(m, i), Readable(m, i), NEW buffer \in Buffers(m), Overwrite(m, i, buffer)
  PROVE  /\ memory' = Written(m, i, buffer) \/ (windows_refuses /\ memory' = memory)
         /\ DOMAIN memory' = DOMAIN memory
         /\ Range(memory') \subseteq Values
         /\ Pages' = Pages
         /\ protection' \in [Pages -> {"initial", "writable"}]
<1>1. memory' = Written(m, i, buffer) \/ (windows_refuses /\ memory' = memory)
  BY DEF Overwrite
<1>2. DOMAIN memory' = DOMAIN memory /\ Range(memory') \subseteq Values
  BY <1>1, WrittenBytes DEF Mapped, TypeOK, Values
<1>3. Pages' = Pages
  BY <1>2 DEF Pages, Mapped
<1>4. Target(m, i) \div PageSize \in Pages
  BY TargetIsAddress DEF Readable, Pages
<1>5. protection[Target(m, i) \div PageSize] \in {"initial", "writable"}
  BY <1>4 DEF TypeOK
<1>6. protection' \in [Pages -> {"initial", "writable"}]
  BY <1>5 DEF Overwrite, Protected, TypeOK
<1> QED BY <1>1, <1>2, <1>3, <1>6

\* Before any constructor has run nothing is registered, and memory is as it was.
LEMMA InitRegistry == Init => RegistryInvariant
<1> SUFFICES ASSUME Init PROVE RegistryInvariant
  OBVIOUS
<1>1. PICK process \in Processes :
        /\ global_module = process.base
        /\ memory = [address \in process.mapped |-> "original"]
  BY DEF Init
<1>2. /\ DOMAIN memory = process.mapped
      /\ Range(memory) \subseteq Values
      /\ \A address \in Mapped : memory[address] = "original"
  BY <1>1 DEF Range, Mapped, Values
<1>3. /\ registered \in [Range(Kinds) -> Seq(Modifications)]
      /\ \A kind \in Range(Kinds) : registered[kind] = << >>
  BY DEF Init
<1>4. /\ Order \in Seq(Modifications) /\ Len(Order) = 0
  BY <1>3, KindsAreFour DEF Order
<1>5. ~More
  BY <1>4 DEF More, Init
<1>6. ASSUME NEW m \in Modifications
      PROVE  /\ DOMAIN originals[m] = DOMAIN Addresses[m]
             /\ \A i \in DOMAIN Addresses[m] : originals[m][i] = InitialOriginal(m)
             /\ InitialOriginal(m) = Null \/ InitialOriginal(m) \in Buffers(m)
             /\ Kind[m] = "detour" => InitialOriginal(m) = Null
  <2>1. Kind[m] \in {"call", "detour", "patch", "array"}
    BY KindsAreFour
  <2>2. /\ Zeros(m) \in Buffers(m)
        /\ BehindBuffer(m) \in Buffers(m)
    BY DEF Zeros, BehindBuffer, Buffers, Values
  <2>3. CASE Kind[m] = "call"
    BY <2>2, <2>3 DEF InitialOriginal, Init
  <2>4. CASE Kind[m] = "patch"
    BY <2>2, <2>4 DEF InitialOriginal, Init
  <2>5. CASE Kind[m] \in {"detour", "array"}
    BY <2>5 DEF InitialOriginal, Init
  <2> QED BY <2>1, <2>3, <2>4, <2>5
<1>7. ASSUME NEW m \in Modifications, NEW i \in DOMAIN Addresses[m]
      PROVE  originals[m][i] = Null \/ DOMAIN originals[m][i] = 0 .. ByteCount[m] - 1
  BY <1>6 DEF Buffers
<1>8. TypeOK
  <2>1. \A kind \in Range(Kinds) :
          IsInjective(registered[kind]) /\ \A m \in Range(registered[kind]) : Kind[m] = kind
    BY <1>3 DEF IsInjective, Range
  <2>2. protection \in [Pages -> {"initial", "writable"}]
    BY DEF Init
  <2>3. place \in (1 .. Len(Order) + 1) \X Nat
    BY <1>4 DEF Init
  <2> QED BY <1>1, <1>2, <1>5, <1>7, <2>1, <2>2, <2>3 DEF TypeOK, Init, Values
<1>9. DOMAIN originals = Modifications /\ place = <<1, 1>> /\ pc = "load" /\ ~applied
  BY DEF Init
<1> QED BY <1>2, <1>3, <1>5, <1>6, <1>8, <1>9 DEF RegistryInvariant

\* A constructor adds a modification of its kind, and the loops have not begun.
LEMMA RegisterKeepsTypes ==
  ASSUME RegistryInvariant, NEW m \in Modifications, Register(m)
  PROVE  RegistryInvariant'
<1>1. /\ TypeOK /\ pc = "load" /\ m \notin Range(registered[Kind[m]])
      /\ UNCHANGED <<windows_refuses, global_module, memory, protection, originals, place, applied>>
  BY DEF Register, RegistryInvariant
<1>2. Kind[m] \in Range(Kinds)
  BY HookAssumption
<1>3. CASE UNCHANGED registered /\ pc' = "aborted"
  BY <1>1, <1>3
  DEF RegistryInvariant, TypeOK, Order, More, Current, Mapped, Pages
<1>4. CASE UNCHANGED pc /\ registered' = [registered EXCEPT ![Kind[m]] = Append(@, m)]
  <2>1. PICK list \in Seq(Modifications) : list = registered[Kind[m]]
    BY <1>2 DEF RegistryInvariant
  <2>2. /\ Append(list, m) \in Seq(Modifications)
        /\ Len(list) \in Nat
        /\ DOMAIN list = 1 .. Len(list)
        /\ DOMAIN Append(list, m) = 1 .. Len(list) + 1
        /\ \A i \in 1 .. Len(list) : Append(list, m)[i] = list[i]
        /\ Append(list, m)[Len(list) + 1] = m
    OBVIOUS
  <2>3. /\ registered' \in [Range(Kinds) -> Seq(Modifications)]
        /\ registered'[Kind[m]] = Append(list, m)
        /\ \A kind \in Range(Kinds) : kind # Kind[m] => registered'[kind] = registered[kind]
    BY <1>2, <1>4, <2>1, <2>2 DEF RegistryInvariant
  <2>4. \A i \in 1 .. Len(list) : list[i] # m /\ Kind[list[i]] = Kind[m]
    BY <1>1, <1>2, <2>1, <2>2 DEF Range, TypeOK
  <2>5. IsInjective(list)
    BY <1>1, <1>2, <2>1 DEF TypeOK
  <2>6. IsInjective(Append(list, m))
    BY <2>2, <2>4, <2>5 DEF IsInjective
  <2>7. \A n \in Range(Append(list, m)) : Kind[n] = Kind[m]
    BY <2>2, <2>4 DEF Range
  <2>8. \A kind \in Range(Kinds) :
          IsInjective(registered'[kind]) /\ \A n \in Range(registered'[kind]) : Kind[n] = kind
    BY <1>1, <2>3, <2>6, <2>7 DEF TypeOK
  <2>9. Order' \in Seq(Modifications)
    <3>1. /\ registered'["call"] \in Seq(Modifications)
          /\ registered'["detour"] \in Seq(Modifications)
          /\ registered'["patch"] \in Seq(Modifications)
          /\ registered'["array"] \in Seq(Modifications)
      BY <2>3, KindsAreFour
    <3> QED BY <3>1 DEF Order
  <2>10. place' = <<1, 1>> /\ place = <<1, 1>> /\ ~applied'
    BY <1>1 DEF RegistryInvariant
  <2>11. /\ place' \in (1 .. Len(Order') + 1) \X Nat
         /\ More' => place'[2] \in DOMAIN Addresses[Current']
    <3>1. place' \in (1 .. Len(Order') + 1) \X Nat
      BY <2>9, <2>10
    <3>2. ASSUME More'
          PROVE  place'[2] \in DOMAIN Addresses[Current']
      <4>1. 1 \in DOMAIN Order'
        BY <2>9, <2>10, <3>2 DEF More
      <4>2. PICK first \in Modifications : first = Order'[1]
        BY <2>9, <4>1
      <4>3. 1 \in DOMAIN Addresses[first]
        BY PlacesOfModification
      <4> QED BY <2>10, <4>2, <4>3 DEF Current
    <3> QED BY <3>1, <3>2
  <2>12. Mapped' = Mapped /\ Pages' = Pages
    BY <1>1 DEF Mapped, Pages
  <2>13. TypeOK'
    BY <1>1, <1>4, <2>8, <2>11, <2>12 DEF TypeOK
  <2> QED BY <1>1, <1>4, <2>3, <2>10, <2>12, <2>13 DEF RegistryInvariant
<1> QED BY <1>3, <1>4 DEF Register

\* The buffers stay buffers when one is replaced.
LEMMA BufferReplaced ==
  ASSUME RegistryInvariant, NEW m \in Modifications, NEW i \in DOMAIN Addresses[m],
         NEW buffer, buffer = Null \/ buffer \in Buffers(m),
         originals' = [originals EXCEPT ![m][i] = buffer]
  PROVE  /\ DOMAIN originals' = Modifications
         /\ \A n \in Modifications :
              /\ DOMAIN originals'[n] = DOMAIN Addresses[n]
              /\ \A j \in DOMAIN Addresses[n] :
                   /\ originals'[n][j] = IF n = m /\ j = i THEN buffer ELSE originals[n][j]
                   /\ originals'[n][j] = Null \/ originals'[n][j] \in Buffers(n)
<1>1. /\ DOMAIN originals = Modifications
      /\ \A n \in Modifications :
           /\ DOMAIN originals[n] = DOMAIN Addresses[n]
           /\ \A j \in DOMAIN Addresses[n] :
                originals[n][j] = Null \/ originals[n][j] \in Buffers(n)
  BY DEF RegistryInvariant
<1>2. /\ DOMAIN originals' = Modifications
      /\ \A n \in Modifications : n # m => originals'[n] = originals[n]
      /\ originals'[m] = [originals[m] EXCEPT ![i] = buffer]
  BY <1>1
<1>3. /\ DOMAIN originals'[m] = DOMAIN Addresses[m]
      /\ \A j \in DOMAIN Addresses[m] :
           originals'[m][j] = IF j = i THEN buffer ELSE originals[m][j]
  BY <1>1, <1>2
<1> QED BY <1>1, <1>2, <1>3

\* A turn of the loops keeps the types if what it writes to memory and to the
\* buffers has them.
LEMMA TurnKeepsTypes ==
  ASSUME RegistryInvariant, More, NextPlace,
         UNCHANGED <<windows_refuses, global_module, registered, applied, pc>>,
         pc \in {"apply", "revert"},
         DOMAIN memory' = DOMAIN memory, Range(memory') \subseteq Values,
         protection' \in [Pages -> {"initial", "writable"}],
         DOMAIN originals' = Modifications,
         \A m \in Modifications :
           /\ DOMAIN originals'[m] = DOMAIN Addresses[m]
           /\ \A i \in DOMAIN Addresses[m] :
                originals'[m][i] = Null \/ originals'[m][i] \in Buffers(m)
  PROVE  RegistryInvariant'
<1>1. TypeOK
  BY DEF RegistryInvariant
<1>2. /\ Order' = Order
      /\ place' \in (1 .. Len(Order) + 1) \X Nat
      /\ More' => place'[2] \in DOMAIN Addresses[Current']
  BY NextPlacePassed
<1>3. Pages' = Pages
  BY DEF Pages, Mapped
<1>4. \A m \in Modifications : \A i \in DOMAIN Addresses[m] :
        originals'[m][i] = Null \/ DOMAIN originals'[m][i] = 0 .. ByteCount[m] - 1
  BY DEF Buffers
<1>5. TypeOK'
  BY <1>1, <1>2, <1>3, <1>4 DEF TypeOK, Values
<1> QED BY <1>5 DEF RegistryInvariant

\* What a modification writes is a buffer for its places.
LEMMA PatchIsBuffer ==
  ASSUME NEW m \in Modifications
  PROVE  Patch(m) \in Buffers(m)
BY DEF Patch, Buffers, Values

\* Every step keeps the types: what is written is a buffer for its place.
LEMMA NextRegistry == RegistryInvariant /\ [Next]_vars => RegistryInvariant'
<1> SUFFICES ASSUME RegistryInvariant, [Next]_vars PROVE RegistryInvariant'
  OBVIOUS
<1>1. TypeOK
  BY DEF RegistryInvariant
<1>2. ASSUME NEW m \in Modifications, Register(m)
      PROVE  RegistryInvariant'
  BY <1>2, RegisterKeepsTypes
<1>3. ASSUME More, NEW m, m = Current, NEW i, i = place[2]
      PROVE  m \in Modifications /\ i \in DOMAIN Addresses[m]
  BY <1>3, CurrentIsModification
<1>4. CASE ApplyPatch
  <2>1. PICK m, i : m = Current /\ i = place[2]
    OBVIOUS
  <2>2. /\ More /\ NextPlace /\ pc = "apply"
        /\ ~Unset(m, i) /\ Readable(m, i)
        /\ originals' = [originals EXCEPT ![m][i] = Snapshot(m, i)]
        /\ Overwrite(m, i, Patch(m))
        /\ UNCHANGED <<windows_refuses, global_module, registered, applied, pc>>
    BY <1>4, <2>1 DEF ApplyPatch
  <2>3. m \in Modifications /\ i \in DOMAIN Addresses[m]
    BY <1>3, <2>1, <2>2
  <2>4. /\ DOMAIN memory' = DOMAIN memory /\ Range(memory') \subseteq Values
        /\ protection' \in [Pages -> {"initial", "writable"}]
    BY <1>1, <2>2, <2>3, PatchIsBuffer, OverwriteTypes
  <2>5. PICK buffer \in Buffers(m) : buffer = Snapshot(m, i)
    BY <1>1, <2>2, <2>3, SnapshotIsBuffer
  <2>6. /\ DOMAIN originals' = Modifications
        /\ \A n \in Modifications :
             /\ DOMAIN originals'[n] = DOMAIN Addresses[n]
             /\ \A j \in DOMAIN Addresses[n] :
                  originals'[n][j] = Null \/ originals'[n][j] \in Buffers(n)
    BY <2>2, <2>3, <2>5, BufferReplaced
  <2> QED BY <2>2, <2>4, <2>6, TurnKeepsTypes
<1>5. ASSUME UNCHANGED <<memory, protection, originals>>,
             UNCHANGED <<windows_refuses, global_module, registered, applied, pc>>,
             NextPlace, More, pc \in {"apply", "revert"}
      PROVE  RegistryInvariant'
  <2>1. DOMAIN memory' = DOMAIN memory /\ Range(memory') \subseteq Values
    BY <1>1, <1>5 DEF TypeOK, Values
  <2>2. protection' \in [Pages -> {"initial", "writable"}]
    BY <1>1, <1>5 DEF TypeOK
  <2>3. /\ DOMAIN originals' = Modifications
        /\ \A n \in Modifications :
             /\ DOMAIN originals'[n] = DOMAIN Addresses[n]
             /\ \A j \in DOMAIN Addresses[n] :
                  originals'[n][j] = Null \/ originals'[n][j] \in Buffers(n)
    BY <1>5 DEF RegistryInvariant
  <2> QED BY <1>5, <2>1, <2>2, <2>3, TurnKeepsTypes
<1>6. ASSUME NEW m, m = Current, NEW i, i = place[2], More, NextPlace,
             NEW buffer \in Buffers(m), memory' = Written(m, i, buffer),
             NEW saved, saved = Null \/ saved \in Buffers(m),
             originals' = [originals EXCEPT ![m][i] = saved],
             UNCHANGED <<windows_refuses, global_module, registered, protection, applied, pc>>,
             pc \in {"apply", "revert"}
      PROVE  RegistryInvariant'
  <2>1. m \in Modifications /\ i \in DOMAIN Addresses[m]
    BY <1>3, <1>6
  <2>2. DOMAIN memory' = DOMAIN memory /\ Range(memory') \subseteq Values
    BY <1>1, <1>6, <2>1, WrittenBytes DEF Mapped
  <2>3. protection' \in [Pages -> {"initial", "writable"}]
    BY <1>1, <1>6 DEF TypeOK
  <2>4. /\ DOMAIN originals' = Modifications
        /\ \A n \in Modifications :
             /\ DOMAIN originals'[n] = DOMAIN Addresses[n]
             /\ \A j \in DOMAIN Addresses[n] :
                  originals'[n][j] = Null \/ originals'[n][j] \in Buffers(n)
    BY <1>6, <2>1, BufferReplaced
  <2> QED BY <1>6, <2>2, <2>3, <2>4, TurnKeepsTypes
<1>7. CASE ApplyDetour
  <2>1. PICK m, i : m = Current /\ i = place[2]
    OBVIOUS
  <2>2. /\ More /\ NextPlace /\ pc = "apply"
        /\ ~Unset(m, i) /\ Readable(m, i)
        /\ \/ /\ originals' = [originals EXCEPT ![m][i] = Snapshot(m, i)]
              /\ memory' = Written(m, i, Patch(m))
           \/ UNCHANGED <<originals, memory>>
        /\ UNCHANGED <<windows_refuses, global_module, registered, protection, applied, pc>>
    BY <1>7, <2>1 DEF ApplyDetour
  <2>3. m \in Modifications /\ i \in DOMAIN Addresses[m]
    BY <1>3, <2>1, <2>2
  <2>4. PICK saved, buffer : saved = Snapshot(m, i) /\ buffer = Patch(m)
    OBVIOUS
  <2>5. saved \in Buffers(m) /\ buffer \in Buffers(m)
    BY <1>1, <2>2, <2>3, <2>4, SnapshotIsBuffer, PatchIsBuffer
  <2>6. CASE UNCHANGED <<originals, memory>>
    BY <1>5, <2>2, <2>6
  <2>7. CASE /\ originals' = [originals EXCEPT ![m][i] = saved]
             /\ memory' = Written(m, i, buffer)
    BY <1>6, <2>1, <2>2, <2>5, <2>7
  <2> QED BY <2>2, <2>4, <2>6, <2>7
<1>8. CASE RevertPatch
  <2>1. PICK m, i : m = Current /\ i = place[2]
    OBVIOUS
  <2>2. /\ More /\ NextPlace /\ pc = "revert"
        /\ ~Unset(m, i) /\ Readable(m, i) /\ originals[m][i] # Null
        /\ \E original \in Held(m, i) : Overwrite(m, i, original)
        /\ UNCHANGED <<windows_refuses, global_module, registered, originals, applied, pc>>
    BY <1>8, <2>1 DEF RevertPatch
  <2>3. m \in Modifications /\ i \in DOMAIN Addresses[m]
    BY <1>3, <2>1, <2>2
  <2>4. PICK original \in Buffers(m) : Overwrite(m, i, original)
    BY <2>2, <2>3, HeldIsBuffer
  <2>5. /\ DOMAIN memory' = DOMAIN memory /\ Range(memory') \subseteq Values
        /\ protection' \in [Pages -> {"initial", "writable"}]
    BY <1>1, <2>2, <2>3, <2>4, OverwriteTypes
  <2>6. /\ DOMAIN originals' = Modifications
        /\ \A n \in Modifications :
             /\ DOMAIN originals'[n] = DOMAIN Addresses[n]
             /\ \A j \in DOMAIN Addresses[n] :
                  originals'[n][j] = Null \/ originals'[n][j] \in Buffers(n)
    BY <2>2 DEF RegistryInvariant
  <2> QED BY <2>2, <2>5, <2>6, TurnKeepsTypes
<1>9. CASE Skip \/ RevertUnmapped
  BY <1>5, <1>9 DEF Skip, RevertUnmapped
<1>10. CASE RevertDetour
  <2>1. PICK m, i, trampoline :
          m = Current /\ i = place[2] /\ trampoline = originals[m][i]
    OBVIOUS
  <2>2. /\ More /\ NextPlace /\ pc = "revert"
        /\ \/ /\ trampoline # Null
              /\ originals' = [originals EXCEPT ![m][i] = Null]
              /\ memory' = Written(m, i, trampoline)
           \/ UNCHANGED <<originals, memory>>
        /\ UNCHANGED <<windows_refuses, global_module, registered, protection, applied, pc>>
    BY <1>10, <2>1 DEF RevertDetour
  <2>3. m \in Modifications /\ i \in DOMAIN Addresses[m]
    BY <1>3, <2>1, <2>2
  <2>4. CASE UNCHANGED <<originals, memory>>
    BY <1>5, <2>2, <2>4
  <2>5. CASE /\ trampoline # Null
             /\ originals' = [originals EXCEPT ![m][i] = Null]
             /\ memory' = Written(m, i, trampoline)
    <3>1. trampoline \in Buffers(m)
      BY <2>1, <2>3, <2>5 DEF RegistryInvariant
    <3> QED BY <1>6, <2>1, <2>2, <2>5, <3>1
  <2> QED BY <2>2, <2>4, <2>5
<1>11. ASSUME UNCHANGED <<windows_refuses, global_module, registered, memory, protection,
                         originals>>,
              place' = place \/ (place' = <<1, 1>> /\ pc' = "revert"),
              applied' \in BOOLEAN,
              pc' \in {"apply", "installed", "revert", "removed", "crashed"},
              pc' = "installed" => (applied' => ~More') \/ ~applied',
              pc' = "removed" => ~More'
       PROVE  RegistryInvariant'
  <2>1. Order' = Order /\ Order \in Seq(Modifications)
    BY <1>11, OrderOfModifications DEF Order, RegistryInvariant
  <2>2. /\ place' \in (1 .. Len(Order') + 1) \X Nat
        /\ More' => place'[2] \in DOMAIN Addresses[Current']
    <3>1. CASE place' = place
      BY <1>1, <2>1, <3>1 DEF TypeOK, More, Current
    <3>2. CASE place' = <<1, 1>>
      <4>1. place' \in (1 .. Len(Order') + 1) \X Nat
        BY <2>1, <3>2
      <4>2. ASSUME More'
            PROVE  place'[2] \in DOMAIN Addresses[Current']
        <5>1. 1 \in DOMAIN Order'
          BY <2>1, <3>2, <4>2 DEF More
        <5>2. PICK first \in Modifications : first = Order'[1]
          BY <2>1, <5>1
        <5>3. 1 \in DOMAIN Addresses[first]
          BY PlacesOfModification
        <5> QED BY <3>2, <5>2, <5>3 DEF Current
      <4> QED BY <4>1, <4>2
    <3> QED BY <1>11, <3>1, <3>2
  <2>3. Mapped' = Mapped /\ Pages' = Pages
    BY <1>11 DEF Mapped, Pages
  <2>4. TypeOK'
    BY <1>1, <1>11, <2>2, <2>3 DEF TypeOK
  <2> QED BY <1>11, <2>4 DEF RegistryInvariant
<1>12. CASE InstallAll \/ ApplyCrashes \/ HeapCrashes \/ RevertCrashes
  BY <1>1, <1>11, <1>12 DEF InstallAll, ApplyCrashes, HeapCrashes, RevertCrashes, TypeOK
<1>13. CASE InstallFails
  <2>1. ~applied'
    BY <1>13 DEF InstallFails, RegistryInvariant
  <2> QED BY <1>1, <1>11, <1>13, <2>1 DEF InstallFails, TypeOK
<1>14. CASE Installed \/ Removed
  <2>1. More' <=> More
    BY <1>14, SamePlacePassed DEF Installed, Removed
  <2> QED BY <1>1, <1>11, <1>14, <2>1 DEF Installed, Removed, TypeOK
<1>15. CASE RemoveAll
  BY <1>1, <1>11, <1>15 DEF RemoveAll, TypeOK
<1>16. CASE UNCHANGED vars
  BY <1>16
  DEF RegistryInvariant, TypeOK, vars, Order, More, Current, Mapped, Pages
<1> QED
  BY <1>2, <1>4, <1>7, <1>8, <1>9, <1>10, <1>12, <1>13, <1>14, <1>15, <1>16 DEF Next, Finished

\* Every variable has its type, for every constant that meets the assumptions.
THEOREM TypeCorrect == Spec => []TypeOK
<1>1. RegistryInvariant => TypeOK
  BY DEF RegistryInvariant
<1> QED BY <1>1, InitRegistry, NextRegistry, PTL DEF Spec

-------------------------------------------------------------------------------
(* Pages and buffers.                                                        *)

\* What is mapped, where the image is, and whether Windows refuses, never change.
LEMMA MappedKept ==
  ASSUME [Next]_vars
  PROVE  /\ Mapped' = Mapped /\ Pages' = Pages
         /\ global_module' = global_module /\ windows_refuses' = windows_refuses
<1>1. global_module' = global_module /\ windows_refuses' = windows_refuses
  BY DEF Next, vars, Register, InstallAll, InstallFails, Skip, ApplyPatch, ApplyCrashes,
     ApplyDetour, HeapCrashes, Installed, RemoveAll, RevertPatch, RevertUnmapped, RevertCrashes,
     RevertDetour, Removed, Finished
<1>2. memory' = memory \/ \E m, i, buffer : memory' = Written(m, i, buffer)
  BY DEF Next, vars, Register, InstallAll, InstallFails, Skip, ApplyPatch, ApplyCrashes,
     ApplyDetour, HeapCrashes, Installed, RemoveAll, RevertPatch, RevertUnmapped, RevertCrashes,
     RevertDetour, Removed, Finished, Overwrite
<1>3. Mapped' = Mapped
  BY <1>2 DEF Written, Mapped
<1> QED BY <1>1, <1>3 DEF Pages

\* An overwrite that Windows does not refuse leaves the pages as they were.
LEMMA NextProtectionKept ==
  RegistryInvariant /\ ProtectionKept /\ [Next]_vars => ProtectionKept'
<1> SUFFICES ASSUME RegistryInvariant, ProtectionKept, [Next]_vars, ~windows_refuses'
             PROVE  \A page \in Pages' : protection'[page] = "initial"
  BY DEF ProtectionKept
<1>1. windows_refuses' = windows_refuses
  BY MappedKept
<1>2. TypeOK /\ Pages' = Pages
  BY MappedKept DEF RegistryInvariant
<1>3. \A page \in Pages : protection[page] = "initial"
  BY <1>1 DEF ProtectionKept
<1>4. ASSUME NEW m \in Modifications, NEW i \in DOMAIN Addresses[m],
             ~Unset(m, i), Readable(m, i), NEW buffer, Overwrite(m, i, buffer)
      PROVE  \A page \in Pages : protection'[page] = "initial"
  <2>1. protection[Target(m, i) \div PageSize] = "initial"
    BY <1>2, <1>3, <1>4, TargetIsAddress DEF Readable, Pages
  <2>2. \/ protection' = protection
        \/ protection' = Protected(m, i, "initial")
    BY <1>1, <1>4, <2>1 DEF Overwrite
  <2> QED BY <1>3, <2>2 DEF Protected
<1>5. CASE ApplyPatch
  <2>1. PICK m, i, buffer : m = Current /\ i = place[2] /\ buffer = Patch(m)
    OBVIOUS
  <2>2. More /\ ~Unset(m, i) /\ Readable(m, i) /\ Overwrite(m, i, buffer)
    BY <1>5, <2>1 DEF ApplyPatch
  <2>3. m \in Modifications /\ i \in DOMAIN Addresses[m]
    BY <2>1, <2>2, CurrentIsModification
  <2> QED BY <1>2, <1>4, <2>2, <2>3
<1>6. CASE RevertPatch
  <2>1. PICK m, i : m = Current /\ i = place[2]
    OBVIOUS
  <2>2. PICK buffer : More /\ ~Unset(m, i) /\ Readable(m, i) /\ Overwrite(m, i, buffer)
    BY <1>6, <2>1 DEF RevertPatch
  <2>3. m \in Modifications /\ i \in DOMAIN Addresses[m]
    BY <2>1, <2>2, CurrentIsModification
  <2> QED BY <1>2, <1>4, <2>2, <2>3
<1>7. CASE ~ApplyPatch /\ ~RevertPatch
  <2>1. protection' = protection
    BY <1>7
    DEF Next, vars, Register, InstallAll, InstallFails, Skip, ApplyCrashes, ApplyDetour,
        HeapCrashes, Installed, RemoveAll, RevertUnmapped, RevertCrashes, RevertDetour,
        Removed, Finished
  <2> QED BY <1>2, <1>3, <2>1
<1> QED BY <1>5, <1>6, <1>7

\* No page keeps another protection, for every constant that meets the
\* assumptions.
THEOREM ProtectionAlwaysKept == Spec => []ProtectionKept
<1>1. Init => ProtectionKept
  BY DEF Init, ProtectionKept
<1> QED BY <1>1, InitRegistry, NextRegistry, NextProtectionKept, PTL DEF Spec

\* What RemoveAll relies on at the places of an array: once the loops of the
\* apply have been there, there is a snapshot, whatever Windows refused.
ArraysSaved ==
  applied =>
    \A k \in DOMAIN Order : \A i \in DOMAIN Addresses[Order[k]] :
      /\ Kind[Order[k]] = "array"
      /\ pc \in {"installed", "revert", "removed"} \/ (pc = "apply" /\ Passed(k, i))
      => originals[Order[k]][i] # Null

\* A turn of the apply saves at its place, and a revert takes no snapshot away.
LEMMA NextArraysSaved == RegistryInvariant /\ ArraysSaved /\ [Next]_vars => ArraysSaved'
<1> SUFFICES ASSUME RegistryInvariant, ArraysSaved, [Next]_vars, applied',
                    NEW k \in DOMAIN Order', NEW i \in DOMAIN Addresses[Order'[k]],
                    Kind[Order'[k]] = "array",
                    \/ pc' \in {"installed", "revert", "removed"}
                    \/ pc' = "apply" /\ Passed(k, i)'
             PROVE  originals'[Order'[k]][i] # Null
  BY DEF ArraysSaved
<1>1. TypeOK /\ Order \in Seq(Modifications)
  BY OrderOfModifications DEF RegistryInvariant
<1>2. ASSUME UNCHANGED <<registered, originals, applied>>,
             \/ pc \in {"installed", "revert", "removed"}
             \/ pc = "apply" /\ Passed(k, i)
      PROVE  originals'[Order'[k]][i] # Null
  BY <1>2 DEF ArraysSaved, Order
<1>3. ASSUME NEW m, m = Current, NEW j, j = place[2], More, NextPlace,
             UNCHANGED <<registered, applied>>,
             NEW saved, saved = Null \/ saved \in Buffers(m),
             originals' = [originals EXCEPT ![m][j] = saved],
             pc' = pc,
             \/ pc = "apply" /\ saved # Null
             \/ pc = "revert" /\ Kind[m] # "array"
      PROVE  originals'[Order'[k]][i] # Null
  <2>1. m \in Modifications /\ j \in DOMAIN Addresses[m] /\ place[1] \in DOMAIN Order
    BY <1>3, CurrentIsModification
  <2>2. Order' = Order /\ (Passed(k, i)' => Passed(k, i) \/ (k = place[1] /\ i = place[2]))
    <3>1. Order' = Order
      BY <1>3 DEF Order
    <3> QED BY <1>3, <3>1, NextPlacePassed
  <2>3. Order[k] \in Modifications
    BY <1>1, <2>2
  <2>4. originals'[Order[k]][i] = IF Order[k] = m /\ i = j THEN saved ELSE originals[Order[k]][i]
    BY <1>3, <2>1, <2>2, <2>3, BufferReplaced
  <2>5. CASE Order[k] = m /\ i = j
    BY <1>3, <2>2, <2>4, <2>5
  <2>6. CASE ~(Order[k] = m /\ i = j)
    <3>1. pc \in {"installed", "revert", "removed"} \/ (pc = "apply" /\ Passed(k, i))
      BY <1>3, <2>2, <2>6 DEF Current
    <3> QED BY <1>3, <2>2, <2>4, <2>6, <3>1 DEF ArraysSaved
  <2> QED BY <2>5, <2>6
<1>4. CASE InstallAll
  <2>1. place' = <<1, 1>> /\ pc' = "apply" /\ Order' = Order
    BY <1>4 DEF InstallAll, RegistryInvariant, Order
  <2>2. k \in Nat \ {0} /\ i \in Nat \ {0}
    <3>1. Order[k] \in Modifications
      BY <1>1, <2>1
    <3> QED BY <1>1, <2>1, <3>1, PlacesOfModification
  <2> QED BY <2>1, <2>2 DEF Passed
<1>5. CASE ApplyPatch
  <2>1. PICK m, j, saved : m = Current /\ j = place[2] /\ saved = Snapshot(m, j)
    OBVIOUS
  <2>2. /\ More /\ NextPlace /\ pc = "apply" /\ pc' = pc
        /\ ~Unset(m, j) /\ Readable(m, j)
        /\ originals' = [originals EXCEPT ![m][j] = saved]
        /\ UNCHANGED <<registered, applied>>
    BY <1>5, <2>1 DEF ApplyPatch
  <2>3. m \in Modifications /\ j \in DOMAIN Addresses[m]
    BY <2>1, <2>2, CurrentIsModification
  <2>4. saved \in Buffers(m) /\ saved # Null
    BY <1>1, <2>1, <2>2, <2>3, SnapshotIsBuffer
  <2> QED BY <1>3, <2>1, <2>2, <2>4
<1>6. ASSUME UNCHANGED <<registered, originals, applied, pc>>, More, NextPlace,
             Kind[Current] # "array" \/ pc = "revert"
      PROVE  originals'[Order'[k]][i] # Null
  <2>1. Order' = Order /\ (Passed(k, i)' => Passed(k, i) \/ (k = place[1] /\ i = place[2]))
    <3>1. Order' = Order
      BY <1>6 DEF Order
    <3> QED BY <1>6, <3>1, NextPlacePassed
  <2>2. k = place[1] => Current = Order'[k]
    BY <2>1 DEF Current
  <2>3. pc \in {"installed", "revert", "removed"} \/ (pc = "apply" /\ Passed(k, i))
    BY <1>6, <2>1, <2>2
  <2> QED BY <1>2, <1>6, <2>3
<1>7. CASE ApplyDetour
  <2>1. PICK m, j, saved : m = Current /\ j = place[2] /\ saved = Snapshot(m, j)
    OBVIOUS
  <2>2. /\ More /\ NextPlace /\ pc = "apply" /\ pc' = pc
        /\ ~Unset(m, j) /\ Readable(m, j) /\ Kind[m] = "detour"
        /\ originals' = [originals EXCEPT ![m][j] = saved] \/ originals' = originals
        /\ UNCHANGED <<registered, applied>>
    BY <1>7, <2>1 DEF ApplyDetour
  <2>3. m \in Modifications /\ j \in DOMAIN Addresses[m]
    BY <2>1, <2>2, CurrentIsModification
  <2>4. saved \in Buffers(m) /\ saved # Null
    BY <1>1, <2>1, <2>2, <2>3, SnapshotIsBuffer
  <2>5. CASE originals' = [originals EXCEPT ![m][j] = saved]
    BY <1>3, <2>1, <2>2, <2>4, <2>5
  <2>6. CASE originals' = originals
    BY <1>6, <2>1, <2>2, <2>6
  <2> QED BY <2>2, <2>5, <2>6
<1>8. CASE RevertDetour
  <2>1. PICK m, j, saved : m = Current /\ j = place[2] /\ saved = Null
    OBVIOUS
  <2>2. /\ More /\ NextPlace /\ pc = "revert" /\ pc' = pc
        /\ Kind[m] = "detour"
        /\ originals' = [originals EXCEPT ![m][j] = saved] \/ originals' = originals
        /\ UNCHANGED <<registered, applied>>
    BY <1>8, <2>1 DEF RevertDetour
  <2>3. CASE originals' = [originals EXCEPT ![m][j] = saved]
    BY <1>3, <2>1, <2>2, <2>3
  <2>4. CASE originals' = originals
    BY <1>6, <2>1, <2>2, <2>4
  <2> QED BY <2>2, <2>3, <2>4
<1>9. CASE Skip \/ RevertPatch \/ RevertUnmapped
  BY <1>6, <1>9 DEF Skip, Unset, RevertPatch, RevertUnmapped
<1>10. CASE Installed
  <2>1. ~More /\ pc = "apply" /\ place[1] \in 1 .. Len(Order) + 1
    BY <1>1, <1>10 DEF Installed, TypeOK
  <2>2. Order' = Order /\ k \in 1 .. Len(Order) /\ Len(Order) \in Nat
    <3>1. Order' = Order
      BY <1>10 DEF Installed, Order
    <3> QED BY <1>1, <3>1
  <2>3. Passed(k, i)
    BY <2>1, <2>2 DEF More, Passed
  <2> QED BY <1>2, <1>10, <2>1, <2>3 DEF Installed
<1>11. CASE RemoveAll \/ Removed
  BY <1>2, <1>11 DEF RemoveAll, Removed
<1>12. CASE InstallFails \/ \E m \in Modifications : Register(m)
  BY <1>12 DEF InstallFails, Register, RegistryInvariant
<1>13. CASE UNCHANGED vars
  BY <1>2, <1>13, SamePlacePassed DEF vars
<1>14. CASE ApplyCrashes \/ HeapCrashes \/ RevertCrashes
  BY <1>14 DEF ApplyCrashes, HeapCrashes, RevertCrashes
<1> QED
  BY <1>4, <1>5, <1>7, <1>8, <1>9, <1>10, <1>11, <1>12, <1>13, <1>14 DEF Next, Finished

\* RemoveAll gets through, for every constant that meets the assumptions.
THEOREM RevertAlwaysGetsThrough == Spec => RevertGetsThrough
<1>1. Init => ArraysSaved
  BY DEF Init, ArraysSaved
<1>2. ASSUME RegistryInvariant, ArraysSaved, [Next]_vars, pc = "revert", applied, ~Overrun,
             pc' = "crashed"
      PROVE  FALSE
  <2>1. RevertCrashes
    BY <1>2
    DEF Next, vars, Register, InstallAll, InstallFails, Skip, ApplyPatch, ApplyCrashes, ApplyDetour,
        HeapCrashes, Installed, RemoveAll, RevertPatch, RevertUnmapped, RevertDetour, Removed,
        Finished
  <2>2. More /\ Kind[Current] = "array" /\ originals[Current][place[2]] = Null
    BY <2>1 DEF RevertCrashes
  <2>3. place[1] \in DOMAIN Order /\ place[2] \in DOMAIN Addresses[Order[place[1]]]
    BY <1>2, <2>2, CurrentIsModification DEF Current
  <2> QED BY <1>2, <2>2, <2>3 DEF ArraysSaved, Current
<1>3. RegistryInvariant /\ ArraysSaved /\ [Next]_vars =>
        [pc = "revert" /\ applied /\ ~Overrun => pc' # "crashed"]_vars
  BY <1>2
<1> QED
  BY <1>1, <1>3, InitRegistry, NextRegistry, NextArraysSaved, PTL DEF Spec, RevertGetsThrough

-------------------------------------------------------------------------------
(* What apply leaves in memory.                                              *)

\* The loops have been at a place of that modification that covers the address.
Reached(k, address) ==
  \E i \in DOMAIN Addresses[Order[k]] : Passed(k, i) /\ address \in Bytes(Order[k], i)

\* ModificationsInPlace speaks of the end of an apply; on the way there, a byte is
\* that of the last modification the loops have reached it for.
InPlace ==
  pc \in {"load", "apply", "installed"} /\ ~windows_refuses =>
    \A address \in Mapped :
      \/ /\ memory[address] = "original"
         /\ \A k \in DOMAIN Order : ~Reached(k, address)
      \/ \E k \in DOMAIN Order :
           /\ memory[address] = Order[k]
           /\ Reached(k, address)
           /\ \A l \in DOMAIN Order : Reached(l, address) => l <= k

\* While a call, a detour or a patch is applied nothing else is reached.
LEMMA NextPlaceReached ==
  ASSUME RegistryInvariant, More, NextPlace, UNCHANGED <<registered, global_module>>,
         NEW k \in DOMAIN Order, NEW address
  PROVE  Reached(k, address)' <=>
           Reached(k, address) \/ (k = place[1] /\ address \in Bytes(Current, place[2]))
<1>1. /\ Order' = Order
      /\ \A i \in DOMAIN Addresses[Order[k]] :
           Passed(k, i)' <=> Passed(k, i) \/ (k = place[1] /\ i = place[2])
  BY NextPlacePassed
<1>2. place[2] \in DOMAIN Addresses[Order[place[1]]]
  BY CurrentIsModification DEF Current
<1>3. \A m, i : Bytes(m, i)' = Bytes(m, i)
  BY DEF Bytes, Unset, Target
<1>4. Reached(k, address)' <=>
        \E i \in DOMAIN Addresses[Order[k]] : Passed(k, i)' /\ address \in Bytes(Order[k], i)
  BY <1>1, <1>3 DEF Reached
<1> QED BY <1>1, <1>2, <1>4 DEF Reached, Current

\* At the first place nothing has been reached.
LEMMA NothingReached ==
  ASSUME RegistryInvariant, place = <<1, 1>>, NEW k \in DOMAIN Order, NEW address
  PROVE  ~Reached(k, address)
<1>1. Order \in Seq(Modifications)
  BY OrderOfModifications DEF RegistryInvariant
<1>2. k \in Nat \ {0} /\ Order[k] \in Modifications
  BY <1>1
<1>3. \A i \in DOMAIN Addresses[Order[k]] : i \in Nat \ {0}
  BY <1>2, PlacesOfModification
<1> QED BY <1>2, <1>3 DEF Reached, Passed

\* The place of the loops is covered last.
LEMMA NextInPlace == RegistryInvariant /\ InPlace /\ [Next]_vars => InPlace'
<1> SUFFICES ASSUME RegistryInvariant, InPlace, [Next]_vars,
                    pc' \in {"load", "apply", "installed"}, ~windows_refuses'
             PROVE  \A address \in Mapped' :
                      \/ /\ memory'[address] = "original"
                         /\ \A k \in DOMAIN Order' : ~Reached(k, address)'
                      \/ \E k \in DOMAIN Order' :
                           /\ memory'[address] = Order'[k]
                           /\ Reached(k, address)'
                           /\ \A l \in DOMAIN Order' : Reached(l, address)' => l <= k
  BY DEF InPlace
<1>1. /\ TypeOK
      /\ Order \in Seq(Modifications) /\ DOMAIN Order = 1 .. Len(Order) /\ Len(Order) \in Nat
      /\ RegistryInvariant'
  <2>1. Order \in Seq(Modifications)
    BY OrderOfModifications DEF RegistryInvariant
  <2> QED BY <2>1, NextRegistry DEF RegistryInvariant
<1>2. CASE UNCHANGED <<windows_refuses, global_module, registered, memory, place>>
  <2>1. \A k, address : Reached(k, address)' <=> Reached(k, address)
    BY <1>2 DEF Reached, Order, Passed, Bytes, Unset, Target
  <2>2. Order' = Order /\ Mapped' = Mapped
    BY <1>2 DEF Order, Mapped
  <2>3. pc \in {"load", "apply", "installed"}
    BY <1>2
    DEF Next, vars, Register, InstallAll, InstallFails, Skip, ApplyPatch, ApplyCrashes, ApplyDetour,
        HeapCrashes, Installed, RemoveAll, RevertPatch, RevertUnmapped, RevertCrashes,
        RevertDetour, Removed, Finished
  <2> QED BY <1>2, <2>1, <2>2, <2>3 DEF InPlace
<1>3. ASSUME NEW m \in Modifications, Register(m)
      PROVE  \A address \in Mapped' :
               memory'[address] = "original" /\ \A k \in DOMAIN Order' : ~Reached(k, address)'
  <2>1. /\ UNCHANGED <<memory, place>>
        /\ place = <<1, 1>> /\ \A address \in Mapped : memory[address] = "original"
    BY <1>3 DEF Register, RegistryInvariant
  <2>2. ASSUME NEW k \in DOMAIN Order', NEW address PROVE ~Reached(k, address)'
    <3>1. place' = <<1, 1>> /\ Order' \in Seq(Modifications)
      <4>1. registered' \in [Range(Kinds) -> Seq(Modifications)]
        BY <1>1 DEF RegistryInvariant
      <4>2. /\ registered'["call"] \in Seq(Modifications)
            /\ registered'["detour"] \in Seq(Modifications)
            /\ registered'["patch"] \in Seq(Modifications)
            /\ registered'["array"] \in Seq(Modifications)
        BY <4>1, KindsAreFour
      <4> QED BY <2>1, <4>2 DEF Order
    <3>2. k \in Nat \ {0} /\ Order'[k] \in Modifications
      BY <2>2, <3>1
    <3>3. \A i \in DOMAIN Addresses[Order'[k]] : i \in Nat \ {0}
      BY <3>2, PlacesOfModification
    <3> QED BY <3>1, <3>2, <3>3 DEF Reached, Passed
  <2> QED BY <2>1, <2>2 DEF Mapped
<1>4. CASE ApplyPatch \/ ApplyDetour
  <2>1. PICK m, i, patch : m = Current /\ i = place[2] /\ patch = Patch(m)
    OBVIOUS
  <2>2. /\ More /\ NextPlace /\ pc = "apply"
        /\ UNCHANGED <<windows_refuses, registered, global_module>>
        /\ ~windows_refuses
        /\ memory' = Written(m, i, patch)
    BY <1>4, <2>1 DEF ApplyPatch, ApplyDetour, Overwrite
  <2>3. /\ m \in Modifications /\ i \in DOMAIN Addresses[m] /\ patch \in Buffers(m)
        /\ place[1] \in DOMAIN Order
        /\ m = Order[place[1]]
    BY <2>1, <2>2, CurrentIsModification, PatchIsBuffer DEF Current
  <2>4. Order' = Order
    BY <2>2 DEF Order
  <2>5. /\ Mapped' = Mapped
        /\ \A address \in Mapped :
             memory'[address] = IF address \in Bytes(m, i) THEN m ELSE memory[address]
    <3>1. \A address \in Bytes(m, i) : patch[address - Target(m, i)] = m
      BY <1>1, <2>1, <2>3, TargetIsAddress DEF Patch
    <3> QED BY <1>1, <2>2, <2>3, <3>1, WrittenBytes DEF Mapped
  <2>6. \A k \in DOMAIN Order : \A address :
          Reached(k, address)' <=>
            Reached(k, address) \/ (k = place[1] /\ address \in Bytes(m, i))
    BY <2>1, <2>2, NextPlaceReached
  <2>7. \A k \in DOMAIN Order : \A address : Reached(k, address) => k <= place[1]
    BY <1>1, <2>3 DEF Reached, Passed
  <2>8. ASSUME NEW address \in Mapped
        PROVE  \/ /\ memory'[address] = "original"
                  /\ \A k \in DOMAIN Order : ~Reached(k, address)'
               \/ \E k \in DOMAIN Order :
                    /\ memory'[address] = Order[k]
                    /\ Reached(k, address)'
                    /\ \A l \in DOMAIN Order : Reached(l, address)' => l <= k
    <3>1. CASE address \in Bytes(m, i)
      <4>1. \A l \in DOMAIN Order : Reached(l, address)' => l <= place[1]
        BY <1>1, <2>3, <2>6, <2>7
      <4> QED BY <2>3, <2>5, <2>6, <3>1, <4>1
    <3>2. CASE address \notin Bytes(m, i)
      <4>1. \A k \in DOMAIN Order : Reached(k, address)' <=> Reached(k, address)
        BY <2>6, <3>2
      <4>2. \/ /\ memory[address] = "original"
               /\ \A k \in DOMAIN Order : ~Reached(k, address)
            \/ \E k \in DOMAIN Order :
                 /\ memory[address] = Order[k]
                 /\ Reached(k, address)
                 /\ \A l \in DOMAIN Order : Reached(l, address) => l <= k
        BY <2>2, <2>8 DEF InPlace
      <4> QED BY <2>5, <3>2, <4>1, <4>2
    <3> QED BY <3>1, <3>2
  <2> QED BY <2>4, <2>5, <2>8
<1>5. CASE Skip
  <2>1. /\ More /\ NextPlace /\ pc = "apply" /\ Bytes(Current, place[2]) = {}
        /\ UNCHANGED <<windows_refuses, global_module, registered, memory>>
    BY <1>5 DEF Skip, Bytes
  <2>2. \A k \in DOMAIN Order : \A address : Reached(k, address)' <=> Reached(k, address)
    BY <2>1, NextPlaceReached
  <2>3. Order' = Order /\ Mapped' = Mapped
    BY <2>1 DEF Order, Mapped
  <2> QED BY <2>1, <2>2, <2>3 DEF InPlace
<1> QED
  BY <1>2, <1>3, <1>4, <1>5
  DEF Next, vars, InstallAll, InstallFails, ApplyCrashes, HeapCrashes, Installed, RemoveAll,
      RevertPatch, RevertUnmapped, RevertCrashes, RevertDetour, Removed, Finished

\* The arithmetic of the code finds the address a declaration means.
LEMMA TargetIsMeant ==
  ASSUME TypeOK, NEW m \in Modifications, NEW i \in DOMAIN Addresses[m]
  PROVE  Meant(m, i) = Target(m, i)
<1>1. CASE Kind[m] = "array"
  BY <1>1 DEF Meant, Target
<1>2. CASE Kind[m] # "array"
  <2>1. PICK va \in Nat : va = Addresses[m][i]
    BY PlacesOfModification
  <2>2. i = 1
    BY <1>2, PlacesOfModification, HookAssumption
  <2>3. PICK offset : offset = IF va >= PreferredBase THEN va - PreferredBase ELSE va
    OBVIOUS
  <2>4. offset \in Nat /\ offset < LongModulus /\ LongModulus \in Nat
    BY <1>2, <2>1, <2>2, <2>3, OffsetsAssumption, HookAssumption
  <2>5. Rva(va) = offset
    <3>1. offset % LongModulus = offset
      BY <2>4
    <3> QED BY <2>3, <3>1 DEF Rva
  <2>6. global_module \in Nat /\ PreferredBase \in Nat
    BY HookAssumption DEF TypeOK
  <2> QED BY <1>2, <2>1, <2>3, <2>5, <2>6 DEF Meant, Target
<1> QED BY <1>1, <1>2

\* What covers an address is what writes it.
LEMMA CoveringPlaces ==
  ASSUME RegistryInvariant, NEW address
  PROVE  /\ \A c \in Covering(address) :
              \E k \in DOMAIN Order :
                /\ c[1] = Order[k] /\ c[2] \in DOMAIN Addresses[Order[k]]
                /\ c = <<c[1], c[2]>>
                /\ address \in Bytes(Order[k], c[2])
         /\ \A k \in DOMAIN Order : \A i \in DOMAIN Addresses[Order[k]] :
              address \in Bytes(Order[k], i) => <<Order[k], i>> \in Covering(address)
<1>1. TypeOK /\ Order \in Seq(Modifications)
  BY OrderOfModifications DEF RegistryInvariant
<1>2. \A k \in DOMAIN Order : Order[k] \in Modifications
  BY <1>1
<1>3. \A k \in DOMAIN Order : \A i \in DOMAIN Addresses[Order[k]] :
        Bytes(Order[k], i) =
          IF Kind[Order[k]] = "array" \/ Meant(Order[k], i) \notin {0, Marker}
          THEN Meant(Order[k], i) .. Meant(Order[k], i) + ByteCount[Order[k]] - 1
          ELSE {}
  BY <1>1, <1>2, TargetIsMeant DEF Bytes, Unset
<1>4. ASSUME NEW c \in Covering(address)
      PROVE  \E k \in DOMAIN Order :
               /\ c[1] = Order[k] /\ c[2] \in DOMAIN Addresses[Order[k]]
               /\ c = <<c[1], c[2]>>
               /\ address \in Bytes(Order[k], c[2])
  <2>1. PICK m \in Range(Order) : c \in {m} \X DOMAIN Addresses[m]
    BY DEF Covering
  <2>2. PICK k \in DOMAIN Order : m = Order[k]
    BY <2>1 DEF Range
  <2>3. /\ Kind[c[1]] = "array" \/ Meant(c[1], c[2]) \notin {0, Marker}
        /\ address \in Meant(c[1], c[2]) .. Meant(c[1], c[2]) + ByteCount[c[1]] - 1
    BY DEF Covering
  <2>4. c[1] = Order[k] /\ c[2] \in DOMAIN Addresses[Order[k]] /\ c = <<c[1], c[2]>>
    BY <2>1, <2>2
  <2> QED BY <1>3, <2>3, <2>4
<1>5. ASSUME NEW k \in DOMAIN Order, NEW i \in DOMAIN Addresses[Order[k]],
             address \in Bytes(Order[k], i)
      PROVE  <<Order[k], i>> \in Covering(address)
  <2>1. PICK m : m = Order[k]
    OBVIOUS
  <2>2. m \in Range(Order) /\ <<m, i>> \in {m} \X DOMAIN Addresses[m]
    BY <2>1 DEF Range
  <2>3. /\ Kind[m] = "array" \/ Meant(m, i) \notin {0, Marker}
        /\ address \in Meant(m, i) .. Meant(m, i) + ByteCount[m] - 1
    BY <1>3, <1>5, <2>1
  <2> QED BY <2>1, <2>2, <2>3 DEF Covering
<1> QED BY <1>4, <1>5

\* Past the end of the loops every place has been passed.
LEMMA EveryPlacePassed ==
  ASSUME RegistryInvariant, ~More, NEW k \in DOMAIN Order, NEW i
  PROVE  Passed(k, i)
<1>1. Order \in Seq(Modifications)
  BY OrderOfModifications DEF RegistryInvariant
<1>2. k \in 1 .. Len(Order) /\ Len(Order) \in Nat /\ place[1] \in 1 .. Len(Order) + 1
  BY <1>1 DEF RegistryInvariant, TypeOK
<1> QED BY <1>2 DEF More, Passed

\* The greatest of the indexes is the one that is not less than any.
LEMMA GreatestIndex ==
  ASSUME NEW S \in SUBSET Nat, NEW k \in S, \A l \in S : l <= k
  PROVE  k = Max(S)
<1>1. \A x \in S : (\A y \in S : x >= y) => x = k
  OBVIOUS
<1>2. \E x \in S : \A y \in S : x >= y
  OBVIOUS
<1> QED BY <1>1, <1>2 DEF Max

\* Modifications are in place, for every constant that meets the assumptions.
THEOREM ModificationsAlwaysInPlace == Spec => []ModificationsInPlace
<1>1. Init => InPlace
  <2> SUFFICES ASSUME Init PROVE InPlace
    OBVIOUS
  <2>1. RegistryInvariant /\ place = <<1, 1>>
    BY InitRegistry DEF Init
  <2>2. \A address \in Mapped : memory[address] = "original"
    BY <2>1 DEF RegistryInvariant, Init
  <2> QED BY <2>1, <2>2, NothingReached DEF InPlace
<1>2. RegistryInvariant /\ InPlace => ModificationsInPlace
  <2> SUFFICES ASSUME RegistryInvariant, InPlace, pc = "installed", applied, ~windows_refuses,
                      NEW address \in Mapped
               PROVE  IF Covering(address) = {}
                      THEN memory[address] = "original"
                      ELSE \E k \in DOMAIN Order :
                             /\ memory[address] = Order[k]
                             /\ k = Max({l \in DOMAIN Order :
                                           \E c \in Covering(address) : c[1] = Order[l]})
    BY DEF ModificationsInPlace
  <2> DEFINE L == {l \in DOMAIN Order : \E c \in Covering(address) : c[1] = Order[l]}
  <2>1. Order \in Seq(Modifications) /\ ~More
    BY OrderOfModifications DEF RegistryInvariant
  <2>2. ASSUME NEW k \in DOMAIN Order
        PROVE  Reached(k, address) <=> k \in L
    <3>1. ASSUME Reached(k, address) PROVE k \in L
      <4>1. PICK i \in DOMAIN Addresses[Order[k]] : address \in Bytes(Order[k], i)
        BY <3>1 DEF Reached
      <4>2. PICK m : m = Order[k]
        OBVIOUS
      <4>3. <<m, i>> \in Covering(address) /\ <<m, i>>[1] = Order[k]
        BY <4>1, <4>2, CoveringPlaces
      <4> QED BY <4>3
    <3>2. ASSUME k \in L PROVE Reached(k, address)
      <4>1. PICK c \in Covering(address) : c[1] = Order[k]
        BY <3>2
      <4>2. c[2] \in DOMAIN Addresses[Order[k]] /\ address \in Bytes(Order[k], c[2])
        BY <4>1, CoveringPlaces
      <4>3. Passed(k, c[2])
        BY <2>1, EveryPlacePassed
      <4> QED BY <4>2, <4>3 DEF Reached
    <3> QED BY <3>1, <3>2
  <2>3. CASE \A k \in DOMAIN Order : ~Reached(k, address)
    <3>1. Covering(address) = {}
      BY <2>2, <2>3, CoveringPlaces
    <3>2. memory[address] = "original"
      BY <2>3 DEF InPlace
    <3> QED BY <3>1, <3>2
  <2>4. CASE \E k \in DOMAIN Order : Reached(k, address)
    <3>1. PICK k \in DOMAIN Order :
            /\ memory[address] = Order[k]
            /\ Reached(k, address)
            /\ \A l \in DOMAIN Order : Reached(l, address) => l <= k
      BY <2>4 DEF InPlace
    <3>2. k \in L /\ (\A l \in L : l <= k) /\ L \in SUBSET Nat
      BY <2>1, <2>2, <3>1
    <3>3. Covering(address) # {}
      BY <3>2
    <3>4. k = Max(L)
      <4> HIDE DEF L
      <4> QED BY <3>2, GreatestIndex
    <3> QED BY <3>1, <3>3, <3>4
  <2> QED BY <2>3, <2>4
<1> QED
  BY <1>1, <1>2, InitRegistry, NextRegistry, NextInPlace, PTL DEF Spec

-------------------------------------------------------------------------------
(* What revert leaves in memory.                                             *)

\* Two lists without a common member, put one behind the other.
LEMMA JoinedLists ==
  ASSUME NEW s \in Seq(Modifications), NEW t \in Seq(Modifications),
         IsInjective(s), IsInjective(t), \A m \in Range(s) : m \notin Range(t)
  PROVE  /\ s \o t \in Seq(Modifications)
         /\ IsInjective(s \o t)
         /\ \A m \in Range(s \o t) : m \in Range(s) \/ m \in Range(t)
<1>1. /\ Len(s) \in Nat /\ DOMAIN s = 1 .. Len(s)
      /\ Len(t) \in Nat /\ DOMAIN t = 1 .. Len(t)
      /\ s \o t \in Seq(Modifications)
      /\ DOMAIN (s \o t) = 1 .. Len(s) + Len(t)
      /\ \A i \in 1 .. Len(s) + Len(t) :
           (s \o t)[i] = IF i <= Len(s) THEN s[i] ELSE t[i - Len(s)]
  OBVIOUS
<1>2. PICK joined : joined = s \o t
  OBVIOUS
<1>3. ASSUME NEW i \in DOMAIN joined
      PROVE  \/ i \in DOMAIN s /\ joined[i] = s[i]
             \/ ~(i \in DOMAIN s) /\ i - Len(s) \in DOMAIN t /\ joined[i] = t[i - Len(s)]
  BY <1>1, <1>2, <1>3
<1>4. ASSUME NEW i \in DOMAIN joined, NEW j \in DOMAIN joined, joined[i] = joined[j]
      PROVE  i = j
  <2>1. i \in Int /\ j \in Int
    BY <1>1, <1>2, <1>4
  <2>2. \A m \in DOMAIN s : \A n \in DOMAIN t : s[m] # t[n]
    BY DEF Range
  <2>3. CASE i \in DOMAIN s /\ j \in DOMAIN s
    BY <1>3, <1>4, <2>3 DEF IsInjective
  <2>4. CASE i \notin DOMAIN s /\ j \notin DOMAIN s
    <3>1. i - Len(s) = j - Len(s)
      BY <1>3, <1>4, <2>4 DEF IsInjective
    <3> QED BY <1>1, <2>1, <3>1
  <2> QED BY <1>3, <1>4, <2>2, <2>3, <2>4
<1>5. \A m \in Range(joined) : m \in Range(s) \/ m \in Range(t)
  BY <1>3 DEF Range
<1> QED BY <1>1, <1>2, <1>4, <1>5 DEF IsInjective

\* No modification is in the order twice: none is of two kinds.
LEMMA OrderInjective ==
  ASSUME RegistryInvariant
  PROVE  IsInjective(Order)
<1> DEFINE calls   == registered["call"]
           detours == registered["detour"]
           patches == registered["patch"]
           arrays  == registered["array"]
<1>1. /\ calls \in Seq(Modifications) /\ detours \in Seq(Modifications)
      /\ patches \in Seq(Modifications) /\ arrays \in Seq(Modifications)
  BY KindsAreFour DEF RegistryInvariant
<1>2. /\ IsInjective(calls) /\ IsInjective(detours) /\ IsInjective(patches) /\ IsInjective(arrays)
      /\ \A m \in Range(calls) : Kind[m] = "call"
      /\ \A m \in Range(detours) : Kind[m] = "detour"
      /\ \A m \in Range(patches) : Kind[m] = "patch"
      /\ \A m \in Range(arrays) : Kind[m] = "array"
  BY KindsAreFour DEF RegistryInvariant, TypeOK
<1>3. Order = ((calls \o detours) \o patches) \o arrays
  BY DEF Order
<1> HIDE DEF calls, detours, patches, arrays
<1>4. /\ calls \o detours \in Seq(Modifications) /\ IsInjective(calls \o detours)
      /\ \A m \in Range(calls \o detours) : Kind[m] \in {"call", "detour"}
  BY <1>1, <1>2, JoinedLists
<1>5. /\ (calls \o detours) \o patches \in Seq(Modifications)
      /\ IsInjective((calls \o detours) \o patches)
      /\ \A m \in Range((calls \o detours) \o patches) : Kind[m] \in {"call", "detour", "patch"}
  BY <1>1, <1>2, <1>4, JoinedLists
<1>6. IsInjective(((calls \o detours) \o patches) \o arrays)
  BY <1>1, <1>2, <1>5, JoinedLists
<1> QED BY <1>3, <1>6

\* A step writes to memory only at its place.
LEMMA OtherBytesKept ==
  ASSUME RegistryInvariant, [Next]_vars, NEW address \in Mapped,
         More => address \notin Bytes(Current, place[2])
  PROVE  memory'[address] = memory[address]
<1>1. CASE memory' = memory
  BY <1>1
<1>2. CASE More /\ \E buffer : memory' = Written(Current, place[2], buffer)
  BY <1>2 DEF Written
<1> QED
  BY <1>1, <1>2
  DEF Next, vars, Register, InstallAll, InstallFails, Skip, ApplyPatch, ApplyCrashes, ApplyDetour,
      HeapCrashes, Installed, RemoveAll, RevertPatch, RevertUnmapped, RevertCrashes,
      RevertDetour, Removed, Finished, Overwrite

\* And it replaces no buffer but the one of its place.
LEMMA OtherBuffersKept ==
  ASSUME RegistryInvariant, [Next]_vars, NEW m \in Modifications, NEW i \in DOMAIN Addresses[m],
         More => m # Current \/ i # place[2]
  PROVE  originals'[m][i] = originals[m][i]
<1>1. CASE originals' = originals
  BY <1>1
<1>2. ASSUME More, NEW saved, originals' = [originals EXCEPT ![Current][place[2]] = saved]
      PROVE  originals'[m][i] = originals[m][i]
  BY <1>2 DEF RegistryInvariant
<1> QED
  BY <1>1, <1>2
  DEF Next, vars, Register, InstallAll, InstallFails, Skip, ApplyPatch, ApplyCrashes, ApplyDetour,
      HeapCrashes, Installed, RemoveAll, RevertPatch, RevertUnmapped, RevertCrashes,
      RevertDetour, Removed, Finished

Uncovered(address) ==
  \A k \in DOMAIN Order : \A i \in DOMAIN Addresses[Order[k]] : address \notin Bytes(Order[k], i)

\* What no place covers is never written.
UncoveredOriginal ==
  \A address \in Mapped : Uncovered(address) => memory[address] = "original"

\* The only place that covers the address is one that saves its own bytes.
Sole(address, k, i) ==
  /\ address \in Bytes(Order[k], i)
  /\ Kind[Order[k]] # "patch"
  /\ \A l \in DOMAIN Order : \A j \in DOMAIN Addresses[Order[l]] :
       address \in Bytes(Order[l], j) => l = k /\ j = i

SavedOriginal(m, i, address) ==
  originals[m][i] # Null /\ originals[m][i][address - Target(m, i)] = "original"

\* Such a byte is the original or that of the modification, which has then what
\* to revert with.  Until the apply has been there it is the original; from then
\* on the buffer has the original, of a detour as long as it is attached; and once
\* the revert has been there it is the original again, unless Windows refuses.
Restorable(address, k, i) ==
  LET m == Order[k]
  IN  /\ \/ memory[address] = "original"
         \/ memory[address] = m /\ Readable(m, i) /\ originals[m][i] # Null
      /\ pc = "apply" /\ ~Passed(k, i) => memory[address] = "original"
      /\ Kind[m] = "detour" => originals[m][i] = Null \/ SavedOriginal(m, i, address)
      /\ /\ Kind[m] # "detour"
         /\ pc \in {"installed", "revert", "removed"} \/ (pc = "apply" /\ Passed(k, i))
         => SavedOriginal(m, i, address)
      /\ pc \in {"revert", "removed"} /\ ~windows_refuses /\ Passed(k, i)
         => memory[address] = "original"

SoleRestorable ==
  applied =>
    \A address \in Mapped : \A k \in DOMAIN Order : \A i \in DOMAIN Addresses[Order[k]] :
      Sole(address, k, i) => Restorable(address, k, i)

\* A step at a place writes to what the place covers.
LEMMA NextUncoveredOriginal ==
  RegistryInvariant /\ UncoveredOriginal /\ [Next]_vars => UncoveredOriginal'
<1> SUFFICES ASSUME RegistryInvariant, UncoveredOriginal, [Next]_vars,
                    NEW address \in Mapped', Uncovered(address)'
             PROVE  memory'[address] = "original"
  BY DEF UncoveredOriginal
<1>1. address \in Mapped /\ global_module' = global_module
  BY MappedKept
<1>2. CASE pc = "load"
  <2>1. memory' = memory
    BY <1>2
    DEF Next, vars, Register, InstallAll, InstallFails, Skip, ApplyPatch, ApplyCrashes, ApplyDetour,
        HeapCrashes, Installed, RemoveAll, RevertPatch, RevertUnmapped, RevertCrashes,
        RevertDetour, Removed, Finished
  <2> QED BY <1>1, <1>2, <2>1 DEF RegistryInvariant
<1>3. CASE pc # "load"
  <2>1. registered' = registered
    BY <1>3
    DEF Next, vars, Register, InstallAll, InstallFails, Skip, ApplyPatch, ApplyCrashes, ApplyDetour,
        HeapCrashes, Installed, RemoveAll, RevertPatch, RevertUnmapped, RevertCrashes,
        RevertDetour, Removed, Finished
  <2>2. Uncovered(address)
    BY <1>1, <2>1 DEF Uncovered, Order, Bytes, Unset, Target
  <2>3. More => address \notin Bytes(Current, place[2])
    BY <2>2, CurrentIsModification DEF Uncovered, Current
  <2>4. memory'[address] = memory[address]
    BY <1>1, <2>3, OtherBytesKept
  <2> QED BY <1>1, <2>2, <2>4 DEF UncoveredOriginal
<1> QED BY <1>2, <1>3

\* An apply that comes to the place finds the original there, and keeps it.
LEMMA ApplyRestorable ==
  ASSUME RegistryInvariant, [Next]_vars, ApplyPatch \/ ApplyDetour,
         NEW k \in DOMAIN Order, NEW i \in DOMAIN Addresses[Order[k]], NEW address \in Mapped,
         k = place[1], i = place[2], Sole(address, k, i), Restorable(address, k, i)
  PROVE  Restorable(address, k, i)'
<1>1. TypeOK /\ Order \in Seq(Modifications)
  BY OrderOfModifications DEF RegistryInvariant
<1>2. PICK m \in Modifications : m = Order[k]
  BY <1>1
<1>3. PICK saved, patch : saved = Snapshot(m, i) /\ patch = Patch(m)
  OBVIOUS
<1>4. /\ More /\ NextPlace /\ pc = "apply" /\ pc' = "apply"
      /\ UNCHANGED <<registered, global_module>>
      /\ ~Unset(m, i) /\ Readable(m, i)
      /\ m = Current
  BY <1>2 DEF ApplyPatch, ApplyDetour, Current
<1>5. i \in DOMAIN Addresses[m] /\ address \in Bytes(m, i)
  BY <1>2 DEF Sole
<1>6. k \in Nat /\ i \in Nat
  BY <1>1, <1>5, PlacesOfModification
<1>7. ~Passed(k, i)
  BY <1>6 DEF Passed
<1>8. memory[address] = "original"
  BY <1>4, <1>7 DEF Restorable
<1>9. saved \in Buffers(m) /\ saved # Null /\ saved[address - Target(m, i)] = "original"
  BY <1>1, <1>3, <1>4, <1>5, <1>8, SnapshotIsBuffer
<1>10. /\ Order' = Order
       /\ Target(m, i)' = Target(m, i)
       /\ Readable(m, i)'
       /\ Passed(k, i)'
  <2>1. Mapped' = Mapped
    BY MappedKept
  <2>2. Order' = Order /\ Target(m, i)' = Target(m, i) /\ Readable(m, i)'
    BY <1>4, <2>1 DEF Order, Target, Bytes, Unset, Readable
  <2>3. \A l \in DOMAIN Order : \A j \in DOMAIN Addresses[Order[l]] :
          Passed(l, j)' <=> Passed(l, j) \/ (l = place[1] /\ j = place[2])
    BY <1>4, NextPlacePassed
  <2>4. Passed(k, i)'
    BY <2>3
  <2> QED BY <2>2, <2>4
<1>11. /\ patch \in Buffers(m)
       /\ Written(m, i, patch)[address] = m
  <2>1. patch \in Buffers(m)
    BY <1>3, PatchIsBuffer
  <2>2. patch[address - Target(m, i)] = m
    BY <1>1, <1>3, <1>5, TargetIsAddress DEF Patch
  <2> QED BY <1>1, <1>5, <2>1, <2>2, WrittenBytes
<1>12. memory'[address] = m \/ memory'[address] = "original"
  <2>1. memory' = Written(m, i, patch) \/ memory' = memory
    BY <1>3, <1>4 DEF ApplyPatch, ApplyDetour, Overwrite
  <2> QED BY <1>8, <1>11, <2>1
<1>13. CASE originals' = [originals EXCEPT ![m][i] = saved]
  <2>1. originals'[m][i] = saved
    BY <1>5, <1>9, <1>13, BufferReplaced
  <2>2. SavedOriginal(m, i, address)'
    BY <1>9, <1>10, <2>1 DEF SavedOriginal
  <2> QED BY <1>2, <1>4, <1>9, <1>10, <1>12, <2>1, <2>2 DEF Restorable
<1>14. CASE ApplyDetour /\ originals' = originals /\ memory' = memory
  <2>1. Kind[m] = "detour"
    BY <1>4, <1>14 DEF ApplyDetour
  <2>2. SavedOriginal(m, i, address)' <=> SavedOriginal(m, i, address)
    BY <1>10, <1>14 DEF SavedOriginal
  <2> QED BY <1>2, <1>4, <1>8, <1>10, <1>14, <2>1, <2>2 DEF Restorable
<1>15. \/ originals' = [originals EXCEPT ![m][i] = saved]
       \/ ApplyDetour /\ originals' = originals /\ memory' = memory
  BY <1>3, <1>4 DEF ApplyPatch, ApplyDetour
<1> QED BY <1>13, <1>14, <1>15

\* A revert that comes to the place writes the original, if there is anything to
\* revert and Windows does not refuse.
LEMMA RevertRestorable ==
  ASSUME RegistryInvariant, [Next]_vars, RevertPatch \/ RevertUnmapped \/ RevertDetour,
         NEW k \in DOMAIN Order, NEW i \in DOMAIN Addresses[Order[k]], NEW address \in Mapped,
         k = place[1], i = place[2], Sole(address, k, i), Restorable(address, k, i)
  PROVE  Restorable(address, k, i)'
<1>1. TypeOK /\ Order \in Seq(Modifications)
  BY OrderOfModifications DEF RegistryInvariant
<1>2. PICK m \in Modifications : m = Order[k]
  BY <1>1
<1>3. PICK saved : saved = originals[m][i]
  OBVIOUS
<1>4. /\ More /\ NextPlace /\ pc = "revert" /\ pc' = "revert"
      /\ UNCHANGED <<registered, global_module, windows_refuses>>
      /\ m = Current
  BY <1>2 DEF RevertPatch, RevertUnmapped, RevertDetour, Current
<1>5. i \in DOMAIN Addresses[m] /\ address \in Bytes(m, i) /\ Kind[m] # "patch"
  BY <1>2 DEF Sole
<1>6. /\ Order' = Order
      /\ Target(m, i)' = Target(m, i)
      /\ Readable(m, i)' <=> Readable(m, i)
  <2>1. Mapped' = Mapped
    BY MappedKept
  <2> QED BY <1>4, <2>1 DEF Order, Target, Bytes, Unset, Readable
<1>7. /\ \/ memory[address] = "original"
         \/ memory[address] = m /\ Readable(m, i) /\ saved # Null
      /\ Kind[m] = "detour" => saved = Null \/ saved[address - Target(m, i)] = "original"
      /\ Kind[m] # "detour" => saved # Null /\ saved[address - Target(m, i)] = "original"
  BY <1>2, <1>3, <1>4 DEF Restorable, SavedOriginal
<1>8. ASSUME saved # Null
      PROVE  Written(m, i, saved)[address] = "original"
  <2>1. saved \in Buffers(m)
    BY <1>3, <1>5, <1>8 DEF RegistryInvariant
  <2> QED BY <1>1, <1>5, <1>7, <1>8, <2>1, WrittenBytes
<1>9. ASSUME originals' = originals,
             \/ memory'[address] = "original"
             \/ memory'[address] = memory[address] /\ windows_refuses
      PROVE  Restorable(address, k, i)'
  <2>1. SavedOriginal(m, i, address)' <=> SavedOriginal(m, i, address)
    BY <1>6, <1>9 DEF SavedOriginal
  <2> QED BY <1>2, <1>3, <1>4, <1>6, <1>7, <1>9, <2>1 DEF Restorable, SavedOriginal
<1>10. CASE RevertPatch
  <2>1. /\ Kind[m] # "detour" /\ originals' = originals
        /\ \E original \in Held(m, i) : Overwrite(m, i, original)
    BY <1>2, <1>4, <1>10 DEF RevertPatch, Current
  <2>2. Overwrite(m, i, saved)
    BY <1>3, <1>5, <2>1 DEF Held
  <2>3. memory' = Written(m, i, saved) \/ (windows_refuses /\ memory' = memory)
    BY <2>2 DEF Overwrite
  <2> QED BY <1>7, <1>8, <1>9, <2>1, <2>3
<1>11. CASE RevertUnmapped
  <2>1. ~Readable(m, i) /\ originals' = originals /\ memory' = memory
    BY <1>4, <1>11 DEF RevertUnmapped
  <2> QED BY <1>7, <1>9, <2>1
<1>12. CASE RevertDetour
  <2>1. \/ /\ saved # Null
           /\ originals' = [originals EXCEPT ![m][i] = Null]
           /\ memory' = Written(m, i, saved)
        \/ /\ saved = Null \/ windows_refuses
           /\ UNCHANGED <<originals, memory>>
    BY <1>3, <1>4, <1>12 DEF RevertDetour
  <2>2. CASE /\ saved # Null
             /\ originals' = [originals EXCEPT ![m][i] = Null]
             /\ memory' = Written(m, i, saved)
    <3>1. originals'[m][i] = Null /\ memory'[address] = "original"
      BY <1>5, <1>8, <2>2, BufferReplaced
    <3>2. Kind[m] = "detour"
      BY <1>4, <1>12 DEF RevertDetour
    <3> QED BY <1>2, <1>4, <1>6, <3>1, <3>2 DEF Restorable
  <2>3. CASE (saved = Null \/ windows_refuses) /\ UNCHANGED <<originals, memory>>
    BY <1>7, <1>9, <2>3
  <2> QED BY <2>1, <2>2, <2>3
<1> QED BY <1>10, <1>11, <1>12

\* What holds at the only place of a byte is kept by a step elsewhere, unless the
\* loops begin or end.
LEMMA ElsewhereRestorable ==
  ASSUME RegistryInvariant, [Next]_vars,
         NEW k \in DOMAIN Order, NEW i \in DOMAIN Addresses[Order[k]], NEW address \in Mapped,
         ~More \/ k # place[1] \/ i # place[2], Sole(address, k, i), UNCHANGED registered
  PROVE  /\ memory'[address] = memory[address]
         /\ originals'[Order[k]][i] = originals[Order[k]][i]
         /\ Order' = Order
         /\ Readable(Order[k], i)' <=> Readable(Order[k], i)
         /\ SavedOriginal(Order[k], i, address)' <=> SavedOriginal(Order[k], i, address)
<1>1. Order \in Seq(Modifications) /\ IsInjective(Order) /\ Order' = Order
  BY OrderOfModifications, OrderInjective DEF RegistryInvariant, Order
<1>2. PICK m \in Modifications : m = Order[k]
  BY <1>1
<1>3. global_module' = global_module /\ Mapped' = Mapped
  BY MappedKept
<1>4. More => address \notin Bytes(Current, place[2])
  BY CurrentIsModification DEF Sole, Current
<1>5. memory'[address] = memory[address]
  BY <1>4, OtherBytesKept
<1>6. More => m # Current \/ i # place[2]
  BY <1>1, <1>2, CurrentIsModification DEF IsInjective, Current
<1>7. originals'[m][i] = originals[m][i]
  BY <1>2, <1>6, OtherBuffersKept
<1>8. /\ Readable(m, i)' <=> Readable(m, i)
      /\ SavedOriginal(m, i, address)' <=> SavedOriginal(m, i, address)
  BY <1>3, <1>7 DEF Readable, SavedOriginal, Bytes, Unset, Target
<1> QED BY <1>1, <1>2, <1>5, <1>7, <1>8

\* At the start of a loop no place has been passed.
LEMMA NothingPassed ==
  ASSUME Order \in Seq(Modifications),
         NEW k \in DOMAIN Order, NEW i \in DOMAIN Addresses[Order[k]]
  PROVE  /\ place = <<1, 1>> => ~Passed(k, i)
         /\ place' = <<1, 1>> => ~Passed(k, i)'
<1>1. k \in Nat \ {0} /\ Order[k] \in Modifications
  OBVIOUS
<1>2. i \in Nat \ {0}
  BY <1>1, PlacesOfModification
<1> QED BY <1>1, <1>2 DEF Passed

\* A byte that only one place covers can be restored after every step.
LEMMA NextSoleRestorable ==
  RegistryInvariant /\ SoleRestorable /\ [Next]_vars => SoleRestorable'
<1> SUFFICES ASSUME RegistryInvariant, SoleRestorable, [Next]_vars, applied',
                    NEW address \in Mapped', NEW k \in DOMAIN Order',
                    NEW i \in DOMAIN Addresses[Order'[k]], Sole(address, k, i)'
             PROVE  Restorable(address, k, i)'
  BY DEF SoleRestorable
<1>1. address \in Mapped /\ global_module' = global_module /\ Mapped' = Mapped
  BY MappedKept
<1>2. pc = "load" => ~applied
  BY DEF RegistryInvariant
<1>3. registered' = registered /\ windows_refuses' = windows_refuses
  BY <1>2
  DEF Next, vars, Register, InstallAll, InstallFails, Skip, ApplyPatch, ApplyCrashes, ApplyDetour,
      HeapCrashes, Installed, RemoveAll, RevertPatch, RevertUnmapped, RevertCrashes,
      RevertDetour, Removed, Finished
<1>4. Order' = Order /\ Order \in Seq(Modifications)
  BY <1>3, OrderOfModifications DEF Order, RegistryInvariant
<1>5. k \in DOMAIN Order /\ i \in DOMAIN Addresses[Order[k]] /\ Sole(address, k, i)
  BY <1>1, <1>4 DEF Sole, Bytes, Unset, Target
<1>6. PICK m \in Modifications : m = Order[k]
  BY <1>4, <1>5
<1>7. CASE InstallAll
  <2>1. /\ UNCHANGED <<memory, originals, place>> /\ place' = <<1, 1>> /\ pc' = "apply"
        /\ memory[address] = "original"
        /\ Kind[m] = "detour" => originals[m][i] = Null
    BY <1>1, <1>5, <1>6, <1>7 DEF InstallAll, RegistryInvariant
  <2>2. ~Passed(k, i)'
    BY <1>4, <1>5, <2>1, NothingPassed
  <2> QED BY <1>4, <1>6, <2>1, <2>2 DEF Restorable
<1>8. CASE ~InstallAll
  <2>1. applied
    BY <1>8
    DEF Next, vars, Register, InstallFails, Skip, ApplyPatch, ApplyCrashes, ApplyDetour,
        HeapCrashes, Installed, RemoveAll, RevertPatch, RevertUnmapped, RevertCrashes,
        RevertDetour, Removed, Finished
  <2>2. Restorable(address, k, i)
    BY <1>1, <1>5, <2>1 DEF SoleRestorable
  <2>3. /\ \/ memory[address] = "original"
           \/ memory[address] = m /\ Readable(m, i) /\ originals[m][i] # Null
        /\ pc = "apply" /\ ~Passed(k, i) => memory[address] = "original"
        /\ Kind[m] = "detour" => originals[m][i] = Null \/ SavedOriginal(m, i, address)
        /\ /\ Kind[m] # "detour"
           /\ pc \in {"installed", "revert", "removed"} \/ (pc = "apply" /\ Passed(k, i))
           => SavedOriginal(m, i, address)
        /\ pc \in {"revert", "removed"} /\ ~windows_refuses /\ Passed(k, i)
           => memory[address] = "original"
    BY <1>6, <2>2 DEF Restorable
  <2>4. ASSUME ~More \/ k # place[1] \/ i # place[2]
        PROVE  /\ memory'[address] = memory[address]
               /\ originals'[m][i] = originals[m][i]
               /\ Readable(m, i)' <=> Readable(m, i)
               /\ SavedOriginal(m, i, address)' <=> SavedOriginal(m, i, address)
    BY <1>1, <1>3, <1>5, <1>6, <2>4, ElsewhereRestorable
  <2>5. CASE \/ Skip \/ ApplyPatch \/ ApplyDetour
            \/ RevertPatch \/ RevertUnmapped \/ RevertDetour
    <3>1. More /\ NextPlace /\ pc \in {"apply", "revert"} /\ pc' = pc
      BY <2>5 DEF Skip, ApplyPatch, ApplyDetour, RevertPatch, RevertUnmapped, RevertDetour
    <3>2. CASE k = place[1] /\ i = place[2]
      <4>1. ~Skip
        BY <1>5, <3>2 DEF Skip, Sole, Bytes, Current
      <4> QED BY <1>1, <1>5, <2>2, <2>5, <3>2, <4>1, ApplyRestorable, RevertRestorable
    <3>3. CASE k # place[1] \/ i # place[2]
      <4>1. Passed(k, i)' <=> Passed(k, i)
        BY <1>3, <1>5, <3>1, <3>3, NextPlacePassed
      <4> QED BY <1>3, <1>4, <1>6, <2>3, <2>4, <3>1, <3>3, <4>1 DEF Restorable
    <3> QED BY <3>2, <3>3
  <2>6. CASE ApplyCrashes \/ HeapCrashes \/ RevertCrashes
    <3>1. pc' = "crashed" /\ UNCHANGED <<global_module, memory, originals>>
      BY <2>6 DEF ApplyCrashes, HeapCrashes, RevertCrashes
    <3>2. SavedOriginal(m, i, address)' <=> SavedOriginal(m, i, address)
      BY <3>1 DEF SavedOriginal, Target
    <3>3. Readable(m, i)' <=> Readable(m, i)
      BY <3>1 DEF Readable, Bytes, Unset, Target, Mapped
    <3> QED BY <1>4, <1>6, <2>3, <3>1, <3>2, <3>3 DEF Restorable
  <2>7. CASE Installed \/ RemoveAll \/ Removed
    <3>1. /\ ~More
          /\ \/ pc = "apply" /\ pc' = "installed" /\ place' = place
             \/ pc = "installed" /\ pc' = "revert" /\ place' = <<1, 1>>
             \/ pc = "revert" /\ pc' = "removed" /\ place' = place
      BY <2>1, <2>7 DEF Installed, RemoveAll, Removed, RegistryInvariant
    <3>2. Passed(k, i)
      BY <1>5, <3>1, EveryPlacePassed
    <3>3. place' = place => (Passed(k, i)' <=> Passed(k, i))
      BY DEF Passed
    <3>4. place' = <<1, 1>> => ~Passed(k, i)'
      BY <1>4, <1>5, NothingPassed
    <3> QED BY <1>3, <1>4, <1>6, <2>3, <2>4, <3>1, <3>2, <3>3, <3>4 DEF Restorable
  <2>8. CASE UNCHANGED vars
    <3>1. Restorable(address, k, i)' <=> Restorable(address, k, i)
      BY <2>8
      DEF vars, Restorable, Order, Readable, Bytes, Unset, Target, Mapped, SavedOriginal, Passed
    <3> QED BY <2>2, <3>1
  <2>9. \A n \in Modifications : ~Register(n)
    BY <1>2, <2>1 DEF Register
  <2>10. ~InstallFails
    BY <1>2, <2>1 DEF InstallFails
  <2> QED BY <1>8, <2>5, <2>6, <2>7, <2>8, <2>9, <2>10 DEF Next, Finished
<1> QED BY <1>7, <1>8

\* Every modification has finitely many places, and the order has finitely many
\* modifications.
LEMMA CoveringFinite ==
  ASSUME RegistryInvariant, NEW address
  PROVE  IsFiniteSet(Covering(address))
<1> DEFINE PlacesAt(k) == {Order[k]} \X DOMAIN Addresses[Order[k]]
           Lists == {{m} \X DOMAIN Addresses[m] : m \in Range(Order)}
           f == [k \in DOMAIN Order |-> PlacesAt(k)]
<1>1. Order \in Seq(Modifications) /\ DOMAIN Order = 1 .. Len(Order) /\ Len(Order) \in Nat
  <2>1. Order \in Seq(Modifications)
    BY OrderOfModifications DEF RegistryInvariant
  <2> QED BY <2>1
<1>2. IsFiniteSet(Lists)
  <2>1. IsFiniteSet(DOMAIN Order)
    BY <1>1, FS_Interval
  <2>2. f \in Surjection(DOMAIN Order, Lists)
    <3>1. f \in [DOMAIN Order -> Lists]
      BY DEF Range
    <3>2. \A list \in Lists : \E k \in DOMAIN Order : f[k] = list
      BY DEF Range
    <3> QED BY <3>1, <3>2 DEF Surjection
  <2> QED BY <2>1, <2>2, FS_Surjection
<1>3. \A list \in Lists : IsFiniteSet(list)
  <2>1. ASSUME NEW m \in Range(Order) PROVE IsFiniteSet({m} \X DOMAIN Addresses[m])
    <3>1. m \in Modifications
      BY <1>1 DEF Range
    <3>2. DOMAIN Addresses[m] = 1 .. Len(Addresses[m]) /\ Len(Addresses[m]) \in Nat
      BY <3>1, PlacesOfModification
    <3>3. IsFiniteSet(DOMAIN Addresses[m])
      BY <3>2, FS_Interval
    <3>4. IsFiniteSet({m})
      BY FS_Singleton
    <3> QED BY <3>3, <3>4, FS_Product
  <2> QED BY <2>1
<1>4. IsFiniteSet(UNION Lists)
  BY <1>2, <1>3, FS_UNION
<1>5. Covering(address) \subseteq UNION Lists
  BY DEF Covering
<1> QED BY <1>4, <1>5, FS_Subset

\* What is said of an address that at most one place covers is said of that place.
LEMMA CoveringUnique ==
  ASSUME RegistryInvariant, NEW address, Cardinality(Covering(address)) <= 1,
         NEW c \in Covering(address), NEW d \in Covering(address)
  PROVE  c = d
<1> SUFFICES ASSUME c # d PROVE FALSE
  OBVIOUS
<1>1. IsFiniteSet({c, d}) /\ Cardinality({c, d}) = 2
  <2>1. IsFiniteSet({c}) /\ Cardinality({c}) = 1
    BY FS_Singleton
  <2>2. IsFiniteSet({c} \cup {d}) /\ Cardinality({c} \cup {d}) = 2
    BY <2>1, FS_AddElement
  <2>3. {c, d} = {c} \cup {d}
    OBVIOUS
  <2> QED BY <2>2, <2>3
<1>2. {c, d} \subseteq Covering(address)
  OBVIOUS
<1>3. Cardinality({c, d}) <= Cardinality(Covering(address))
  BY <1>2, CoveringFinite, FS_Subset
<1>4. Cardinality(Covering(address)) \in Nat
  BY CoveringFinite, FS_CardinalityType
<1> QED BY <1>1, <1>3, <1>4

\* The image is restored, for every constant that meets the assumptions.
THEOREM ImageAlwaysRestored == Spec => []ImageRestored
<1>1. Init => UncoveredOriginal /\ SoleRestorable
  <2> SUFFICES ASSUME Init PROVE UncoveredOriginal /\ SoleRestorable
    OBVIOUS
  <2>1. RegistryInvariant /\ pc = "load" /\ ~applied
    BY InitRegistry DEF Init
  <2> QED BY <2>1 DEF RegistryInvariant, UncoveredOriginal, SoleRestorable
<1>2. RegistryInvariant /\ UncoveredOriginal /\ SoleRestorable => ImageRestored
  <2> SUFFICES ASSUME RegistryInvariant, UncoveredOriginal, SoleRestorable,
                      pc = "removed", applied, NEW address \in Mapped,
                      Cardinality(Covering(address)) <= 1,
                      \A c \in Covering(address) : Kind[c[1]] # "patch"
               PROVE  \/ memory[address] = "original"
                      \/ windows_refuses /\ \E c \in Covering(address) : memory[address] = c[1]
    BY DEF ImageRestored
  <2>1. CASE Covering(address) = {}
    <3>1. Uncovered(address)
      BY <2>1, CoveringPlaces DEF Uncovered
    <3> QED BY <3>1 DEF UncoveredOriginal
  <2>2. CASE Covering(address) # {}
    <3>1. PICK c \in Covering(address) : TRUE
      BY <2>2
    <3>2. PICK k \in DOMAIN Order :
            /\ c[1] = Order[k] /\ c[2] \in DOMAIN Addresses[Order[k]]
            /\ c = <<c[1], c[2]>>
            /\ address \in Bytes(Order[k], c[2])
      BY <3>1, CoveringPlaces
    <3>3. PICK i \in DOMAIN Addresses[Order[k]] : i = c[2]
      BY <3>2
    <3>4. ASSUME NEW l \in DOMAIN Order, NEW j \in DOMAIN Addresses[Order[l]],
                 address \in Bytes(Order[l], j)
          PROVE  l = k /\ j = i
      <4>1. <<Order[l], j>> \in Covering(address)
        BY <3>4, CoveringPlaces
      <4>2. <<Order[l], j>> = c
        BY <3>1, <4>1, CoveringUnique
      <4>3. Order[l] = Order[k] /\ j = i
        BY <3>2, <3>3, <4>2
      <4> QED BY <4>3, OrderInjective DEF IsInjective
    <3>5. Kind[Order[k]] # "patch"
      BY <3>1, <3>2
    <3>6. Sole(address, k, i)
      BY <3>2, <3>3, <3>4, <3>5 DEF Sole
    <3>7. Restorable(address, k, i)
      BY <3>6 DEF SoleRestorable
    <3>8. Passed(k, i)
      BY EveryPlacePassed DEF RegistryInvariant
    <3>9. memory[address] = "original" \/ (memory[address] = Order[k] /\ windows_refuses)
      BY <3>7, <3>8 DEF Restorable
    <3> QED BY <3>1, <3>2, <3>9
  <2> QED BY <2>1, <2>2
<1> QED
  BY <1>1, <1>2, InitRegistry, NextRegistry, NextUncoveredOriginal, NextSoleRestorable,
     PTL DEF Spec
=============================================================================
