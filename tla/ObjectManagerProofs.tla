------------------------- MODULE ObjectManagerProofs -------------------------
(***************************************************************************)
(* For every size of the table and of the registry and any finite number   *)
(* of references, the object manager counts references exactly and never   *)
(* recycles a slot or a body under a caller that owns a reference, however *)
(* deep deletions nest.                                                    *)
(***************************************************************************)
EXTENDS ObjectManager, FiniteSetTheorems, TLAPS

-----------------------------------------------------------------------------
\* The sets whose sizes the counters follow are finite.

\* The references owned on a slot are finitely many, whatever the table holds.
LEMMA OwnersFinite ==
    ASSUME NEW h
    PROVE  IsFiniteSet(Owners(h)) /\ Cardinality(Owners(h)) \in Nat
<1>1. Owners(h) \in SUBSET Refs
  BY Zenon DEF Owners
<1>2. IsFiniteSet(Owners(h))
  BY <1>1, FS_Subset, RefsAssumption, Zenon
<1> QED BY <1>2, FS_CardinalityType, Zenon

\* The slots in use are finitely many, because the table has MAX_OBJECTS slots.
LEMMA InUseFinite ==
    IsFiniteSet(InUse) /\ Cardinality(InUse) \in Nat
<1>1. IsFiniteSet(Handles)
  BY SizesAssumption, FS_Interval DEF Handles
<1>2. InUse \in SUBSET Handles
  BY Zenon DEF InUse
<1>3. IsFiniteSet(InUse)
  BY <1>1, <1>2, FS_Subset, Zenon
<1> QED BY <1>3, FS_CardinalityType, Zenon

\* Outside a delete callback no slot is being deleted.
LEMMA NoneDeleting == deleting = <<>> => Deleting = {}
<1> SUFFICES ASSUME deleting = <<>>, NEW h \in Deleting PROVE FALSE
  BY Zenon
<1>1. PICK i \in DOMAIN deleting : h = deleting[i]
  BY Zenon DEF Deleting
<1>2. DOMAIN deleting = {}
  OBVIOUS
<1> QED BY <1>1, <1>2, Zenon

-----------------------------------------------------------------------------
\* The table ObInit leaves satisfies the inductive invariant.
LEMMA InitIInv == ObInit => IInv
<1> SUFFICES ASSUME ObInit PROVE IInv
  BY Zenon
<1> USE DEF ObInit
<1>1. TypeOK
  <2>1. (CHOOSE n \in Names : TRUE) \in Names
    BY NamesAssumption, Zenon
  <2>2. Cut[CHOOSE n \in Names : TRUE] \in Names
    BY <2>1, NamesAssumption, Zenon
  <2>3. deleting \in Seq(Handles)
    OBVIOUS
  <2>4. object_type_count \in 1 .. MAX_OBJECT_TYPES /\ count \in Nat
    BY SizesAssumption
  <2>5. /\ object_types \in [TypeIds -> Names]
        /\ objects \in [Handles -> Object \cup {NoObject}]
        /\ ref \in [Refs -> Reference \cup {NoRef}]
    BY <2>2, Zenon
  <2> QED BY <2>3, <2>4, <2>5, Zenon DEF TypeOK
<1>2. \A h \in Handles : Owners(h) = {}
  BY Zenon DEF Owners
<1>3. RefCountExact
  BY <1>2, NoneDeleting, Zenon DEF RefCountExact
<1>4. OwnedBodyIsLive /\ OwnershipExact
  <2>1. InUse = {} /\ Tabled = {}
    BY Zenon DEF InUse, Tabled
  <2> QED BY <2>1, Zenon DEF OwnedBodyIsLive, OwnershipExact
<1>7. DeletingApart
  BY DEF DeletingApart
<1>5. CountExact
  <2>1. InUse = {}
    BY Zenon DEF InUse
  <2> QED BY <2>1, FS_EmptySet, Zenon DEF CountExact
<1>6. RegistryExact
  <2>1. (CHOOSE n \in Names : TRUE) \in Names
    BY NamesAssumption, Zenon
  <2> QED BY <2>1, NamesAssumption, Zenon DEF RegistryExact
<1> QED BY <1>1, <1>3, <1>4, <1>5, <1>6, <1>7, Zenon DEF IInv

-----------------------------------------------------------------------------
\* Registration touches only the registry, and appends to it.
LEMMA RegisterPreserves ==
    ASSUME IInv, NEW name \in Names, ObRegisterObjectType(name)
    PROVE  IInv'
<1> USE DEF IInv
<1>1. UNCHANGED tableVars
  BY Zenon DEF ObRegisterObjectType
<1>2. \A h : Owners(h)' = Owners(h)
  BY <1>1, Zenon DEF Owners, tableVars
<1>3. RefCountExact' /\ OwnedBodyIsLive' /\ OwnershipExact' /\ DeletingApart'
  <2>1. Tabled' = Tabled /\ InUse' = InUse /\ Deleting' = Deleting
    BY <1>1, Zenon DEF Tabled, InUse, Deleting, tableVars
  <2>2. RefCountExact' /\ OwnedBodyIsLive' /\ DeletingApart'
    BY <1>1, <1>2, <2>1, Zenon DEF RefCountExact, OwnedBodyIsLive, DeletingApart, tableVars
  <2>3. OwnershipExact'
    BY <1>1, <2>1, Zenon DEF OwnershipExact, tableVars
  <2> QED BY <2>2, <2>3, Zenon
<1>4. CountExact'
  BY <1>1, Zenon DEF CountExact, InUse, tableVars
<1>5. TypeOK' /\ RegistryExact'
  <2>1. CASE \E i \in TypeIds :
               /\ RegisteredAs(name, i)
               /\ \A j \in 1 .. i - 1 : ~RegisteredAs(name, j)
               /\ granted' = granted \cup {<<name, i>>}
               /\ UNCHANGED <<object_type_count, object_types>>
    <3>1. PICK i \in TypeIds :
               /\ RegisteredAs(name, i)
               /\ \A j \in 1 .. i - 1 : ~RegisteredAs(name, j)
               /\ granted' = granted \cup {<<name, i>>}
               /\ UNCHANGED <<object_type_count, object_types>>
      BY <2>1, Zenon
    <3>2. TypeOK'
      BY <1>1, <3>1 DEF TypeOK, tableVars
    <3>3. Cut[name] = name /\ object_types[i] = Cut[name] /\ i < object_type_count
      BY <3>1, Zenon DEF RegistryExact, RegisteredAs
    <3>4. \A j \in 1 .. i - 1 : object_types[j] # name
      BY <3>1, SizesAssumption DEF RegisteredAs, TypeOK, TypeIds
    <3>5. RegistryExact'
      BY <3>1, <3>3, <3>4 DEF RegistryExact
    <3> QED BY <3>2, <3>5, Zenon
  <2>2. CASE /\ \A i \in TypeIds : ~RegisteredAs(name, i)
             /\ object_type_count < MAX_OBJECT_TYPES
             /\ object_types' = [object_types EXCEPT ![object_type_count] = Cut[name]]
             /\ object_type_count' = object_type_count + 1
             /\ granted' = granted \cup {<<name, object_type_count>>}
    <3>1. object_type_count \in TypeIds
      BY <2>2, SizesAssumption DEF TypeOK, TypeIds
    <3>2. Cut[name] \in Names /\ Cut[Cut[name]] = Cut[name]
      BY NamesAssumption, Zenon
    <3>3. TypeOK'
      BY <1>1, <2>2, <3>1, <3>2, SizesAssumption DEF TypeOK, tableVars, TypeIds
    <3>4. \A i \in TypeIds : Cut[object_types'[i]] = object_types'[i]
      BY <2>2, <3>1, <3>2, Zenon DEF RegistryExact, TypeOK
    <3>5. ASSUME NEW g \in granted'
          PROVE  /\ g[2] < object_type_count'
                 /\ object_types'[g[2]] = Cut[g[1]]
                 /\ Cut[g[1]] = g[1] => \A j \in 1 .. g[2] - 1 : object_types'[j] # g[1]
      <4>1. CASE g \in granted
        <5>1. g \in Names \X TypeIds /\ g[2] \in TypeIds /\ g[2] < object_type_count
          BY <4>1, Zenon DEF TypeOK, RegistryExact
        <5>2. \A j \in 1 .. g[2] : j \in TypeIds /\ object_types'[j] = object_types[j]
          BY <2>2, <5>1, <3>1, SizesAssumption DEF TypeOK, TypeIds
        <5> QED BY <2>2, <4>1, <5>1, <5>2, <3>1 DEF RegistryExact, TypeIds, TypeOK
      <4>2. CASE g = <<name, object_type_count>>
        <5>1. object_types'[object_type_count] = Cut[name]
          BY <2>2, <3>1, Zenon DEF TypeOK
        <5>2. \A j \in 1 .. object_type_count - 1 :
                 /\ j \in TypeIds
                 /\ object_types'[j] = object_types[j]
                 /\ object_types[j] # name
          BY <2>2, <3>1, SizesAssumption DEF TypeOK, TypeIds, RegisteredAs
        <5> QED BY <2>2, <4>2, <5>1, <5>2, <3>1 DEF TypeIds
      <4> QED BY <2>2, <4>1, <4>2, Zenon
    <3>6. RegistryExact'
      BY <3>4, <3>5, Zenon DEF RegistryExact
    <3> QED BY <3>3, <3>6, Zenon
  <2>3. CASE UNCHANGED typeVars
    BY <1>1, <2>3, Zenon DEF TypeOK, RegistryExact, tableVars, typeVars
  <2> QED BY <2>1, <2>2, <2>3, Zenon DEF ObRegisterObjectType
<1> QED BY <1>3, <1>4, <1>5, Zenon

-----------------------------------------------------------------------------
\* What a caller allocates or frees outside the table is loose and in no slot.
LEMMA BodyPreserves ==
    ASSUME IInv, NEW body \in Bodies, AllocateBody(body) \/ FreeBody(body)
    PROVE  IInv'
<1>1. UNCHANGED <<objects, count, deleting, ref, typeVars>>
  BY Zenon DEF AllocateBody, FreeBody
<1>2. \A h : Owners(h)' = Owners(h)
  BY <1>1, Zenon DEF Owners
<1>3. Tabled' = Tabled /\ InUse' = InUse /\ Deleting' = Deleting
  BY <1>1, Zenon DEF Tabled, InUse, Deleting
<1>4. \/ body \notin heap /\ heap' = heap \cup {body} /\ loose' = loose \cup {body}
      \/ body \in loose /\ heap' = heap \ {body} /\ loose' = loose \ {body}
  BY Zenon DEF AllocateBody, FreeBody
<1>5. TypeOK'
  BY <1>1, <1>4, Zenon DEF IInv, TypeOK, typeVars
<1>6. heap' = loose' \cup Tabled /\ loose' \cap Tabled = {}
  BY <1>4, Zenon DEF IInv, OwnershipExact
<1>7. OwnershipExact'
  BY <1>1, <1>3, <1>6, Zenon DEF IInv, OwnershipExact
<1>8. OwnedBodyIsLive'
  <2> SUFFICES ASSUME NEW q \in Refs, ref[q] # NoRef
               PROVE  ref[q].body \in heap'
    BY <1>1, Zenon DEF IInv, OwnedBodyIsLive
  <2>1. ref[q].handle \in InUse /\ ref[q].body = objects[ref[q].handle].body
    BY Zenon DEF IInv, TypeOK, OwnedBodyIsLive, Reference, InUse
  <2>2. ref[q].body \in Tabled
    BY <2>1, Zenon DEF Tabled
  <2> QED BY <2>2, <1>6, Zenon
<1>9. RefCountExact' /\ CountExact' /\ DeletingApart' /\ RegistryExact'
  BY <1>1, <1>2, <1>3, Zenon DEF IInv, RefCountExact, CountExact, DeletingApart,
     RegistryExact, typeVars
<1> QED BY <1>5, <1>7, <1>8, <1>9, Zenon DEF IInv

\* ObCreateObject fills a free slot, on which nobody can own a reference yet, and takes
\* the body over from its caller.
LEMMA CreatePreserves ==
    ASSUME IInv, NEW r \in Refs, NEW type \in TypeIds, NEW name \in Names,
           NEW body \in Bodies, NEW keeper \in Bodies \cup {NoBody},
           ObCreateObject(r, type, name, body, keeper)
    PROVE  IInv'
<1> DEFINE new == [type |-> type, name |-> Cut[name], ref_count |-> 1, body |-> body]
           first(i) == [handle |-> i, body |-> body, keeper |-> keeper]
<1>1. PICK h \in Handles :
        /\ FirstFree(h)
        /\ objects' = [objects EXCEPT ![h] = new]
        /\ ref' = [ref EXCEPT ![r] = first(h)]
  BY Zenon DEF ObCreateObject
<1>2. /\ ref[r] = NoRef
      /\ body \in loose
      /\ keeper \in Tabled \cup {NoBody}
      /\ count' = count + 1
      /\ loose' = loose \ {body}
      /\ deleting = <<>>
      /\ UNCHANGED <<deleting, heap, typeVars>>
  BY Zenon DEF ObCreateObject
<1>3. objects[h] = NoObject
  BY <1>1, Zenon DEF FirstFree
<1>4. new \in Object /\ new # NoObject /\ new.ref_count = 1 /\ new.body = body
  BY NamesAssumption, NullsAssumption DEF Object
<1>5. /\ first(h) \in Reference /\ first(h) # NoRef
      /\ first(h).handle = h /\ first(h).body = body /\ first(h).keeper = keeper
  BY NullsAssumption DEF Reference
<1> HIDE DEF new, first
<1>6. TypeOK'
  BY <1>1, <1>2, <1>4, <1>5 DEF IInv, TypeOK, typeVars
<1>7. /\ objects'[h] = new
      /\ \A i \in Handles \ {h} : objects'[i] = objects[i]
      /\ ref'[r] = first(h)
      /\ \A q \in Refs \ {r} : ref'[q] = ref[q]
  BY <1>1, Zenon DEF IInv, TypeOK
<1>8. Owners(h) = {} /\ Owners(h)' = {r} /\ \A i \in Handles \ {h} : Owners(i)' = Owners(i)
  <2>1. Owners(h) = {}
    BY <1>3, Zenon DEF IInv, RefCountExact
  <2>2. Owners(h)' = {r}
    BY <2>1, <1>5, <1>7 DEF Owners
  <2>3. \A i \in Handles \ {h} : Owners(i)' = Owners(i)
    BY <1>2, <1>5, <1>7 DEF Owners
  <2> QED BY <2>1, <2>2, <2>3, Zenon
<1>9. Deleting = {} /\ Deleting' = {}
  BY <1>2, NoneDeleting, Zenon DEF Deleting
<1>10. RefCountExact'
  <2>1. Cardinality({r}) = 1
    BY FS_Singleton, Zenon
  <2> SUFFICES ASSUME NEW i \in Handles
               PROVE  IF objects'[i] = NoObject
                        THEN Owners(i)' = {} /\ i \notin Deleting'
                        ELSE /\ objects'[i].ref_count = Cardinality(Owners(i)')
                             /\ Owners(i)' = {} <=> i \in Deleting'
    BY Zenon DEF RefCountExact
  <2>3. CASE i = h
    BY <2>1, <2>3, <1>4, <1>7, <1>8, <1>9, Zenon
  <2>4. CASE i # h
    BY <2>4, <1>7, <1>8, <1>9, Zenon DEF IInv, RefCountExact
  <2> QED BY <2>3, <2>4, Zenon
<1>11. InUse' = InUse \cup {h} /\ h \notin InUse
  BY <1>3, <1>4, <1>7 DEF InUse
<1>12. Tabled' = Tabled \cup {body} /\ body \notin Tabled
  <2>1. body \notin Tabled
    BY <1>2, Zenon DEF IInv, OwnershipExact
  <2>2. \A i \in InUse : i \in Handles \ {h} /\ objects'[i].body = objects[i].body
    BY <1>7, <1>11, Zenon DEF InUse
  <2>3. objects'[h].body = body
    BY <1>4, <1>7, Zenon
  <2>4. Tabled' = {objects'[i].body : i \in InUse \cup {h}}
    BY <1>11, Zenon DEF Tabled
  <2> QED BY <2>1, <2>2, <2>3, <2>4 DEF Tabled
<1>13. OwnershipExact'
  <2>1. heap' = loose' \cup Tabled' /\ loose' \cap Tabled' = {}
    BY <1>2, <1>12, Zenon DEF IInv, OwnershipExact
  <2>2. \A i \in InUse : objects[i].body # body
    BY <1>12, Zenon DEF Tabled
  <2>3. \A i, j \in InUse' : objects'[i].body = objects'[j].body => i = j
    BY <2>2, <1>4, <1>7, <1>11 DEF IInv, OwnershipExact, InUse
  <2>4. \A q \in Refs : ref'[q] # NoRef /\ ref'[q].keeper # NoBody => ref'[q].keeper \in Tabled'
    BY <1>2, <1>5, <1>7, <1>12, Zenon DEF IInv, OwnershipExact
  <2> QED BY <2>1, <2>3, <2>4, Zenon DEF OwnershipExact
<1>14. OwnedBodyIsLive'
  <2>1. body \in heap'
    BY <1>2, Zenon DEF IInv, OwnershipExact
  <2> QED BY <2>1, <1>2, <1>3, <1>4, <1>5, <1>7 DEF IInv, TypeOK, OwnedBodyIsLive, Reference
<1>15. CountExact'
  BY <1>2, <1>11, InUseFinite, FS_AddElement, Zenon DEF IInv, CountExact
<1>16. RegistryExact' /\ DeletingApart'
  BY <1>2, Zenon DEF IInv, RegistryExact, DeletingApart, typeVars
<1> QED BY <1>6, <1>10, <1>13, <1>14, <1>15, <1>16, Zenon DEF IInv

\* A change of a header that keeps the body changes neither the slots in use nor who
\* owns which body.
LEMMA HeaderChanges ==
    ASSUME IInv, NEW h \in Handles, objects[h] # NoObject,
           NEW new, new # NoObject, new.body = objects[h].body,
           objects' = [objects EXCEPT ![h] = new]
    PROVE  /\ objects'[h] = new
           /\ \A i \in Handles \ {h} : objects'[i] = objects[i]
           /\ InUse' = InUse
           /\ \A i \in InUse : objects'[i].body = objects[i].body
           /\ Tabled' = Tabled
<1>1. /\ objects'[h] = new
      /\ \A i \in Handles \ {h} : objects'[i] = objects[i]
  BY Zenon DEF IInv, TypeOK
<1>2. InUse' = InUse
  BY <1>1, Zenon DEF InUse
<1>3. \A i \in InUse : objects'[i].body = objects[i].body
  BY <1>1, Zenon DEF InUse
<1>4. Tabled' = Tabled
  BY <1>2, <1>3, Zenon DEF Tabled
<1> QED BY <1>1, <1>2, <1>3, <1>4, Zenon

\* ObReferenceObject adds one owner and one to the count of a slot in use.
LEMMA ReferencePreserves ==
    ASSUME IInv, NEW r \in Refs, NEW h \in Handles, ObReferenceObject(r, h)
    PROVE  IInv'
<1> DEFINE more == [objects[h] EXCEPT !.ref_count = @ + 1]
           taken == [handle |-> h, body |-> objects[h].body, keeper |-> NoBody]
<1>1. /\ ref[r] = NoRef
      /\ objects[h] # NoObject
      /\ objects' = [objects EXCEPT ![h] = more]
      /\ ref' = [ref EXCEPT ![r] = taken]
      /\ deleting = <<>>
      /\ UNCHANGED <<count, deleting, heap, loose, typeVars>>
  BY Zenon DEF ObReferenceObject
<1>2. objects[h] \in Object
  BY <1>1, Zenon DEF IInv, TypeOK
<1>3. /\ more \in Object /\ more # NoObject
      /\ more.body = objects[h].body
      /\ more.ref_count = objects[h].ref_count + 1
  BY <1>2, NullsAssumption DEF Object
<1>4. /\ taken \in Reference /\ taken # NoRef
      /\ taken.handle = h /\ taken.body = objects[h].body /\ taken.keeper = NoBody
  BY <1>2, NullsAssumption DEF Reference, Object
<1> HIDE DEF more, taken
<1>5. TypeOK'
  BY <1>1, <1>3, <1>4, Zenon DEF IInv, TypeOK, typeVars
<1>6. /\ objects'[h] = more
      /\ \A i \in Handles \ {h} : objects'[i] = objects[i]
      /\ InUse' = InUse
      /\ \A i \in InUse : objects'[i].body = objects[i].body
      /\ Tabled' = Tabled
  BY <1>1, <1>3, HeaderChanges, Zenon
<1>7. ref'[r] = taken /\ \A q \in Refs \ {r} : ref'[q] = ref[q]
  BY <1>1, Zenon DEF IInv, TypeOK
<1>8. /\ r \notin Owners(h) /\ Owners(h)' = Owners(h) \cup {r}
      /\ \A i \in Handles \ {h} : Owners(i)' = Owners(i)
  BY <1>1, <1>4, <1>7 DEF Owners
<1>9. Deleting = {} /\ Deleting' = {}
  BY <1>1, NoneDeleting, Zenon DEF Deleting
<1>10. RefCountExact'
  <2>1. Cardinality(Owners(h)') = Cardinality(Owners(h)) + 1
    BY <1>8, OwnersFinite, FS_AddElement
  <2>2. objects[h].ref_count = Cardinality(Owners(h))
    BY <1>1, Zenon DEF IInv, RefCountExact
  <2> SUFFICES ASSUME NEW i \in Handles
               PROVE  IF objects'[i] = NoObject
                        THEN Owners(i)' = {} /\ i \notin Deleting'
                        ELSE /\ objects'[i].ref_count = Cardinality(Owners(i)')
                             /\ Owners(i)' = {} <=> i \in Deleting'
    BY Zenon DEF RefCountExact
  <2>3. CASE i = h
    BY <2>1, <2>2, <2>3, <1>3, <1>6, <1>8, <1>9, Zenon
  <2>4. CASE i # h
    BY <2>4, <1>6, <1>8, <1>9, Zenon DEF IInv, RefCountExact
  <2> QED BY <2>3, <2>4, Zenon
<1>11. OwnershipExact'
  <2>1. heap' = loose' \cup Tabled' /\ loose' \cap Tabled' = {}
    BY <1>1, <1>6, Zenon DEF IInv, OwnershipExact
  <2>2. \A i, j \in InUse' : objects'[i].body = objects'[j].body => i = j
    BY <1>6 DEF IInv, OwnershipExact
  <2>3. \A q \in Refs : ref'[q] # NoRef /\ ref'[q].keeper # NoBody => ref'[q].keeper \in Tabled'
    BY <1>4, <1>6, <1>7, Zenon DEF IInv, OwnershipExact
  <2> QED BY <2>1, <2>2, <2>3, Zenon DEF OwnershipExact
<1>12. OwnedBodyIsLive'
  <2>1. objects[h].body \in heap
    BY <1>1, Zenon DEF IInv, OwnershipExact, Tabled, InUse
  <2> QED BY <2>1, <1>1, <1>3, <1>4, <1>6, <1>7 DEF IInv, TypeOK, OwnedBodyIsLive, Reference
<1>13. CountExact' /\ RegistryExact' /\ DeletingApart'
  BY <1>1, <1>6, Zenon DEF IInv, CountExact, RegistryExact, DeletingApart, typeVars
<1> QED BY <1>5, <1>10, <1>11, <1>12, <1>13, Zenon DEF IInv

\* Giving a reference back takes one owner away; the deletion of the slot begins exactly
\* when that was the last one.  A caller and a delete callback do the same here.
LEMMA DropPreserves ==
    ASSUME IInv, NEW r \in Refs, ref[r] # NoRef, DropReference(r, 1)
    PROVE  IInv'
<1>1. PICK h \in Handles : h = ref[r].handle
  BY Zenon DEF IInv, TypeOK, Reference
<1> DEFINE less == [objects[h] EXCEPT !.ref_count = @ - 1]
<1>2. /\ objects[h] # NoObject
      /\ objects' = [objects EXCEPT ![h] = less]
      /\ deleting' = IF objects[h].ref_count = 1 THEN Append(deleting, h) ELSE deleting
      /\ ref' = [ref EXCEPT ![r] = NoRef]
      /\ UNCHANGED <<count, heap, loose, typeVars>>
  BY <1>1, Zenon DEF DropReference
<1>3. objects[h] \in Object
  BY <1>2, Zenon DEF IInv, TypeOK
<1>4. /\ r \in Owners(h)
      /\ objects[h].ref_count = Cardinality(Owners(h))
      /\ objects[h].ref_count \in Nat
      /\ h \notin Deleting
  BY <1>1, <1>2, <1>3, Zenon DEF Owners, IInv, RefCountExact, Object
<1>5. /\ ref'[r] = NoRef
      /\ \A q \in Refs \ {r} : ref'[q] = ref[q]
      /\ ref' \in [Refs -> Reference \cup {NoRef}]
  BY <1>2, Zenon DEF IInv, TypeOK
<1>6. /\ Owners(h)' = Owners(h) \ {r}
      /\ \A i \in Handles \ {h} : Owners(i)' = Owners(i)
  BY <1>1, <1>5 DEF Owners
<1>7. /\ Cardinality(Owners(h)') = Cardinality(Owners(h)) - 1
      /\ IsFiniteSet(Owners(h)') /\ Cardinality(Owners(h)') \in Nat
  <2>1. IsFiniteSet(Owners(h) \ {r}) /\ Cardinality(Owners(h) \ {r}) = Cardinality(Owners(h)) - 1
    BY <1>4, OwnersFinite, FS_RemoveElement, ZenonT(30)
  <2> QED BY <2>1, <1>6, FS_CardinalityType, Zenon
<1>8. /\ less \in Object /\ less # NoObject
      /\ less.body = objects[h].body
      /\ less.ref_count = objects[h].ref_count - 1
  <2>1. objects[h].ref_count - 1 \in Nat
    BY <1>4, <1>7
  <2> QED BY <1>3, <2>1, NullsAssumption, Zenon DEF Object
<1> HIDE DEF less
<1>9. /\ objects'[h] = less
      /\ \A i \in Handles \ {h} : objects'[i] = objects[i]
      /\ InUse' = InUse
      /\ \A i \in InUse : objects'[i].body = objects[i].body
      /\ Tabled' = Tabled
  BY <1>2, <1>8, HeaderChanges, Zenon
<1>10. deleting \in Seq(Handles)
  BY Zenon DEF IInv, TypeOK
<1>11. /\ deleting' \in Seq(Handles)
       /\ DeletingApart'
       /\ Deleting' = Deleting \cup (IF objects[h].ref_count = 1 THEN {h} ELSE {})
  <2>1. CASE objects[h].ref_count = 1
    <3>1. deleting' = Append(deleting, h)
      BY <1>2, <2>1, Zenon
    <3>2. /\ deleting' \in Seq(Handles)
          /\ DOMAIN deleting' = DOMAIN deleting \cup {Len(deleting) + 1}
          /\ Len(deleting) + 1 \notin DOMAIN deleting
          /\ \A i \in DOMAIN deleting : deleting'[i] = deleting[i]
          /\ deleting'[Len(deleting) + 1] = h
      BY <3>1, <1>10
    <3>3. \A i \in DOMAIN deleting : deleting[i] # h
      BY <1>4, Zenon DEF Deleting
    <3>4. DeletingApart'
      BY <3>2, <3>3, Zenon DEF IInv, DeletingApart
    <3>5. Deleting' = Deleting \cup {h}
      BY <3>2 DEF Deleting
    <3> QED BY <2>1, <3>2, <3>4, <3>5, Zenon
  <2>2. CASE objects[h].ref_count # 1
    BY <1>2, <1>10, <2>2, Zenon DEF IInv, DeletingApart, Deleting
  <2> QED BY <2>1, <2>2, Zenon
<1>12. TypeOK'
  BY <1>2, <1>5, <1>8, <1>11, Zenon DEF IInv, TypeOK, typeVars
<1>13. RefCountExact'
  <2>1. Owners(h)' = {} <=> objects[h].ref_count = 1
    <3>1. Owners(h)' = {} <=> Cardinality(Owners(h)') = 0
      BY <1>7, FS_EmptySet, Zenon
    <3> QED BY <3>1, <1>4, <1>7
  <2> SUFFICES ASSUME NEW i \in Handles
               PROVE  IF objects'[i] = NoObject
                        THEN Owners(i)' = {} /\ i \notin Deleting'
                        ELSE /\ objects'[i].ref_count = Cardinality(Owners(i)')
                             /\ Owners(i)' = {} <=> i \in Deleting'
    BY Zenon DEF RefCountExact
  <2>2. CASE i = h
    <3>1. objects'[h].ref_count = Cardinality(Owners(h)')
      BY <1>4, <1>7, <1>8, <1>9, Zenon
    <3>2. h \in Deleting' <=> objects[h].ref_count = 1
      BY <1>4, <1>11, Zenon
    <3> QED BY <2>1, <2>2, <3>1, <3>2, <1>8, <1>9, Zenon
  <2>3. CASE i # h
    <3>1. i \in Deleting' <=> i \in Deleting
      BY <2>3, <1>11, Zenon
    <3> QED BY <2>3, <3>1, <1>6, <1>9, Zenon DEF IInv, RefCountExact
  <2> QED BY <2>2, <2>3, Zenon
<1>14. OwnershipExact'
  <2>1. heap' = loose' \cup Tabled' /\ loose' \cap Tabled' = {}
    BY <1>2, <1>9, Zenon DEF IInv, OwnershipExact
  <2>2. \A i, j \in InUse' : objects'[i].body = objects'[j].body => i = j
    BY <1>9 DEF IInv, OwnershipExact
  <2>3. \A q \in Refs : ref'[q] # NoRef /\ ref'[q].keeper # NoBody => ref'[q].keeper \in Tabled'
    BY <1>5, <1>9, Zenon DEF IInv, OwnershipExact
  <2> QED BY <2>1, <2>2, <2>3, Zenon DEF OwnershipExact
<1>15. OwnedBodyIsLive'
  <2> SUFFICES ASSUME NEW q \in Refs, ref'[q] # NoRef
               PROVE  /\ objects'[ref'[q].handle] # NoObject
                      /\ objects'[ref'[q].handle].body = ref'[q].body
                      /\ ref'[q].body \in heap'
    BY Zenon DEF OwnedBodyIsLive
  <2>1. ref'[q] = ref[q] /\ ref[q] # NoRef /\ ref[q].handle \in Handles
    BY <1>5, Zenon DEF IInv, TypeOK, Reference
  <2> QED BY <2>1, <1>2, <1>8, <1>9 DEF IInv, OwnedBodyIsLive, InUse
<1>16. CountExact' /\ RegistryExact'
  BY <1>2, <1>9, Zenon DEF IInv, CountExact, RegistryExact, typeVars
<1> QED BY <1>11, <1>12, <1>13, <1>14, <1>15, <1>16, Zenon DEF IInv

\* When delete_proc has returned, nobody owns a reference on the slot and its body keeps
\* none, so nobody can still believe in what is freed.
LEMMA DeletedPreserves ==
    ASSUME IInv, ObjectDeleted
    PROVE  IInv'
<1>1. deleting \in Seq(Handles) /\ deleting # <<>>
  BY Zenon DEF IInv, TypeOK, ObjectDeleted
<1>2. Len(deleting) \in DOMAIN deleting /\ Innermost \in Handles
  BY <1>1 DEF Innermost
<1>3. PICK h \in Handles : h = Innermost
  BY <1>2, Zenon
<1>4. /\ KeptBy(h) = {}
      /\ objects' = [objects EXCEPT ![h] = NoObject]
      /\ heap' = heap \ {objects[h].body}
      /\ count' = count - 1
      /\ deleting' = SubSeq(deleting, 1, Len(deleting) - 1)
      /\ UNCHANGED <<loose, ref, typeVars>>
  BY <1>3, Zenon DEF ObjectDeleted
<1>5. h \in Deleting
  BY <1>2, <1>3, Zenon DEF Innermost, Deleting
<1>6. objects[h] # NoObject /\ Owners(h) = {} /\ h \in InUse
  BY <1>5, Zenon DEF IInv, RefCountExact, InUse
<1>7. /\ objects'[h] = NoObject
      /\ \A i \in Handles \ {h} : objects'[i] = objects[i]
      /\ InUse' = InUse \ {h}
  <2>1. /\ objects'[h] = NoObject
        /\ \A i \in Handles \ {h} : objects'[i] = objects[i]
    BY <1>4, Zenon DEF IInv, TypeOK
  <2> QED BY <2>1, Zenon DEF InUse
<1>8. \A i : Owners(i)' = Owners(i)
  BY <1>4, Zenon DEF Owners
<1>9. /\ deleting' \in Seq(Handles)
      /\ DeletingApart'
      /\ Deleting' = Deleting \ {h}
  <2>1. /\ deleting' \in Seq(Handles)
        /\ DOMAIN deleting' = DOMAIN deleting \ {Len(deleting)}
        /\ \A i \in DOMAIN deleting' : deleting'[i] = deleting[i]
    BY <1>1, <1>4
  <2>2. DeletingApart'
    BY <2>1, Zenon DEF IInv, DeletingApart
  <2>3. \A i \in DOMAIN deleting : deleting[i] = h <=> i = Len(deleting)
    BY <1>2, <1>3, Zenon DEF IInv, DeletingApart, Innermost
  <2>4. Deleting' = Deleting \ {h}
    BY <2>1, <2>3 DEF Deleting
  <2> QED BY <2>1, <2>2, <2>4, Zenon
<1>10. RefCountExact'
  <2> SUFFICES ASSUME NEW i \in Handles
               PROVE  IF objects'[i] = NoObject
                        THEN Owners(i)' = {} /\ i \notin Deleting'
                        ELSE /\ objects'[i].ref_count = Cardinality(Owners(i)')
                             /\ Owners(i)' = {} <=> i \in Deleting'
    BY Zenon DEF RefCountExact
  <2>1. CASE i = h
    BY <2>1, <1>6, <1>7, <1>8, <1>9, Zenon
  <2>2. CASE i # h
    BY <2>2, <1>7, <1>8, <1>9, Zenon DEF IInv, RefCountExact
  <2> QED BY <2>1, <2>2, Zenon
<1>11. \A i \in InUse' : i \in InUse /\ i # h /\ objects'[i] = objects[i]
                          /\ objects[i].body # objects[h].body
  BY <1>6, <1>7, Zenon DEF IInv, OwnershipExact, InUse
<1>12. Tabled' = Tabled \ {objects[h].body} /\ objects[h].body \in Tabled
  <2>1. objects[h].body \in Tabled
    BY <1>6, Zenon DEF Tabled
  <2>2. ASSUME NEW b \in Tabled' PROVE b \in Tabled \ {objects[h].body}
    BY <2>2, <1>11, Zenon DEF Tabled
  <2>3. ASSUME NEW b \in Tabled, b # objects[h].body PROVE b \in Tabled'
    <3>1. PICK i \in InUse : b = objects[i].body
      BY <2>3, Zenon DEF Tabled
    <3>2. i \in InUse' /\ objects'[i].body = b
      BY <2>3, <3>1, <1>7, <1>11, Zenon
    <3> QED BY <3>2, Zenon DEF Tabled
  <2> QED BY <2>1, <2>2, <2>3, Zenon
<1>13. OwnershipExact'
  <2>1. heap' = loose' \cup Tabled' /\ loose' \cap Tabled' = {}
    BY <1>4, <1>12, Zenon DEF IInv, OwnershipExact
  <2>2. \A i, j \in InUse' : objects'[i].body = objects'[j].body => i = j
    BY <1>11, Zenon DEF IInv, OwnershipExact
  <2>3. \A q \in Refs : ref[q] # NoRef => ref[q].keeper # objects[h].body
    BY <1>4, Zenon DEF KeptBy
  <2>4. \A q \in Refs : ref'[q] # NoRef /\ ref'[q].keeper # NoBody => ref'[q].keeper \in Tabled'
    BY <2>3, <1>4, <1>12, Zenon DEF IInv, OwnershipExact
  <2> QED BY <2>1, <2>2, <2>4, Zenon DEF OwnershipExact
<1>14. OwnedBodyIsLive'
  <2> SUFFICES ASSUME NEW q \in Refs, ref[q] # NoRef
               PROVE  /\ objects'[ref[q].handle] # NoObject
                      /\ objects'[ref[q].handle].body = ref[q].body
                      /\ ref[q].body \in heap'
    BY <1>4, Zenon DEF OwnedBodyIsLive
  <2>1. ref[q].handle \in Handles \ {h}
    BY <1>6, Zenon DEF IInv, TypeOK, Reference, Owners
  <2>2. ref[q].handle \in InUse'
    BY <2>1, <1>7, Zenon DEF IInv, OwnedBodyIsLive, InUse
  <2>3. ref[q].body # objects[h].body
    BY <2>2, <1>11, Zenon DEF IInv, OwnedBodyIsLive
  <2> QED BY <2>1, <2>3, <1>4, <1>7, Zenon DEF IInv, OwnedBodyIsLive
<1>15. CountExact' /\ count' \in Nat
  <2>1. Cardinality(InUse') = Cardinality(InUse) - 1 /\ Cardinality(InUse') \in Nat
    BY <1>6, <1>7, InUseFinite, FS_RemoveElement, FS_CardinalityType, Zenon
  <2> QED BY <2>1, <1>4, Zenon DEF IInv, CountExact
<1>16. TypeOK'
  BY <1>4, <1>9, <1>15, Zenon DEF IInv, TypeOK, typeVars
<1>17. RegistryExact'
  BY <1>4, Zenon DEF IInv, RegistryExact, typeVars
<1> QED BY <1>9, <1>10, <1>13, <1>14, <1>15, <1>16, <1>17, Zenon DEF IInv

-----------------------------------------------------------------------------
\* A step of any caller, and a step that changes nothing, preserve the invariant.
LEMMA StepPreserves == IInv /\ [Next]_vars => IInv'
<1> SUFFICES ASSUME IInv, [Next]_vars PROVE IInv'
  BY Zenon
<1>1. ASSUME NEW name \in Names, ObRegisterObjectType(name) PROVE IInv'
  BY <1>1, RegisterPreserves, Zenon
<1>2. ASSUME NEW body \in Bodies, AllocateBody(body) \/ FreeBody(body) PROVE IInv'
  BY <1>2, BodyPreserves, Zenon
<1>3. ASSUME NEW r \in Refs, NEW type \in TypeIds, NEW name \in Names,
             NEW body \in Bodies, NEW keeper \in Bodies \cup {NoBody},
             ObCreateObject(r, type, name, body, keeper)
      PROVE  IInv'
  BY <1>3, CreatePreserves, Zenon
<1>4. ASSUME NEW r \in Refs, NEW handle \in Handles, ObReferenceObject(r, handle)
      PROVE  IInv'
  BY <1>4, ReferencePreserves, Zenon
<1>5. ASSUME NEW r \in Refs, NEW name \in Names, NEW type \in TypeIds,
             FindAndReference(r, name, type)
      PROVE  IInv'
  BY <1>5, ReferencePreserves, Zenon DEF FindAndReference
<1>6. ASSUME NEW r \in Refs, ObDereferenceObject(r) \/ DeleteProc(r) PROVE IInv'
  BY <1>6, DropPreserves, Zenon DEF ObDereferenceObject, DeleteProc, KeptBy
<1>7. CASE ObjectDeleted
  BY <1>7, DeletedPreserves, Zenon
<1>8. CASE UNCHANGED vars
  <2>1. \A h : Owners(h)' = Owners(h)
    BY <1>8, Zenon DEF Owners, vars, tableVars
  <2>2. Tabled' = Tabled /\ InUse' = InUse /\ Deleting' = Deleting
    BY <1>8, Zenon DEF Tabled, InUse, Deleting, vars, tableVars
  <2>4. RefCountExact' /\ OwnedBodyIsLive' /\ DeletingApart'
    BY <1>8, <2>1, <2>2, Zenon DEF IInv, RefCountExact, OwnedBodyIsLive, DeletingApart,
       vars, tableVars
  <2>5. OwnershipExact'
    BY <1>8, <2>2, Zenon DEF IInv, OwnershipExact, vars, tableVars
  <2>3. TypeOK' /\ CountExact' /\ RegistryExact'
    BY <1>8, Zenon DEF IInv, TypeOK, CountExact, InUse, RegistryExact, vars, tableVars, typeVars
  <2> QED BY <2>3, <2>4, <2>5, Zenon DEF IInv
<1> QED
  BY <1>1, <1>2, <1>3, <1>4, <1>5, <1>6, <1>7, <1>8, Zenon DEF Next, ObCreateObjectFails

\* The inductive invariant holds in every reachable state.
THEOREM Invariance == Spec => []IInv
<1> QED BY InitIInv, StepPreserves, PTL DEF Spec

\* The tables stay well formed: object_type_count never passes MAX_OBJECT_TYPES and
\* every slot holds null or a whole header.
THEOREM TypeCorrect == Spec => []TypeOK
<1>1. IInv => TypeOK
  BY Zenon DEF IInv
<1> QED BY <1>1, Invariance, PTL

\* ref_count of ObReferenceObject and ObDereferenceObject counts the callers exactly.
THEOREM RefCountsAreExact == Spec => []RefCountExact
<1>1. IInv => RefCountExact
  BY Zenon DEF IInv
<1> QED BY <1>1, Invariance, PTL

\* A caller that owns a reference never finds its slot recycled or its body freed.
THEOREM OwnedBodiesStay == Spec => []OwnedBodyIsLive
<1>1. IInv => OwnedBodyIsLive
  BY Zenon DEF IInv
<1> QED BY <1>1, Invariance, PTL

\* Every body has one owner and every reference kept in a body a keeper that exists:
\* nested delete callbacks free each body once and leave no reference behind.
THEOREM OwnershipIsExact == Spec => []OwnershipExact
<1>1. IInv => OwnershipExact
  BY Zenon DEF IInv
<1> QED BY <1>1, Invariance, PTL

\* ObRegisterObjectType gives one type to each name that fits: two grants of a name
\* are both its first entry.
THEOREM RegistrationIsIdempotent == Spec => []RegistrationIdempotent
<1>1. IInv => RegistrationIdempotent
  <2> SUFFICES ASSUME IInv, NEW g1 \in granted, NEW g2 \in granted,
                      g1[1] = g2[1], Cut[g1[1]] = g1[1]
               PROVE  g1[2] = g2[2]
    BY Zenon DEF RegistrationIdempotent
  <2>1. g1[2] \in TypeIds /\ g2[2] \in TypeIds
    BY Zenon DEF IInv, TypeOK
  <2>2. ASSUME NEW a \in granted, NEW b \in granted, a[1] = b[1], Cut[a[1]] = a[1],
               a[2] \in TypeIds, b[2] \in TypeIds
        PROVE  ~(a[2] < b[2])
    BY <2>2 DEF IInv, RegistryExact, TypeIds
  <2>3. ~(g1[2] < g2[2]) /\ ~(g2[2] < g1[2])
    BY <2>1, <2>2, Zenon
  <2> QED BY <2>1, <2>3, SizesAssumption DEF TypeIds
<1> QED BY <1>1, Invariance, PTL
=============================================================================
