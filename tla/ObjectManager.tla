---------------------------- MODULE ObjectManager ----------------------------
(***************************************************************************)
(* The object manager, kernel/ob/object.c: a registry of object types and  *)
(* one global handle table.  A handle is the index of a slot; a slot holds *)
(* an object header with a reference count and the body it owns.           *)
(*                                                                         *)
(* The callers are the rest of the kernel (ke.c, io.c, w32k.c, csrss.c).   *)
(* Every reference a caller owns, the one ObCreateObject leaves it and     *)
(* each one ObReferenceObject returned, is a Ref, so ref[r] is what the    *)
(* caller believes the reference denotes.  A reference may be kept in the  *)
(* body of another object, as io.c keeps that of a device in the           *)
(* device_list of its driver; the delete callback of that object's type    *)
(* gives it back.  The kernel is cooperative and none of these functions   *)
(* yields, so each is one step, except the deletion of an object: its      *)
(* callback calls ObDereferenceObject again, and deleting is the stack of  *)
(* the deletions under way.  A type without a callback is one whose bodies *)
(* keep no references.                                                     *)
(***************************************************************************)
EXTENDS Naturals, Sequences, FiniteSets

CONSTANTS
    MAX_OBJECTS,       \* slots of the handle table (256)
    MAX_OBJECT_TYPES,  \* entries of the type registry (32), type 0 included
    Names,             \* names the callers register and create objects under
    Cut,               \* name -> the MAX_NAME_LEN - 1 bytes of it that are kept
    Bodies,            \* addresses kmalloc returns for object bodies
    Refs,              \* references callers may own at one time
    NoObject,          \* a null slot of the table
    NoRef,             \* a reference that is not owned
    NoBody             \* the keeper of a reference that is in no body

ASSUME SizesAssumption ==
    /\ MAX_OBJECTS \in Nat \ {0}
    /\ MAX_OBJECT_TYPES \in Nat \ {0}

ASSUME NamesAssumption ==
    /\ Names # {}
    /\ Cut \in [Names -> Names]
    /\ \A n \in Names : Cut[Cut[n]] = Cut[n]

ASSUME RefsAssumption == IsFiniteSet(Refs)

Handles == 0 .. MAX_OBJECTS - 1
INVALID_HANDLE == MAX_OBJECTS     \* any value ObCreateObject cannot return
TypeIds == 1 .. MAX_OBJECT_TYPES - 1

Object == [type : TypeIds, name : Names, ref_count : Nat, body : Bodies]
Reference == [handle : Handles, body : Bodies, keeper : Bodies \cup {NoBody}]

ASSUME NullsAssumption ==
    NoObject \notin Object /\ NoRef \notin Reference /\ NoBody \notin Bodies

VARIABLES
    object_type_count, \* one past the last registered type
    object_types,      \* type -> the name stored for it
    objects,           \* global_table.objects
    count,             \* global_table.count
    deleting,          \* slots whose delete callback runs, the innermost last
    heap,              \* bodies that are allocated
    loose,             \* those of them a caller has not handed to ObCreateObject
    ref,               \* what each owned reference was taken on, and who keeps it
    granted            \* the <<name, type>> pairs registration has returned

tableVars == <<objects, count, deleting, heap, loose, ref>>
typeVars == <<object_type_count, object_types, granted>>
vars == <<tableVars, typeVars>>
-----------------------------------------------------------------------------
\* strcmp of the stored, cut name with the whole name that is asked for
RegisteredAs(name, i) == i < object_type_count /\ object_types[i] = name

\* ObGetObjectType returns an entry exactly for these
ObGetObjectType(type) == type # 0 /\ type < object_type_count

ObInit ==
    /\ object_type_count = 1
    /\ object_types = [i \in TypeIds |-> Cut[CHOOSE n \in Names : TRUE]]
    /\ objects = [h \in Handles |-> NoObject]
    /\ count = 0
    /\ deleting = <<>>
    /\ heap = {}
    /\ loose = {}
    /\ ref = [r \in Refs |-> NoRef]
    /\ granted = {}

\* Faulty variant: the lookup by name is dropped.
RegisterWithoutLookup(name) ==
    /\ deleting = <<>>
    /\ object_type_count < MAX_OBJECT_TYPES
    /\ object_types' = [object_types EXCEPT ![object_type_count] = Cut[name]]
    /\ object_type_count' = object_type_count + 1
    /\ granted' = granted \cup {<<name, object_type_count>>}
    /\ UNCHANGED tableVars

\* Faulty variant: the registry accepts one type more than it has entries.
RegisterOneTooMany(name) ==
    /\ deleting = <<>>
    /\ \A i \in TypeIds : ~RegisteredAs(name, i)
    /\ object_type_count <= MAX_OBJECT_TYPES
    /\ object_types' = [object_types EXCEPT ![object_type_count] = Cut[name]]
    /\ object_type_count' = object_type_count + 1
    /\ granted' = granted \cup {<<name, object_type_count>>}
    /\ UNCHANGED tableVars

ObRegisterObjectType(name) ==
    /\ deleting = <<>>
    /\ \/ \E i \in TypeIds :                       \* the first entry of the name
            /\ RegisteredAs(name, i)
            /\ \A j \in 1 .. i - 1 : ~RegisteredAs(name, j)
            /\ granted' = granted \cup {<<name, i>>}
            /\ UNCHANGED <<object_type_count, object_types>>
       \/ /\ \A i \in TypeIds : ~RegisteredAs(name, i)
          /\ object_type_count < MAX_OBJECT_TYPES
          /\ object_types' = [object_types EXCEPT ![object_type_count] = Cut[name]]
          /\ object_type_count' = object_type_count + 1
          /\ granted' = granted \cup {<<name, object_type_count>>}
       \/ /\ \A i \in TypeIds : ~RegisteredAs(name, i)
          /\ object_type_count >= MAX_OBJECT_TYPES   \* registry full: returns 0
          /\ UNCHANGED typeVars
    /\ UNCHANGED tableVars
-----------------------------------------------------------------------------
\* the slot the scan of ObCreateObject stops at
FirstFree(h) ==
    /\ objects[h] = NoObject
    /\ \A i \in 0 .. h - 1 : objects[i] # NoObject

\* A caller allocates the body of an object it is going to create.
AllocateBody(body) ==
    /\ deleting = <<>>
    /\ body \notin heap
    /\ heap' = heap \cup {body}
    /\ loose' = loose \cup {body}
    /\ UNCHANGED <<objects, count, deleting, ref, typeVars>>

\* ... and frees it again, as IoCreateDriver does when no object could be created.
FreeBody(body) ==
    /\ deleting = <<>>
    /\ body \in loose
    /\ heap' = heap \ {body}
    /\ loose' = loose \ {body}
    /\ UNCHANGED <<objects, count, deleting, ref, typeVars>>

InUse == {h \in Handles : objects[h] # NoObject}

\* The bodies the table owns.
Tabled == {objects[h].body : h \in InUse}

\* The caller passes its body and owns the first reference, or links it into the body
\* of an object that exists.
ObCreateObject(r, type, name, body, keeper) ==
    /\ deleting = <<>>
    /\ ref[r] = NoRef
    /\ body \in loose
    /\ keeper \in Tabled \cup {NoBody}
    /\ ObGetObjectType(type)
    /\ \E h \in Handles :
         /\ FirstFree(h)
         /\ objects' = [objects EXCEPT ![h] =
              [type |-> type, name |-> Cut[name], ref_count |-> 1, body |-> body]]
         /\ ref' = [ref EXCEPT ![r] = [handle |-> h, body |-> body, keeper |-> keeper]]
    /\ count' = count + 1
    /\ loose' = loose \ {body}
    /\ UNCHANGED <<deleting, heap, typeVars>>

\* An unregistered type, a full table or a failed kmalloc: INVALID_HANDLE, nothing has
\* changed and the body is still the caller's.
ObCreateObjectFails(body) ==
    /\ deleting = <<>>
    /\ body \in loose
    /\ UNCHANGED vars

\* Callers pass any handle they remember, live or stale.
ObReferenceObject(r, handle) ==
    /\ deleting = <<>>
    /\ ref[r] = NoRef
    /\ objects[handle] # NoObject
    /\ objects' = [objects EXCEPT ![handle].ref_count = @ + 1]
    /\ ref' = [ref EXCEPT ![r] =
         [handle |-> handle, body |-> objects[handle].body, keeper |-> NoBody]]
    /\ UNCHANGED <<count, deleting, heap, loose, typeVars>>

\* One reference less on the slot of r, whose deletion begins when `last` were left.
DropReference(r, last) ==
    LET h == ref[r].handle
    IN  /\ objects[h] # NoObject
        /\ objects' = [objects EXCEPT ![h].ref_count = @ - 1]
        /\ deleting' = IF objects[h].ref_count = last THEN Append(deleting, h) ELSE deleting
        /\ ref' = [ref EXCEPT ![r] = NoRef]
        /\ UNCHANGED <<count, heap, loose, typeVars>>

\* Faulty variant: the creator's own reference is not counted.
DerefDiesEarly(r) ==
    deleting = <<>> /\ ref[r] # NoRef /\ DropReference(r, 2)

\* Faulty variant: the object outlives its last reference.
DerefDiesLate(r) ==
    deleting = <<>> /\ ref[r] # NoRef /\ DropReference(r, 0)

\* A caller gives back a reference it owns, or one that it takes out of the body that
\* keeps it (IoDeleteDevice).
ObDereferenceObject(r) ==
    deleting = <<>> /\ ref[r] # NoRef /\ DropReference(r, 1)

\* The slot the innermost delete callback was called for.
Innermost == deleting[Len(deleting)]

\* The references the body of a slot keeps.
KeptBy(h) == {r \in Refs : ref[r] # NoRef /\ ref[r].keeper = objects[h].body}

\* A step of delete_proc, which runs with ref_count 0 and the slot still in the table:
\* IoDeleteDriverBody deletes one more device of its list.
DeleteProc(r) ==
    /\ deleting # <<>>
    /\ r \in KeptBy(Innermost)
    /\ DropReference(r, 1)

\* Faulty variant: the body is freed without a call of delete_proc.
DeletedWithoutProc ==
    /\ deleting # <<>>
    /\ objects' = [objects EXCEPT ![Innermost] = NoObject]
    /\ heap' = heap \ {objects[Innermost].body}
    /\ count' = count - 1
    /\ deleting' = SubSeq(deleting, 1, Len(deleting) - 1)
    /\ UNCHANGED <<loose, ref, typeVars>>

\* delete_proc has returned: the body and the header go, and the slot becomes free for
\* the next ObCreateObject.
ObjectDeleted ==
    /\ deleting # <<>>
    /\ KeptBy(Innermost) = {}
    /\ objects' = [objects EXCEPT ![Innermost] = NoObject]
    /\ heap' = heap \ {objects[Innermost].body}
    /\ count' = count - 1
    /\ deleting' = SubSeq(deleting, 1, Len(deleting) - 1)
    /\ UNCHANGED <<loose, ref, typeVars>>

\* The slot ObFindObject returns: the first object of the type whose stored name
\* is the whole name that is asked for.
ObFindObject(name, type, h) ==
    LET Named(i) == /\ objects[i] # NoObject
                    /\ objects[i].type = type
                    /\ objects[i].name = name
    IN  Named(h) /\ \A i \in 0 .. h - 1 : ~Named(i)

\* IoGetDevice and its like: look a name up and take a reference on what is found.
FindAndReference(r, name, type) ==
    \E h \in Handles : ObFindObject(name, type, h) /\ ObReferenceObject(r, h)

Next ==
    \/ \E name \in Names : ObRegisterObjectType(name)
    \/ \E body \in Bodies :
         AllocateBody(body) \/ FreeBody(body) \/ ObCreateObjectFails(body)
    \/ \E r \in Refs, type \in TypeIds, name \in Names, body \in Bodies,
          keeper \in Bodies \cup {NoBody} : ObCreateObject(r, type, name, body, keeper)
    \/ \E r \in Refs, handle \in Handles : ObReferenceObject(r, handle)
    \/ \E r \in Refs, name \in Names, type \in TypeIds : FindAndReference(r, name, type)
    \/ \E r \in Refs : ObDereferenceObject(r) \/ DeleteProc(r)
    \/ ObjectDeleted

Spec == ObInit /\ [][Next]_vars
-----------------------------------------------------------------------------
\* Every variable of the table and of the registry has its type.
TypeOK ==
    /\ object_type_count \in 1 .. MAX_OBJECT_TYPES
    /\ object_types \in [TypeIds -> Names]
    /\ objects \in [Handles -> Object \cup {NoObject}]
    /\ count \in Nat
    /\ deleting \in Seq(Handles)
    /\ heap \subseteq Bodies
    /\ loose \subseteq Bodies
    /\ ref \in [Refs -> Reference \cup {NoRef}]
    /\ granted \subseteq Names \X TypeIds

\* The references callers own on a slot.
Owners(h) == {r \in Refs : ref[r] # NoRef /\ ref[r].handle = h}

\* The slots whose deletion has begun.
Deleting == {deleting[i] : i \in DOMAIN deleting}

\* ref_count is exactly the number of references that are owned, also while delete
\* callbacks give back what the bodies kept: the deletion of an object is under way
\* exactly when it has lost its last one, never earlier and never twice.
RefCountExact ==
    \A h \in Handles :
      IF objects[h] = NoObject
        THEN Owners(h) = {} /\ h \notin Deleting
        ELSE /\ objects[h].ref_count = Cardinality(Owners(h))
             /\ Owners(h) = {} <=> h \in Deleting

\* While a caller owns a reference, its handle still names the object it was taken
\* on: ObCreateObject never recycles the slot, nor ObDereferenceObject the body,
\* under a caller that ObReferenceObject gave the body to.
OwnedBodyIsLive ==
    \A r \in Refs : ref[r] # NoRef =>
      /\ objects[ref[r].handle] # NoObject
      /\ objects[ref[r].handle].body = ref[r].body
      /\ ref[r].body \in heap

\* Every allocated body has one owner: a slot, or the caller whose ObCreateObject has
\* not come yet or has failed.  None is freed twice or lost, through failed creations
\* and nested deletions, and no reference is left behind in a body that is gone, where
\* nobody could give it back any more.
OwnershipExact ==
    /\ heap = loose \cup Tabled
    /\ loose \cap Tabled = {}
    /\ \A h, i \in InUse : objects[h].body = objects[i].body => h = i
    /\ \A r \in Refs :
         ref[r] # NoRef /\ ref[r].keeper # NoBody => ref[r].keeper \in Tabled

\* Components that register the same name get the same type however registrations
\* interleave and whatever longer names are registered beside it, as the comment in
\* ObRegisterObjectType says, provided the name fits the MAX_NAME_LEN buffer.
RegistrationIdempotent ==
    \A g1, g2 \in granted :
      (g1[1] = g2[1] /\ Cut[g1[1]] = g1[1]) => g1[2] = g2[2]

-----------------------------------------------------------------------------
\* The rest of the inductive invariant.

\* global_table.count is the number of slots in use.
CountExact == count = Cardinality(InUse)

\* No slot is deleted within its own deletion.
DeletingApart ==
    \A i, j \in DOMAIN deleting : deleting[i] = deleting[j] => i = j

\* Stored names are cut names, and a name that fits was granted its first entry.
RegistryExact ==
    /\ \A i \in TypeIds : Cut[object_types[i]] = object_types[i]
    /\ \A g \in granted :
         /\ g[2] < object_type_count
         /\ object_types[g[2]] = Cut[g[1]]
         /\ Cut[g[1]] = g[1] => \A j \in 1 .. g[2] - 1 : object_types[j] # g[1]

IInv ==
    /\ TypeOK
    /\ RefCountExact
    /\ OwnedBodyIsLive
    /\ OwnershipExact
    /\ DeletingApart
    /\ CountExact
    /\ RegistryExact
=============================================================================
