--------------------------- MODULE PeLoaderProofs ---------------------------
(***************************************************************************)
(* Theorems about PeLoader, for any files, whatever they import and in     *)
(* whatever order they are loaded.  A step inside a load is of one of      *)
(* three kinds (Quiet, Binds, Starts); the others begin an application,    *)
(* end a load, or end an application.  Each kind keeps the invariant.      *)
(***************************************************************************)
EXTENDS PeLoader, WellFoundedInduction, TLAPS

IInv == TypeOK /\ Linked /\ Apart /\ Recorded /\ Slotted /\ BoundToListed /\ BoundRight

ImageType == [file : Files, bound : Seq(Binding), live : BOOLEAN]
RecordType == [name : Names, image : Nat]
FrameType == [name : Names \cup {None}, image : Nat, pos : Nat, core : Nat,
              outer : Names \cup {None}]

\* The frames are the ones there were, up to their place in the core loop.
SameFrames ==
    /\ stack' \in Seq(FrameType)
    /\ Len(stack') = Len(stack)
    /\ \A d \in 1 .. Len(stack) :
          /\ stack'[d].name = stack[d].name /\ stack'[d].image = stack[d].image
          /\ stack'[d].pos = stack[d].pos

\* Nothing but the place in a loop and the answer to the last call.
Quiet ==
    /\ UNCHANGED <<images, dll_list, running, pe_loading_stack>>
    /\ calls' \in 0 .. MaxCalls
    /\ SameFrames
    /\ pe_current_loading_dll' \in Names \cup {None}
    /\ result' # None => stack # <<>> /\ result' \in Listed \cup {Missing}

\* One import of the innermost load is bound.
Binds(to) ==
    /\ Unresolved /\ Bind(to)
    /\ \/ to = Missing /\ ~Native
       \/ to = Platform /\ (Need.sym = None \/ Need.sym \in KernelExports \cup DriverSymbols)
       \/ to \in Listed /\ Need.sym \in Exports[images[to].file]
    /\ UNCHANGED <<dll_list, running, pe_loading_stack, pe_current_loading_dll, calls>>
    /\ SameFrames
    /\ result' = None

\* A DLL that is not listed or being built is begun.
Starts(name) ==
    /\ LoadedName(name) = {} /\ ~Refused(name)
    /\ IF FileOf[name] \in Elf THEN StartELF(name) ELSE StartPE(name)
    /\ result = None /\ result' = None
    /\ calls' \in 0 .. MaxCalls
    /\ UNCHANGED running

-----------------------------------------------------------------------------
(* The steps are of these kinds.                                           *)

LEMMA Typing ==
    ASSUME TypeOK
    PROVE  /\ Len(images) \in Nat /\ DOMAIN images = 1 .. Len(images)
           /\ \A i \in 1 .. Len(images) : images[i] \in ImageType
           /\ Len(dll_list) \in Nat /\ DOMAIN dll_list = 1 .. Len(dll_list)
           /\ \A i \in 1 .. Len(dll_list) : dll_list[i] \in RecordType
           /\ Len(stack) \in Nat /\ DOMAIN stack = 1 .. Len(stack)
           /\ \A d \in 1 .. Len(stack) : stack[d] \in FrameType
           /\ Len(pe_loading_stack) \in Nat
           /\ DOMAIN pe_loading_stack = 1 .. Len(pe_loading_stack)
           /\ \A e \in 1 .. Len(pe_loading_stack) : pe_loading_stack[e] \in Names
  <1>1. /\ images \in Seq(ImageType) /\ dll_list \in Seq(RecordType)
        /\ stack \in Seq(FrameType) /\ pe_loading_stack \in Seq(Names)
    BY Zenon DEF TypeOK, ImageType, RecordType, FrameType
  <1>2. Len(images) \in Nat /\ DOMAIN images = 1 .. Len(images)
        /\ \A i \in 1 .. Len(images) : images[i] \in ImageType
    BY <1>1
  <1>3. Len(dll_list) \in Nat /\ DOMAIN dll_list = 1 .. Len(dll_list)
        /\ \A i \in 1 .. Len(dll_list) : dll_list[i] \in RecordType
    BY <1>1
  <1>4. Len(stack) \in Nat /\ DOMAIN stack = 1 .. Len(stack)
        /\ \A d \in 1 .. Len(stack) : stack[d] \in FrameType
    BY <1>1
  <1>5. Len(pe_loading_stack) \in Nat /\ DOMAIN pe_loading_stack = 1 .. Len(pe_loading_stack)
        /\ \A e \in 1 .. Len(pe_loading_stack) : pe_loading_stack[e] \in Names
    BY <1>1
  <1> QED BY Zenon, <1>2, <1>3, <1>4, <1>5

\* The innermost load is the last frame.
LEMMA TopFrame ==
    ASSUME TypeOK, stack # <<>>
    PROVE  Len(stack) \in DOMAIN stack /\ Top \in FrameType /\ Len(stack) > 0
  <1>1. Len(stack) \in Nat /\ stack \in Seq(FrameType)
    BY DEF TypeOK, FrameType
  <1>2. Len(stack) > 0
    BY <1>1
  <1> QED BY <1>1, <1>2 DEF Top

\* What a name and a new frame hold.
LEMMA NamesTyped ==
    ASSUME NEW name \in Names
    PROVE  FileOf[name] \in Files /\ name # None /\ name \in Names \cup {None}
  <1>1. FileOf[name] \in Files
    BY LoaderAssumption, Zenon
  <1>2. None \notin Names
    BY Zenon, LoaderAssumption
  <1> QED BY Zenon, <1>1, <1>2

\* A new frame is well typed and has the fields given to it.
LEMMA FrameTyped ==
    ASSUME TypeOK, NEW name \in Names \cup {None}, NEW image \in Nat, NEW pos \in Nat
    PROVE  LET frame == Frame(name, image, pos, pe_current_loading_dll) IN
           /\ frame \in FrameType
           /\ frame.name = name /\ frame.image = image /\ frame.pos = pos
  BY Zenon DEF Frame, FrameType, TypeOK

\* A set of positions has a newest and an oldest one.
LEMMA Extremes ==
    ASSUME NEW n \in Nat, NEW S \in SUBSET (1 .. n), S # {}
    PROVE  Newest(S) \in S /\ Oldest(S) \in S
  <1>1. \A T \in SUBSET Nat : T # {} => \E x \in T : \A y \in T : ~(y < x)
    <2> SUFFICES ASSUME NEW T \in SUBSET Nat, T # {}
                 PROVE  \E x \in T : \A y \in T : ~(y < x)
      BY Zenon
    <2>1. PICK x \in T : \A y \in T : ~(<<y, x>> \in OpToRel(<, Nat))
      BY Zenon, WFMin, NatLessThanWellFounded
    <2> QED BY Zenon, <2>1 DEF OpToRel
  <1>2. \E i \in S : \A j \in S : i <= j
    <2>1. PICK i \in S : \A j \in S : ~(j < i)
      BY <1>1
    <2> QED BY <2>1
  <1>3. \E i \in S : \A j \in S : j <= i
    <2> DEFINE T == {x \in Nat : \E i \in S : x = n - i}
    <2>1. T \in SUBSET Nat /\ T # {}
      <3>1. PICK i : i \in S
        BY Zenon
      <3>2. i \in 1 .. n
        BY Zenon, <3>1
      <3>3. n - i \in Nat
        BY <3>2
      <3> QED BY Zenon, <3>1, <3>3
    <2> HIDE DEF T
    <2>2. PICK x \in T : \A y \in T : ~(y < x)
      BY Zenon, <1>1, <2>1
    <2>3. PICK i \in S : x = n - i
      BY Zenon, <2>2 DEF T
    <2>4. \A j \in S : n - j \in T
      BY DEF T
    <2>5. \A j \in S : j <= i
      BY <2>2, <2>3, <2>4
    <2> QED BY Zenon, <2>5
  <1> QED BY Zenon, <1>2, <1>3 DEF Newest, Oldest

\* What the searches find is listed and has the symbol.
LEMMA FoundInCore ==
    ASSUME IInv, NEW sym, CoreWith(sym) # {}
    PROVE  /\ PeFindCoreDllSymbol(sym) \in Listed
           /\ sym \in Exports[images[PeFindCoreDllSymbol(sym)].file]
  <1>1. CoreDlls \in Seq(Names) /\ Len(CoreDlls) \in Nat
    BY LoaderAssumption
  <1> DEFINE c == Oldest(CoreWith(sym))
             file == FileOf[CoreDlls[c]]
  <1>2. c \in CoreWith(sym)
    <2>1. CoreWith(sym) \in SUBSET (1 .. Len(CoreDlls))
      BY <1>1 DEF CoreWith
    <2> HIDE DEF CoreWith
    <2> QED BY Zenon, <1>1, <2>1, Extremes
  <1>3. LoadedFile(file) # {} /\ sym \in Exports[file]
    BY Zenon, <1>2 DEF CoreWith
  <1> DEFINE i == Newest(LoadedFile(file))
  <1>4. i \in LoadedFile(file)
    <2>1. LoadedFile(file) \in SUBSET (1 .. Len(dll_list)) /\ Len(dll_list) \in Nat
      BY Zenon, Typing DEF LoadedFile, IInv
    <2> HIDE DEF LoadedFile, file
    <2> QED BY Zenon, <1>3, <2>1, Extremes
  <1>5. i \in DOMAIN dll_list /\ FileOf[dll_list[i].name] = file
    BY Zenon, <1>4 DEF LoadedFile
  <1>6. dll_list[i].image \in Listed /\ images[dll_list[i].image].file = file
    BY Zenon, <1>5 DEF Listed, IInv, Linked
  <1>7. PeFindCoreDllSymbol(sym) = dll_list[i].image
    BY Zenon DEF PeFindCoreDllSymbol
  <1> QED BY Zenon, <1>3, <1>6, <1>7

\* PeFindLoadedSymbol answers with an image of the list that exports the symbol.
LEMMA FoundInList ==
    ASSUME IInv, NEW sym, LoadedWith(sym) # {}
    PROVE  /\ dll_list[Newest(LoadedWith(sym))].image \in Listed
           /\ sym \in Exports[images[dll_list[Newest(LoadedWith(sym))].image].file]
  <1> DEFINE i == Newest(LoadedWith(sym))
  <1>1. i \in LoadedWith(sym)
    <2>1. LoadedWith(sym) \in SUBSET (1 .. Len(dll_list)) /\ Len(dll_list) \in Nat
      BY Zenon, Typing DEF LoadedWith, IInv
    <2> HIDE DEF LoadedWith
    <2> QED BY Zenon, <2>1, Extremes
  <1> QED BY Zenon, <1>1 DEF LoadedWith, Listed

\* Moving on in the core loop keeps the frames.
LEMMA FramesKept ==
    ASSUME TypeOK
    PROVE  /\ UNCHANGED stack => SameFrames
           /\ \A n \in Nat : stack # <<>> /\ stack' = [stack EXCEPT ![Len(stack)].core = n] => SameFrames
  <1>1. stack \in Seq(FrameType)
    BY Zenon DEF TypeOK, FrameType
  <1>2. UNCHANGED stack => SameFrames
    BY Zenon, <1>1 DEF SameFrames
  <1>3. ASSUME NEW n \in Nat, stack # <<>>, stack' = [stack EXCEPT ![Len(stack)].core = n]
        PROVE  SameFrames
    <2>1. Len(stack) \in DOMAIN stack /\ stack[Len(stack)] \in FrameType
      BY Zenon, <1>3, TopFrame DEF Top
    <2>2. [stack[Len(stack)] EXCEPT !.core = n] \in FrameType
      BY Zenon, <2>1 DEF FrameType
    <2>3. stack' = [stack EXCEPT ![Len(stack)] = [stack[Len(stack)] EXCEPT !.core = n]]
      BY Zenon, <1>3
    <2>4. stack' \in Seq(FrameType) /\ Len(stack') = Len(stack)
      BY SMTT(30), <1>1, <2>1, <2>2, <2>3
    <2>5. \A d \in 1 .. Len(stack) : d # Len(stack) => stack'[d] = stack[d]
      BY <1>1, <2>3
    <2>6. stack'[Len(stack)] = [stack[Len(stack)] EXCEPT !.core = n]
      BY Zenon, <2>1, <2>3
    <2>7. /\ stack'[Len(stack)].name = stack[Len(stack)].name
          /\ stack'[Len(stack)].image = stack[Len(stack)].image
          /\ stack'[Len(stack)].pos = stack[Len(stack)].pos
      BY Zenon, <2>1, <2>6 DEF FrameType
    <2> QED BY Zenon, <2>4, <2>5, <2>7 DEF SameFrames
  <1> QED BY Zenon, <1>2, <1>3

\* PeLoadDll answers at once or begins a load.
LEMMA LoadIsQuietOrStarts ==
    ASSUME IInv, NEW name \in Names, PeLoadDll(name), UNCHANGED running,
           calls' \in 0 .. MaxCalls, result = None
    PROVE  Quiet \/ Starts(name)
  <1>1. SameFrames \/ stack' # stack
    BY Zenon, FramesKept DEF IInv
  <1>2. pe_current_loading_dll \in Names \cup {None}
    BY Zenon DEF IInv, TypeOK
  <1>3. CASE LoadedName(name) # {} /\ Answer(dll_list[Newest(LoadedName(name))].image)
    <2>1. LoadedName(name) \in SUBSET (1 .. Len(dll_list)) /\ Len(dll_list) \in Nat
      BY Zenon, Typing DEF LoadedName, IInv
    <2>2. Newest(LoadedName(name)) \in LoadedName(name)
      <3> HIDE DEF LoadedName
      <3> QED BY Zenon, <1>3, <2>1, Extremes
    <2>3. dll_list[Newest(LoadedName(name))].image \in Listed
      BY Zenon, <2>2 DEF LoadedName, Listed
    <2> QED BY Zenon, <1>1, <1>2, <1>3, <2>3 DEF Quiet, Answer
  <1>4. CASE LoadedName(name) = {} /\ Answer(Missing)
    BY Zenon, <1>1, <1>2, <1>4 DEF Quiet, Answer
  <1>5. CASE /\ LoadedName(name) = {} /\ ~Refused(name)
             /\ IF FileOf[name] \in Elf THEN StartELF(name) ELSE StartPE(name)
             /\ UNCHANGED result
    BY Zenon, <1>5 DEF Starts
  <1> QED BY Zenon, <1>3, <1>4, <1>5 DEF PeLoadDll

\* An import is unresolved only while its image is being built.
LEMMA NeedTyped ==
    ASSUME IInv, Unresolved
    PROVE  /\ stack # <<>> /\ Len(stack) \in DOMAIN stack
           /\ Top \in FrameType /\ Top.image \in DOMAIN images /\ Top.image \in InUse
           /\ Image \in ImageType /\ Len(Image.bound) \in Nat
           /\ Len(Image.bound) + 1 \in DOMAIN Needs[Image.file]
           /\ Need.dll \in Names
  <1>1. stack # <<>> /\ Len(stack) \in DOMAIN stack /\ Top \in FrameType
    BY Zenon, TopFrame DEF Unresolved, IInv
  <1>2. Top.image \in DOMAIN images /\ Top.image \in InUse
    BY Zenon, <1>1 DEF IInv, Linked, Top, InUse, Building
  <1>3. Image \in ImageType
    BY Zenon, <1>2, Typing DEF Image, IInv
  <1>4. Image.bound \in Seq(Binding) /\ Image.file \in Files
    BY Zenon, <1>3 DEF ImageType
  <1> DEFINE imports == [dll : Names, sym : UNION {Exports[g] : g \in Files}
                                 \cup KernelExports \cup DriverSymbols \cup {None}]
  <1>5. Needs[Image.file] \in Seq(imports)
    BY Zenon, <1>4, LoaderAssumption
  <1> HIDE DEF imports
  <1>6. Len(Image.bound) \in Nat /\ Len(Needs[Image.file]) \in Nat
        /\ DOMAIN Needs[Image.file] = 1 .. Len(Needs[Image.file])
    BY <1>4, <1>5
  <1>7. Len(Image.bound) + 1 \in DOMAIN Needs[Image.file]
    BY SMTT(30), <1>6 DEF Unresolved
  <1>8. Need \in imports
    BY <1>5, <1>7 DEF Need
  <1>9. Need.dll \in Names
    BY Zenon, <1>8 DEF imports
  <1> QED BY Zenon, <1>1, <1>2, <1>3, <1>6, <1>7, <1>9

\* Loading the DLL of an import answers at once or begins a load.
LEMMA ImportKind ==
    ASSUME IInv, ImportDll
    PROVE  Quiet \/ \E name \in Names : Starts(name)
  <1>1. Need.dll \in Names /\ result = None /\ calls' \in 0 .. MaxCalls
    BY Zenon, NeedTyped DEF ImportDll, IInv, TypeOK
  <1> QED BY Zenon, <1>1, LoadIsQuietOrStarts DEF ImportDll

\* PeResolveImports binds the import it is at.
LEMMA BindFunctionKind ==
    ASSUME IInv, BindFunction
    PROVE  \E to : Binds(to)
  <1> DEFINE to == IF Need.sym = None THEN Platform
                   ELSE IF result # Missing /\ Need.sym \in Exports[images[result].file]
                        THEN result ELSE Missing
  <1>1. Unresolved /\ ~Native /\ Bind(to) /\ result \in Listed \cup {Missing}
    BY Zenon DEF BindFunction, IInv, Linked
  <1>2. \/ to = Missing
        \/ to = Platform /\ Need.sym = None
        \/ to \in Listed /\ Need.sym \in Exports[images[to].file]
    BY Zenon, <1>1
  <1>3. SameFrames
    BY Zenon, FramesKept DEF BindFunction, IInv
  <1> HIDE DEF to
  <1>4. Binds(to)
    BY Zenon, <1>1, <1>2, <1>3 DEF Binds, BindFunction
  <1> QED BY Zenon, <1>4

\* An ELF symbol is bound at once, or the core DLLs are tried.
LEMMA FindSymbolKind ==
    ASSUME IInv, FindSymbol
    PROVE  Quiet \/ \E to : Binds(to)
  <1>0. Unresolved /\ result' = None /\ stack # <<>>
    BY Zenon DEF FindSymbol, Unresolved
  <1>1. CASE Need.sym \in KernelExports /\ Bind(Platform) /\ UNCHANGED stack
    <2>1. Binds(Platform)
      BY Zenon, <1>0, <1>1, FramesKept DEF FindSymbol, Binds, IInv
    <2> QED BY Zenon, <2>1
  <1>2. CASE /\ CoreWith(Need.sym) # {}
             /\ Bind(PeFindCoreDllSymbol(Need.sym)) /\ UNCHANGED stack
    <2>1. Binds(PeFindCoreDllSymbol(Need.sym))
      BY Zenon, <1>0, <1>2, FramesKept, FoundInCore DEF FindSymbol, Binds, IInv
    <2> QED BY Zenon, <2>1
  <1>3. CASE Need.sym \in DriverSymbols /\ Bind(Platform) /\ UNCHANGED stack
    <2>1. Binds(Platform)
      BY Zenon, <1>0, <1>3, FramesKept DEF FindSymbol, Binds, IInv
    <2> QED BY Zenon, <2>1
  <1>4. CASE stack' = [stack EXCEPT ![Len(stack)].core = 1] /\ UNCHANGED images
    BY Zenon, <1>0, <1>4, FramesKept DEF FindSymbol, Quiet, IInv, TypeOK
  <1> QED BY Zenon, <1>1, <1>2, <1>3, <1>4 DEF FindSymbol

\* Trying the next core DLL keeps the frames.
LEMMA NextCoreFrames ==
    ASSUME IInv, Unresolved, stack' = NextCore
    PROVE  SameFrames
  <1>1. stack[Len(stack)].core + 1 \in Nat /\ stack # <<>>
    BY NeedTyped DEF Top, FrameType
  <1> QED BY Zenon, <1>1, FramesKept DEF NextCore, IInv

\* Loading a core DLL answers at once or begins a load.
LEMMA LoadCoreKind ==
    ASSUME IInv, LoadCoreDll
    PROVE  Quiet \/ \E name \in Names : Starts(name)
  <1>1. /\ Unresolved /\ result = None /\ calls' \in 0 .. MaxCalls
        /\ pe_current_loading_dll \in Names \cup {None}
    BY Zenon DEF LoadCoreDll, IInv, TypeOK
  <1>2. CoreDlls[Top.core] \in Names
    <2>1. CoreDlls \in Seq(Names)
      BY Zenon, LoaderAssumption
    <2> QED BY <2>1 DEF LoadCoreDll
  <1>3. CASE PeLoadDll(CoreDlls[Top.core])
    BY Zenon, <1>1, <1>2, <1>3, LoadIsQuietOrStarts DEF LoadCoreDll
  <1>4. CASE ~PeLoadDll(CoreDlls[Top.core])
    <2>1. stack' = NextCore /\ UNCHANGED <<images, dll_list, result, pe_loading_stack, pe_current_loading_dll, running>>
      BY Zenon, <1>4 DEF LoadCoreDll
    <2> QED BY Zenon, <1>1, <2>1, NextCoreFrames DEF Quiet
  <1> QED BY Zenon, <1>3, <1>4

\* A core DLL that came back changes the place in the loop only.
LEMMA CoreLoadedKind ==
    ASSUME IInv, CoreDllLoaded
    PROVE  Quiet
  <1>1. Unresolved /\ SameFrames /\ calls' \in 0 .. MaxCalls
    BY Zenon, NextCoreFrames DEF CoreDllLoaded, IInv, TypeOK
  <1>2. Context \in Names \cup {None}
    BY Zenon, <1>1, NeedTyped DEF Context, FrameType
  <1> QED BY Zenon, <1>1, <1>2 DEF CoreDllLoaded, Quiet

\* After the core DLLs an ELF symbol is bound, or its load is abandoned.
LEMMA FindAgainKind ==
    ASSUME IInv, FindSymbolAgain
    PROVE  (\E to : Binds(to)) \/ AbandonELF
  <1> DEFINE found == IF CoreWith(Need.sym) # {} THEN {PeFindCoreDllSymbol(Need.sym)}
                      ELSE IF LoadedWith(Need.sym) # {}
                           THEN {dll_list[Newest(LoadedWith(Need.sym))].image} ELSE {}
  <1>1. CASE AbandonELF
    BY Zenon, <1>1
  <1>2. CASE \E image \in found :
                 /\ Bind(image)
                 /\ stack' = [stack EXCEPT ![Len(stack)].core = 0]
                 /\ UNCHANGED <<result, pe_loading_stack, pe_current_loading_dll>>
    <2>1. PICK image \in found :
                 /\ Bind(image)
                 /\ stack' = [stack EXCEPT ![Len(stack)].core = 0]
                 /\ UNCHANGED <<result, pe_loading_stack, pe_current_loading_dll>>
      BY Zenon, <1>2
    <2>2. image \in Listed /\ Need.sym \in Exports[images[image].file]
      BY Zenon, <2>1, FoundInCore, FoundInList
    <2>3. Unresolved /\ stack # <<>> /\ result = None /\ UNCHANGED <<dll_list, running, calls>>
      BY Zenon DEF FindSymbolAgain, Unresolved
    <2>4. SameFrames
      BY Zenon, <2>1, <2>3, FramesKept DEF IInv
    <2>5. Binds(image)
      BY Zenon, <2>1, <2>2, <2>3, <2>4 DEF Binds
    <2> QED BY Zenon, <2>5
  <1> QED BY Zenon, <1>1, <1>2 DEF FindSymbolAgain

-----------------------------------------------------------------------------
(* Each kind keeps the invariant.  First, steps that leave the frames and  *)
(* the list as they are.                                                   *)

LEMMA FrameView ==
    ASSUME IInv, SameFrames, UNCHANGED <<dll_list, running>>,
           DOMAIN images' = DOMAIN images,
           \A i \in DOMAIN images : images'[i].file = images[i].file
    PROVE  /\ DOMAIN stack' = DOMAIN stack
           /\ \A d \in DOMAIN stack :
                 /\ stack'[d].name = stack[d].name /\ stack'[d].image = stack[d].image
                 /\ stack'[d].pos = stack[d].pos
                 /\ stack[d].image \in DOMAIN images
                 /\ IsPE(d)' = IsPE(d) /\ IsELF(d)' = IsELF(d)
                 /\ BelowOf(d)' = BelowOf(d) /\ Outside(d)' = Outside(d)
           /\ Listed' = Listed /\ Building' = Building /\ InUse' = InUse
  <1>1. DOMAIN stack = 1 .. Len(stack)
    BY Zenon, Typing DEF IInv
  <1>2. DOMAIN stack' = 1 .. Len(stack)
    BY SMTT(30) DEF SameFrames
  <1>3. \A d \in DOMAIN stack :
            /\ stack'[d].name = stack[d].name /\ stack'[d].image = stack[d].image
            /\ stack'[d].pos = stack[d].pos
            /\ stack[d].image \in DOMAIN images
    BY Zenon, <1>1 DEF SameFrames, IInv, Linked
  <1>4. \A d \in DOMAIN stack : IsPE(d)' = IsPE(d) /\ IsELF(d)' = IsELF(d)
    BY Zenon, <1>3 DEF IsPE, IsELF
  <1>5. Building' = Building
    BY Zenon, <1>1, <1>2, <1>3 DEF Building
  <1>6. Listed' = Listed
    BY Zenon DEF Listed
  <1>7. InUse' = InUse
    BY Zenon, <1>5, <1>6 DEF InUse
  <1>8. \A d \in DOMAIN stack : BelowOf(d)' = BelowOf(d)
    BY Zenon, <1>3 DEF BelowOf
  <1>9. ASSUME NEW d \in DOMAIN stack PROVE Outside(d)' = Outside(d)
    <2>1. \A c \in 1 .. d - 1 : c \in DOMAIN stack
      BY <1>1, Typing DEF IInv
    <2>2. {stack'[c].image : c \in 1 .. d - 1} = {stack[c].image : c \in 1 .. d - 1}
      BY ZenonT(30), <1>3, <2>1
    <2> QED BY Zenon, <1>8, <2>2 DEF Outside
  <1> QED BY Zenon, <1>1, <1>2, <1>3, <1>4, <1>5, <1>6, <1>7, <1>8, <1>9

\* Bindings stay right when files and the loads in progress stay.
LEMMA RightKept ==
    ASSUME NEW image, Right(image),
           images'[image].file = images[image].file, images'[image].bound = images[image].bound,
           \A i \in DOMAIN images : i \in DOMAIN images' /\ images'[i].file = images[i].file,
           image \in Building' <=> image \in Building
    PROVE  Right(image)'
  BY Zenon DEF Right

\* A step of the quiet kind keeps the invariant.
LEMMA QuietKeeps ==
    ASSUME IInv, Quiet PROVE IInv'
  <1>1. /\ UNCHANGED <<images, dll_list, running, pe_loading_stack>> /\ SameFrames
        /\ calls' \in 0 .. MaxCalls
    BY Zenon DEF Quiet
  <1>2. /\ DOMAIN stack' = DOMAIN stack
        /\ \A d \in DOMAIN stack :
              /\ stack'[d].name = stack[d].name /\ stack'[d].image = stack[d].image
              /\ stack'[d].pos = stack[d].pos
              /\ IsPE(d)' = IsPE(d) /\ IsELF(d)' = IsELF(d)
              /\ BelowOf(d)' = BelowOf(d) /\ Outside(d)' = Outside(d)
        /\ Listed' = Listed /\ Building' = Building /\ InUse' = InUse
    BY Zenon, <1>1, FrameView
  <1>3. \A image : BoundTo(image)' = BoundTo(image)
    BY Zenon, <1>1 DEF BoundTo
  <1>4. TypeOK'
    <2>1. result' \in Binding \cup {None}
      <3>1. Listed \subseteq Nat
        BY Zenon, Typing DEF IInv, Listed, RecordType
      <3> QED BY Zenon, <3>1 DEF Quiet, Binding
    <2> QED BY Zenon, <1>1, <2>1 DEF Quiet, SameFrames, FrameType, IInv, TypeOK
  <1>5. Linked'
    <2>1. stack # <<>> => stack' # <<>>
      BY <1>2
    <2> QED BY ZenonT(30), <1>1, <1>2, <2>1 DEF Quiet, IInv, Linked
  <1>6. Apart'
    BY Zenon, <1>1, <1>2 DEF IInv, Apart
  <1>7. Recorded'
    BY ZenonT(30), <1>1, <1>2 DEF IInv, Recorded
  <1>8. Slotted'
    BY <1>1, <1>2 DEF IInv, Slotted
  <1>9. BoundToListed'
    BY Zenon, <1>2, <1>3 DEF IInv, BoundToListed
  <1>10. BoundRight'
    <2>1. \A image \in InUse : Right(image)'
      BY Zenon, <1>1, <1>2, RightKept DEF IInv, BoundRight
    <2> QED BY Zenon, <1>2, <2>1 DEF BoundRight
  <1> QED BY Zenon, <1>4, <1>5, <1>6, <1>7, <1>8, <1>9, <1>10 DEF IInv

\* The innermost load is not outside any PE load.
LEMMA TopInside ==
    ASSUME IInv, stack # <<>>, NEW d \in DOMAIN stack, IsPE(d)
    PROVE  Top.image \notin Outside(d)
  <1>0. /\ Len(stack) \in DOMAIN stack /\ DOMAIN stack = 1 .. Len(stack) /\ Len(stack) \in Nat
        /\ Top.image \in Building
    BY Zenon, TopFrame, Typing DEF IInv, Building, Top
  <1>1. Top.image \notin running
    BY Zenon, <1>0 DEF IInv, Apart
  <1>2. \A c \in 1 .. d - 1 : stack[c].image # Top.image
    BY <1>0 DEF IInv, Apart, Top
  <1>3. Top.image \notin BelowOf(d)
    <2>1. stack[d].pos \in DOMAIN dll_list /\ DOMAIN dll_list = 1 .. Len(dll_list) /\ Len(dll_list) \in Nat
      BY Zenon, Typing DEF IInv, Recorded
    <2>2. \A i \in 1 .. stack[d].pos - 1 : i \in DOMAIN dll_list
      BY <2>1
    <2>3. CASE ~IsPE(Len(stack))
      <3>1. Top.image \notin Listed
        BY Zenon, <1>0, <2>3 DEF IInv, Apart, Top
      <3> QED BY Zenon, <2>2, <3>1 DEF BelowOf, Listed
    <2>4. CASE IsPE(Len(stack))
      <3>1. Top.pos \in DOMAIN dll_list /\ dll_list[Top.pos].image = Top.image
        BY Zenon, <1>0, <2>4 DEF IInv, Recorded, Top
      <3>2. stack[d].pos <= Top.pos
        <4>1. CASE d = Len(stack)
          BY SMTT(30), <2>1, <4>1 DEF Top
        <4>2. CASE d < Len(stack)
          BY SMTT(30), <1>0, <2>1, <2>4, <3>1, <4>2 DEF IInv, Recorded, Top
        <4> QED BY SMTT(30), <1>0, <4>1, <4>2
      <3>3. \A i \in 1 .. stack[d].pos - 1 : dll_list[i].image = Top.image => i = Top.pos
        BY Zenon, <2>2, <3>1 DEF IInv, Apart
      <3> QED BY SMTT(30), <2>1, <3>1, <3>2, <3>3 DEF BelowOf
    <2> QED BY Zenon, <2>3, <2>4
  <1> QED BY Zenon, <1>1, <1>2, <1>3 DEF Outside

\* Binding an import appends to one image and leaves the others alone.
LEMMA BindFacts ==
    ASSUME IInv, Unresolved, NEW to \in Binding, Bind(to)
    PROVE  /\ images' \in Seq(ImageType)
           /\ DOMAIN images' = DOMAIN images
           /\ \A i \in DOMAIN images : /\ images'[i].file = images[i].file
                                       /\ images'[i].live = images[i].live
           /\ \A i \in DOMAIN images \ {Top.image} : images'[i].bound = images[i].bound
           /\ images'[Top.image].bound = Append(Image.bound, to)
  <1> DEFINE new == [Image EXCEPT !.bound = Append(Image.bound, to)]
  <1>1. Top.image \in DOMAIN images /\ Image \in ImageType
    BY Zenon, NeedTyped
  <1>2. Append(Image.bound, to) \in Seq(Binding)
    BY <1>1 DEF ImageType
  <1>3. /\ new \in ImageType /\ new.file = Image.file /\ new.live = Image.live
        /\ new.bound = Append(Image.bound, to)
    BY Zenon, <1>1, <1>2 DEF ImageType
  <1>4. images' = [images EXCEPT ![Top.image] = new]
    BY Zenon DEF Bind, Image
  <1>5. images \in Seq(ImageType)
    BY Zenon DEF IInv, TypeOK, ImageType
  <1> HIDE DEF new
  <1>6. images' \in Seq(ImageType) /\ DOMAIN images' = DOMAIN images
    BY SMTT(30), <1>1, <1>3, <1>4, <1>5
  <1>7. images'[Top.image] = new /\ \A i \in DOMAIN images \ {Top.image} : images'[i] = images[i]
    BY Zenon, <1>1, <1>4, <1>5
  <1> QED BY Zenon, <1>3, <1>6, <1>7 DEF Image

\* Binding an import keeps the invariant.
LEMMA BindsKeeps ==
    ASSUME IInv, NEW to, Binds(to) PROVE IInv'
  <1>0. /\ UNCHANGED <<dll_list, running, pe_loading_stack, pe_current_loading_dll, calls>>
        /\ SameFrames /\ Unresolved /\ Bind(to) /\ result' = None
    BY Zenon DEF Binds
  <1>1. to \in Binding /\ to \in Listed \cup {Missing, Platform}
    <2>1. Listed \subseteq Nat
      BY Zenon, Typing DEF IInv, Listed, RecordType
    <2>2. to \in Listed \cup {Missing, Platform}
      BY Zenon DEF Binds
    <2> QED BY SMTT(30), <2>1, <2>2 DEF Binding, Platform
  <1>2. /\ images' \in Seq(ImageType)
        /\ DOMAIN images' = DOMAIN images
        /\ \A i \in DOMAIN images : /\ images'[i].file = images[i].file
                                    /\ images'[i].live = images[i].live
        /\ \A i \in DOMAIN images \ {Top.image} : images'[i].bound = images[i].bound
        /\ images'[Top.image].bound = Append(Image.bound, to)
    BY Zenon, <1>0, <1>1, BindFacts
  <1>3. /\ DOMAIN stack' = DOMAIN stack
        /\ \A d \in DOMAIN stack :
              /\ stack'[d].name = stack[d].name /\ stack'[d].image = stack[d].image
              /\ stack'[d].pos = stack[d].pos
              /\ stack[d].image \in DOMAIN images
              /\ IsPE(d)' = IsPE(d) /\ IsELF(d)' = IsELF(d)
              /\ BelowOf(d)' = BelowOf(d) /\ Outside(d)' = Outside(d)
        /\ Listed' = Listed /\ Building' = Building /\ InUse' = InUse
    BY Zenon, <1>0, <1>2, FrameView
  <1>4. /\ stack # <<>> /\ Top.image \in DOMAIN images /\ Top.image \in InUse
        /\ Image \in ImageType /\ Image.bound \in Seq(Binding) /\ Len(Image.bound) \in Nat
        /\ Top.image \in Building /\ InUse \subseteq DOMAIN images
    <2>1. InUse \subseteq DOMAIN images
      BY ZenonT(30) DEF IInv, Linked, InUse, Listed, Building
    <2> QED BY Zenon, <1>0, <2>1, NeedTyped DEF ImageType, Building, Top
  <1>5. TypeOK'
    BY Zenon, <1>0, <1>2 DEF SameFrames, FrameType, ImageType, IInv, TypeOK
  <1>6. Linked'
    <2>1. \A image \in InUse : images'[image].live
      BY Zenon, <1>2, <1>4 DEF IInv, Linked
    <2> QED BY SMTT(30), <1>0, <1>2, <1>3, <2>1 DEF IInv, Linked
  <1>7. Apart'
    BY Zenon, <1>0, <1>3 DEF IInv, Apart
  <1>8. Recorded'
    BY ZenonT(30), <1>0, <1>3 DEF IInv, Recorded
  <1>9. Slotted'
    BY SMTT(30), <1>0, <1>3 DEF IInv, Slotted
  <1>10. BoundToListed'
    <2>1. \A image \in DOMAIN images \ {Top.image} : BoundTo(image)' = BoundTo(image)
      BY SMTT(30), <1>2 DEF BoundTo
    <2>2. BoundTo(Top.image) = {Image.bound[k] : k \in DOMAIN Image.bound} \ {Platform, Missing}
      BY Zenon DEF BoundTo, Image
    <2>3. \A image : image = Top.image => BoundTo(image)' \subseteq BoundTo(Top.image) \cup Listed
      <3>1. \A k \in DOMAIN Append(Image.bound, to) :
                Append(Image.bound, to)[k] \in {Image.bound[j] : j \in DOMAIN Image.bound} \cup {to}
        BY SMTT(30), <1>1, <1>4
      <3> SUFFICES ASSUME NEW image, image = Top.image, NEW x \in BoundTo(image)'
                   PROVE  x \in BoundTo(Top.image) \cup Listed
        BY Zenon
      <3>2. images'[image].bound = Append(Image.bound, to)
        BY Zenon, <1>2
      <3>3. PICK k \in DOMAIN Append(Image.bound, to) :
                x = Append(Image.bound, to)[k] /\ x \notin {Platform, Missing}
        BY Zenon, <3>2 DEF BoundTo
      <3> QED BY Zenon, <1>1, <2>2, <3>1, <3>3
    <2>4. \A image \in InUse : BoundTo(image)' \subseteq Listed
      BY Zenon, <1>4, <2>1, <2>3 DEF IInv, BoundToListed
    <2>5. ASSUME NEW d \in DOMAIN stack, IsPE(d), NEW image \in Outside(d)
          PROVE  BoundTo(image)' \subseteq BelowOf(d)
      <3>1. image # Top.image
        BY Zenon, <1>4, <2>5, TopInside
      <3>2. image \in DOMAIN images
        <4>1. BelowOf(d) \subseteq Listed
          <5>1. stack[d].pos \in DOMAIN dll_list
            BY Zenon, <2>5 DEF IInv, Recorded
          <5> QED BY SMTT(30), <5>1, Typing DEF BelowOf, Listed, IInv
        <4>2. {stack[c].image : c \in 1 .. d - 1} \subseteq Building
          BY SMTT(30), Typing DEF Building, IInv
        <4> QED BY Zenon, <1>4, <2>5, <4>1, <4>2 DEF Outside, InUse
      <3> QED BY Zenon, <2>1, <2>5, <3>1, <3>2 DEF IInv, BoundToListed
    <2> QED BY Zenon, <1>3, <2>4, <2>5 DEF BoundToListed
  <1>11. BoundRight'
    <2>1. \A i \in DOMAIN images : images'[i].file = images[i].file
      BY Zenon, <1>2
    <2>2. ASSUME NEW image \in InUse, image # Top.image PROVE Right(image)'
      <3>1. /\ images'[image].bound = images[image].bound
            /\ images'[image].file = images[image].file
        BY Zenon, <1>2, <1>4, <2>2
      <3>2. Right(image)
        BY Zenon, <2>2 DEF IInv, BoundRight
      <3>3. \A i \in DOMAIN images : i \in DOMAIN images' /\ images'[i].file = images[i].file
        BY Zenon, <1>2
      <3>4. Building' = Building
        BY Zenon, <1>3
      <3> QED BY Zenon, <3>1, <3>2, <3>3, <3>4, RightKept
    <2> DEFINE new == Append(Image.bound, to)
    <2>3. /\ Len(new) <= Len(Needs[Image.file])
          /\ \A k \in DOMAIN new :
                /\ new[k] = Missing => Image.file \notin Elf
                /\ new[k] = Platform /\ Needs[Image.file][k].sym # None =>
                      Needs[Image.file][k].sym \in KernelExports \cup DriverSymbols
                /\ new[k] \notin {Missing, Platform} =>
                      /\ new[k] \in DOMAIN images
                      /\ Needs[Image.file][k].sym \in Exports[images[new[k]].file]
      <3> DEFINE needs == Needs[Image.file]
                 old == Image.bound
                 bound == Append(old, to)
                 n == Len(old)
      <3>1. /\ Len(bound) = n + 1 /\ DOMAIN bound = 1 .. n + 1 /\ n \in Nat
            /\ bound[n + 1] = to /\ \A k \in 1 .. n : bound[k] = old[k]
            /\ DOMAIN old = 1 .. n
        BY SMTT(30), <1>1, <1>4
      <3>2. n + 1 <= Len(needs)
        <4>1. Len(Image.bound) + 1 \in DOMAIN Needs[Image.file] /\ Image.file \in Files
          BY Zenon, <1>0, NeedTyped DEF ImageType
        <4>2. Needs[Image.file] \in Seq([dll : Names, sym : UNION {Exports[g] : g \in Files}
                                 \cup KernelExports \cup DriverSymbols \cup {None}])
          BY Zenon, <4>1, LoaderAssumption
        <4> QED BY SMTT(30), <4>1, <4>2
      <3>3. \A k \in 1 .. n :
                    /\ old[k] = Missing => Image.file \notin Elf
                    /\ old[k] = Platform /\ needs[k].sym # None =>
                          needs[k].sym \in KernelExports \cup DriverSymbols
                    /\ old[k] \notin {Missing, Platform} =>
                          old[k] \in DOMAIN images /\ needs[k].sym \in Exports[images[old[k]].file]
        BY Zenon, <1>4, <3>1 DEF IInv, BoundRight, Right, Image
      <3>4. /\ to = Missing => Image.file \notin Elf
            /\ to = Platform /\ needs[n + 1].sym # None =>
                  needs[n + 1].sym \in KernelExports \cup DriverSymbols
            /\ to \notin {Missing, Platform} =>
                  to \in DOMAIN images /\ needs[n + 1].sym \in Exports[images[to].file]
        <4>1. Listed \subseteq DOMAIN images
          BY Zenon, <1>4 DEF InUse
        <4>2. needs[n + 1] = Need
          BY Zenon DEF Need
        <4>3. Listed \subseteq 1 .. Len(images)
          BY Zenon, <4>1, Typing DEF IInv
        <4>4. Missing \notin Listed /\ Platform \notin Listed /\ Missing # Platform
          BY SMTT(30), <4>3, Typing DEF Missing, Platform, IInv
        <4> QED BY <4>1, <4>2, <4>4 DEF Binds, Native
      <3> HIDE DEF needs, old, bound, n
      <3>5. \A k \in DOMAIN bound :
                    /\ bound[k] = Missing => Image.file \notin Elf
                    /\ bound[k] = Platform /\ needs[k].sym # None =>
                          needs[k].sym \in KernelExports \cup DriverSymbols
                    /\ bound[k] \notin {Missing, Platform} =>
                          bound[k] \in DOMAIN images /\ needs[k].sym \in Exports[images[bound[k]].file]
        <4>1. \A k \in 1 .. n + 1 : k \in 1 .. n \/ k = n + 1
          BY SMTT(30), <3>1
        <4> QED BY Zenon, <3>1, <3>3, <3>4, <4>1
      <3> QED BY Zenon, <3>1, <3>2, <3>5 DEF needs, old, bound, n
    <2>4. images'[Top.image].file = Image.file
      BY Zenon, <1>2, <1>4 DEF Image
    <2>5. ASSUME NEW image, image = Top.image PROVE Right(image)'
      <3>1. images'[image].bound = new /\ images'[image].file = Image.file /\ image \in Building'
        BY Zenon, <1>2, <1>3, <1>4, <2>4, <2>5
      <3> HIDE DEF new
      <3>2. \A k \in DOMAIN new : new[k] \notin {Missing, Platform} =>
                images'[new[k]].file = images[new[k]].file /\ new[k] \in DOMAIN images'
        BY Zenon, <1>2, <2>3
      <3> QED BY ZenonT(30), <2>3, <3>1, <3>2 DEF Right
    <2> QED BY Zenon, <1>3, <2>2, <2>5 DEF BoundRight
  <1> QED BY Zenon, <1>5, <1>6, <1>7, <1>8, <1>9, <1>10, <1>11 DEF IInv

-----------------------------------------------------------------------------
(* A load begins: one image and one frame more.                            *)

LEMMA Places ==
    ASSUME IInv
    PROVE  /\ InUse \subseteq DOMAIN images
           /\ Listed \subseteq InUse /\ Building \subseteq InUse /\ running \subseteq InUse
           /\ \A d \in DOMAIN stack : IsPE(d) => BelowOf(d) \subseteq Listed /\ Outside(d) \subseteq InUse
  <1>1. InUse \subseteq DOMAIN images
    BY ZenonT(30) DEF IInv, Linked, InUse, Listed, Building
  <1>2. ASSUME NEW d \in DOMAIN stack, IsPE(d)
        PROVE  BelowOf(d) \subseteq Listed /\ Outside(d) \subseteq InUse
    <2>1. stack[d].pos \in DOMAIN dll_list
      BY Zenon, <1>2 DEF IInv, Recorded
    <2>2. BelowOf(d) \subseteq Listed
      BY SMTT(30), <2>1, Typing DEF BelowOf, Listed, IInv
    <2>3. {stack[c].image : c \in 1 .. d - 1} \subseteq Building
      BY SMTT(30), Typing DEF Building, IInv
    <2> QED BY Zenon, <2>2, <2>3 DEF Outside, InUse
  <1> QED BY Zenon, <1>1, <1>2 DEF InUse

\* A new image is none of those there were, and nothing is bound to it.
LEMMA GrowImages ==
    ASSUME IInv, NEW file \in Files, images' = NewImage(file)
    PROVE  LET n == Len(images) + 1
           IN  /\ images' \in Seq(ImageType)
               /\ DOMAIN images' = DOMAIN images \cup {n} /\ n \notin DOMAIN images
               /\ \A i \in DOMAIN images : images'[i] = images[i]
               /\ images'[n].file = file /\ images'[n].live /\ images'[n].bound = <<>>
               /\ \A i \in DOMAIN images : BoundTo(i)' = BoundTo(i)
               /\ \A i : i = n => BoundTo(i)' = {}
  <1> DEFINE n == Len(images) + 1
             image == [file |-> file, bound |-> <<>>, live |-> TRUE]
  <1>1. /\ image \in ImageType /\ images \in Seq(ImageType)
        /\ image.file = file /\ image.live /\ image.bound = <<>>
    BY DEF IInv, TypeOK, ImageType, Binding
  <1>2. images' = Append(images, image)
    BY Zenon DEF NewImage
  <1> HIDE DEF image
  <1>3. /\ images' \in Seq(ImageType)
        /\ DOMAIN images' = DOMAIN images \cup {n} /\ n \notin DOMAIN images
        /\ \A i \in DOMAIN images : images'[i] = images[i]
        /\ images'[n] = image
    BY SMTT(30), <1>1, <1>2
  <1>4. \A i \in DOMAIN images : BoundTo(i)' = BoundTo(i)
    BY Zenon, <1>3 DEF BoundTo
  <1>5. ASSUME NEW i, i = n PROVE BoundTo(i)' = {}
    <2>1. images'[i].bound = <<>>
      BY Zenon, <1>1, <1>3, <1>5
    <2> QED BY SMTT(30), <2>1 DEF BoundTo
  <1> QED BY Zenon, <1>1, <1>3, <1>4, <1>5

\* A new frame goes on top of those there were.
LEMMA GrowStack ==
    ASSUME IInv, NEW frame \in FrameType, stack' = Append(stack, frame)
    PROVE  LET t == Len(stack) + 1
           IN  /\ stack' \in Seq(FrameType)
               /\ DOMAIN stack' = DOMAIN stack \cup {t} /\ t \notin DOMAIN stack
               /\ \A d \in DOMAIN stack : stack'[d] = stack[d] /\ d < t /\ d \in Nat
               /\ stack'[t] = frame /\ t \in Nat /\ t > 0
               /\ DOMAIN stack = 1 .. t - 1
  <1>1. stack \in Seq(FrameType)
    BY Zenon DEF IInv, TypeOK, FrameType
  <1> QED BY <1>1

\* The old frames, once images and frames have grown and the list has not lost
\* anything.
LEMMA GrowView ==
    ASSUME IInv, UNCHANGED running,
           \A i \in DOMAIN images : images'[i] = images[i],
           \A d \in DOMAIN stack : d \in DOMAIN stack' /\ stack'[d] = stack[d],
           \A i \in DOMAIN dll_list : dll_list'[i] = dll_list[i]
    PROVE  /\ \A d \in DOMAIN stack : IsPE(d)' = IsPE(d) /\ IsELF(d)' = IsELF(d)
           /\ \A d \in DOMAIN stack : IsPE(d) =>
                 BelowOf(d)' = BelowOf(d) /\ Outside(d)' = Outside(d)
  <1>1. /\ Len(stack) \in Nat /\ DOMAIN stack = 1 .. Len(stack)
        /\ Len(dll_list) \in Nat /\ DOMAIN dll_list = 1 .. Len(dll_list)
    BY Zenon, Typing DEF IInv
  <1>2. \A d \in DOMAIN stack : stack[d].image \in DOMAIN images
    BY Zenon DEF IInv, Linked
  <1>3. \A d \in DOMAIN stack : IsPE(d)' = IsPE(d) /\ IsELF(d)' = IsELF(d)
    BY ZenonT(30), <1>2 DEF IsPE, IsELF
  <1>4. ASSUME NEW d \in DOMAIN stack, IsPE(d)
        PROVE  BelowOf(d)' = BelowOf(d) /\ Outside(d)' = Outside(d)
    <2>1. stack[d].pos \in DOMAIN dll_list /\ stack'[d].pos = stack[d].pos
      BY Zenon, <1>4 DEF IInv, Recorded
    <2>2. \A i \in 1 .. stack[d].pos - 1 : i \in DOMAIN dll_list
      BY <1>1, <2>1
    <2>3. BelowOf(d)' = BelowOf(d)
      BY <2>1, <2>2 DEF BelowOf
    <2>4. \A c \in 1 .. d - 1 : c \in DOMAIN stack
      BY <1>1
    <2>5. {stack'[c].image : c \in 1 .. d - 1} = {stack[c].image : c \in 1 .. d - 1}
      BY Zenon, <2>4
    <2> QED BY Zenon, <2>3, <2>5 DEF Outside
  <1> QED BY Zenon, <1>3, <1>4

\* What a load that begins adds: an image n, a frame t, and possibly a record
\* of the image.  The names stand for Len(images) + 1 and Len(stack) + 1.
Begins(n, t, frame, file) ==
    /\ DOMAIN images' = DOMAIN images \cup {n} /\ n \notin DOMAIN images
    /\ \A i \in DOMAIN images : images'[i] = images[i]
    /\ images'[n].file = file /\ images'[n].live /\ images'[n].bound = <<>>
    /\ DOMAIN stack' = DOMAIN stack \cup {t} /\ t \notin DOMAIN stack
    /\ \A d \in DOMAIN stack : stack'[d] = stack[d]
    /\ stack'[t] = frame /\ frame.image = n
    /\ Listed' \subseteq Listed \cup {n} /\ Listed \subseteq Listed'
    /\ running' = running

\* A load that begins adds its image to those being built and in use.
LEMMA BeginPlaces ==
    ASSUME IInv, NEW n, NEW t, NEW frame, NEW file, Begins(n, t, frame, file)
    PROVE  /\ Building' = Building \cup {n} /\ InUse' = InUse \cup {n}
           /\ InUse \subseteq DOMAIN images /\ n \notin InUse
           /\ Listed \subseteq InUse /\ Building \subseteq InUse /\ running \subseteq InUse
  <1>1. InUse \subseteq DOMAIN images /\ Listed \subseteq InUse /\ Building \subseteq InUse /\ running \subseteq InUse
    BY Zenon, Places
  <1>2. Building' = Building \cup {n}
    BY DEF Begins, Building
  <1>3. InUse' = InUse \cup {n}
    BY Zenon, <1>2 DEF Begins, InUse
  <1> QED BY Zenon, <1>1, <1>2, <1>3 DEF Begins

\* A load that begins keeps list, frames and images linked.
LEMMA BeginLinked ==
    ASSUME IInv, NEW n, NEW t, NEW frame, NEW file, Begins(n, t, frame, file),
           \A i \in DOMAIN dll_list' :
               \/ i \in DOMAIN dll_list /\ dll_list'[i] = dll_list[i]
               \/ dll_list'[i].image = n /\ FileOf[dll_list'[i].name] = file,
           frame.name # None => file = FileOf[frame.name],
           frame.name = None => t = 1,
           result' = None
    PROVE  Linked'
  <1>1. \A i \in DOMAIN dll_list' : /\ dll_list'[i].image \in DOMAIN images'
                                    /\ images'[dll_list'[i].image].file = FileOf[dll_list'[i].name]
    BY SMTT(30) DEF Begins, IInv, Linked
  <1>2. \A d \in DOMAIN stack' :
            /\ stack'[d].image \in DOMAIN images'
            /\ stack'[d].name # None => images'[stack'[d].image].file = FileOf[stack'[d].name]
            /\ stack'[d].name = None => d = 1
    BY SMTT(30) DEF Begins, IInv, Linked
  <1>3. \A image \in InUse' : images'[image].live
    <2>1. InUse' = InUse \cup {n} /\ InUse \subseteq DOMAIN images
      BY Zenon, BeginPlaces
    <2> QED BY SMTT(30), <2>1 DEF Begins, IInv, Linked
  <1>4. running' \subseteq DOMAIN images'
    BY Zenon DEF Begins, IInv, Linked
  <1> QED BY Zenon, <1>1, <1>2, <1>3, <1>4 DEF Linked

\* A load that begins keeps the images of list and frames apart.
LEMMA BeginApart ==
    ASSUME IInv, NEW n, NEW t, NEW frame, NEW file, Begins(n, t, frame, file),
           \A i, j \in DOMAIN dll_list' : dll_list'[i].image = dll_list'[j].image => i = j,
           \A d \in DOMAIN stack : IsPE(d)' = IsPE(d),
           \A d : d = t => IsPE(d)' \/ Listed' = Listed
    PROVE  Apart'
  <1>1. /\ Building' = Building \cup {n} /\ n \notin Listed /\ n \notin Building /\ n \notin running
    BY Zenon, BeginPlaces
  <1>2. \A d \in DOMAIN stack : stack'[d] = stack[d] /\ stack[d].image # n
    BY Zenon, <1>1 DEF Begins, Building
  <1>3. \A c, d \in DOMAIN stack' : stack'[c].image = stack'[d].image => c = d
    BY SMTT(30), <1>2 DEF Begins, IInv, Apart
  <1>4. running' \cap (Listed' \cup Building') = {}
    BY SMTT(30), <1>1 DEF Begins, IInv, Apart
  <1>5. \A d \in DOMAIN stack' : ~IsPE(d)' => stack'[d].image \notin Listed'
    BY <1>1, <1>2 DEF Begins, IInv, Apart
  <1> QED BY Zenon, <1>3, <1>4, <1>5 DEF Apart

\* A load that begins keeps what the images are bound to.
LEMMA BeginBound ==
    ASSUME IInv, NEW n, NEW t, NEW frame, NEW file \in Files, Begins(n, t, frame, file),
           \A i \in DOMAIN images : BoundTo(i)' = BoundTo(i),
           \A i : i = n => BoundTo(i)' = {},
           \A d \in DOMAIN stack : IsPE(d)' = IsPE(d),
           \A d \in DOMAIN stack : IsPE(d) => BelowOf(d)' = BelowOf(d) /\ Outside(d)' = Outside(d),
           \A d : d = t /\ IsPE(d)' => BelowOf(d)' = Listed /\ Outside(d)' \subseteq InUse
    PROVE  BoundToListed' /\ BoundRight'
  <1>1. /\ InUse' = InUse \cup {n} /\ InUse \subseteq DOMAIN images /\ n \notin InUse
        /\ Building' = Building \cup {n} /\ Listed \subseteq Listed'
        /\ DOMAIN stack' = DOMAIN stack \cup {t}
    BY Zenon, BeginPlaces DEF Begins
  <1>2. \A image \in InUse' : BoundTo(image)' \subseteq Listed'
    BY Zenon, <1>1 DEF IInv, BoundToListed
  <1>3. ASSUME NEW d \in DOMAIN stack', IsPE(d)', NEW image \in Outside(d)'
        PROVE  BoundTo(image)' \subseteq BelowOf(d)'
    <2>1. CASE d = t
      <3>1. image \in InUse /\ BelowOf(d)' = Listed
        BY Zenon, <1>3, <2>1
      <3> QED BY Zenon, <1>1, <3>1 DEF IInv, BoundToListed
    <2>2. CASE d \in DOMAIN stack
      <3>1. IsPE(d) /\ image \in Outside(d) /\ BelowOf(d)' = BelowOf(d)
        BY Zenon, <1>3, <2>2
      <3>2. image \in DOMAIN images
        BY Zenon, <1>1, <2>2, <3>1, Places
      <3> QED BY ZenonT(30), <2>2, <3>1, <3>2 DEF IInv, BoundToListed
    <2> QED BY Zenon, <1>1, <2>1, <2>2
  <1>4. ASSUME NEW image \in InUse PROVE Right(image)'
    <2>1. image \in DOMAIN images /\ Right(image) /\ (image \in Building' <=> image \in Building)
      BY Zenon, <1>1 DEF IInv, BoundRight
    <2>2. \A i \in DOMAIN images : i \in DOMAIN images' /\ images'[i] = images[i]
      BY Zenon DEF Begins
    <2> QED BY Zenon, <2>1, <2>2, RightKept
  <1>5. ASSUME NEW image, image = n PROVE Right(image)'
    <2>1. images'[image].bound = <<>> /\ image \in Building' /\ images'[image].file = file
      BY Zenon, <1>1, <1>5 DEF Begins
    <2>2. Len(Needs[file]) >= 0
      BY SMTT(30), LoaderAssumption
    <2>3. DOMAIN images'[image].bound = {} /\ Len(images'[image].bound) = 0
      BY <2>1
    <2> QED BY Zenon, <2>1, <2>2, <2>3 DEF Right
  <1> QED BY Zenon, <1>1, <1>2, <1>3, <1>4, <1>5 DEF BoundToListed, BoundRight

\* Beginning to load a PE file, listed at once, keeps the invariant.
LEMMA StartPEKeeps ==
    ASSUME IInv, NEW name \in Names, Starts(name), FileOf[name] \notin Elf
    PROVE  IInv'
  <1> DEFINE n == Len(images) + 1
             t == Len(stack) + 1
             p == Len(dll_list) + 1
             frame == Frame(name, n, p, pe_current_loading_dll)
             record == [name |-> name, image |-> n]
             file == FileOf[name]
  <1>0. /\ images' = NewImage(file) /\ stack' = Append(stack, frame)
        /\ dll_list' = Append(dll_list, record)
        /\ UNCHANGED <<pe_loading_stack, pe_current_loading_dll, running>>
        /\ result' = None /\ calls' \in 0 .. MaxCalls
    BY Zenon DEF Starts, StartPE
  <1>1. /\ file \in Files /\ frame \in FrameType /\ record \in RecordType
        /\ frame.image = n /\ frame.pos = p /\ frame.name = name /\ name # None
        /\ record.name = name /\ record.image = n /\ p \in Nat
    <2>1. p \in Nat /\ n \in Nat
      BY SMTT(30), Typing DEF IInv
    <2>2. TypeOK /\ name \in Names \cup {None} /\ file \in Files /\ name # None
      BY Zenon, NamesTyped DEF IInv
    <2>3. frame \in FrameType /\ frame.image = n /\ frame.pos = p /\ frame.name = name
      BY SMTT(30), <2>1, <2>2, FrameTyped
    <2>4. record \in RecordType /\ record.name = name /\ record.image = n
      BY SMTT(30), <2>1 DEF RecordType
    <2> QED BY Zenon, <2>1, <2>2, <2>3, <2>4
  <1> HIDE DEF frame, record
  <1>2. /\ dll_list' \in Seq(RecordType) /\ DOMAIN dll_list' = DOMAIN dll_list \cup {p}
        /\ \A i \in DOMAIN dll_list : dll_list'[i] = dll_list[i] /\ i < p
        /\ dll_list'[p] = record /\ DOMAIN dll_list = 1 .. p - 1
    <2>1. dll_list \in Seq(RecordType)
      BY Zenon DEF IInv, TypeOK, RecordType
    <2> QED BY SMTT(30), <1>0, <1>1, <2>1
  <1>3. /\ images' \in Seq(ImageType)
        /\ DOMAIN images' = DOMAIN images \cup {n} /\ n \notin DOMAIN images
        /\ \A i \in DOMAIN images : images'[i] = images[i]
        /\ images'[n].file = file /\ images'[n].live /\ images'[n].bound = <<>>
        /\ \A i \in DOMAIN images : BoundTo(i)' = BoundTo(i)
        /\ \A i : i = n => BoundTo(i)' = {}
    BY Zenon, <1>0, <1>1, GrowImages
  <1>4. /\ stack' \in Seq(FrameType)
        /\ DOMAIN stack' = DOMAIN stack \cup {t} /\ t \notin DOMAIN stack
        /\ \A d \in DOMAIN stack : stack'[d] = stack[d] /\ d < t /\ d \in Nat
        /\ stack'[t] = frame /\ t \in Nat /\ DOMAIN stack = 1 .. t - 1
    BY Zenon, <1>0, <1>1, GrowStack
  <1>5. /\ \A d \in DOMAIN stack : IsPE(d)' = IsPE(d) /\ IsELF(d)' = IsELF(d)
        /\ \A d \in DOMAIN stack : IsPE(d) => BelowOf(d)' = BelowOf(d) /\ Outside(d)' = Outside(d)
    <2>1. \A d \in DOMAIN stack : d \in DOMAIN stack' /\ stack'[d] = stack[d]
      BY Zenon, <1>4
    <2> QED BY Zenon, <1>0, <1>2, <1>3, <2>1, GrowView
  <1> HIDE DEF n, t, p, file
  <1>6. Listed' = Listed \cup {n}
    BY ZenonT(30), <1>1, <1>2 DEF Listed
  <1>7. Begins(n, t, frame, file)
    BY Zenon, <1>0, <1>1, <1>3, <1>4, <1>6 DEF Begins
  <1>8. \A d : d = t => IsPE(d)' /\ ~IsELF(d)'
    BY ZenonT(30), <1>1, <1>3, <1>4 DEF IsPE, IsELF, file
  <1>9. TypeOK'
    BY ZenonT(30), <1>0, <1>2, <1>3, <1>4 DEF FrameType, ImageType, RecordType, IInv, TypeOK
  <1>10. Linked'
    <2>1. \A i \in DOMAIN dll_list' :
               \/ i \in DOMAIN dll_list /\ dll_list'[i] = dll_list[i]
               \/ dll_list'[i].image = n /\ FileOf[dll_list'[i].name] = file
      BY Zenon, <1>1, <1>2 DEF file
    <2>2. frame.name # None => file = FileOf[frame.name]
      BY Zenon, <1>1 DEF file
    <2> QED BY SMTT(30), <1>0, <1>1, <1>7, <2>1, <2>2, BeginLinked
  <1>11. Apart'
    <2>1. n \notin Listed
      BY Zenon, <1>7, BeginPlaces
    <2>2. \A i \in DOMAIN dll_list : dll_list[i].image # n
      BY Zenon, <2>1 DEF Listed
    <2>3. \A i, j \in DOMAIN dll_list' : dll_list'[i].image = dll_list'[j].image => i = j
      BY SMTT(30), <1>1, <1>2, <2>2 DEF IInv, Apart
    <2> QED BY Zenon, <1>5, <1>7, <1>8, <2>3, BeginApart
  <1>12. Recorded'
    <2>1. \A d \in DOMAIN stack' : IsPE(d)' =>
              /\ stack'[d].pos \in DOMAIN dll_list'
              /\ dll_list'[stack'[d].pos].name = stack'[d].name
              /\ dll_list'[stack'[d].pos].image = stack'[d].image
      BY SMTT(30), <1>1, <1>2, <1>4, <1>5 DEF IInv, Recorded
    <2>2. ASSUME NEW c \in DOMAIN stack', NEW d \in DOMAIN stack', IsPE(c)', IsPE(d)', c < d
          PROVE  stack'[c].pos < stack'[d].pos
      <3>1. c \in DOMAIN stack
        BY SMTT(30), <1>4, <2>2
      <3>2. stack[c].pos \in DOMAIN dll_list /\ stack'[c] = stack[c]
        BY Zenon, <1>4, <1>5, <2>2, <3>1 DEF IInv, Recorded
      <3>3. CASE d = t
        BY Zenon, <1>1, <1>2, <1>4, <3>2, <3>3
      <3>4. CASE d \in DOMAIN stack
        BY ZenonT(30), <1>4, <1>5, <2>2, <3>1, <3>4 DEF IInv, Recorded
      <3> QED BY Zenon, <1>4, <3>3, <3>4
    <2> QED BY ZenonT(30), <2>1, <2>2 DEF Recorded
  <1>13. Slotted'
    <2>1. \A d \in DOMAIN stack' : IsELF(d)' => d \in DOMAIN stack /\ IsELF(d) /\ stack'[d] = stack[d]
      BY Zenon, <1>4, <1>5, <1>8
    <2>2. \A d \in DOMAIN stack : IsELF(d) => IsELF(d)' /\ d \in DOMAIN stack' /\ stack'[d] = stack[d]
      BY Zenon, <1>4, <1>5
    <2> QED BY SMTT(30), <1>0, <2>1, <2>2 DEF IInv, Slotted
  <1>14. BoundToListed' /\ BoundRight'
    <2>1. \A d : d = t => BelowOf(d)' = Listed /\ Outside(d)' \subseteq InUse
      <3> SUFFICES ASSUME NEW d, d = t PROVE BelowOf(d)' = Listed /\ Outside(d)' \subseteq InUse
        BY Zenon
      <3>1. BelowOf(d)' = Listed
        <4>1. stack'[d].pos = p
          BY Zenon, <1>1, <1>4
        <4> QED BY Zenon, <1>2, <4>1 DEF BelowOf, Listed
      <3>2. {stack'[c].image : c \in 1 .. d - 1} \subseteq Building
        BY Zenon, <1>4 DEF Building
      <3> QED BY Zenon, <1>0, <3>1, <3>2 DEF Outside, InUse
    <2> QED BY Zenon, <1>1, <1>3, <1>5, <1>7, <2>1, BeginBound
  <1> QED BY Zenon, <1>9, <1>10, <1>11, <1>12, <1>13, <1>14 DEF IInv

\* An application or a native DLL, which is not listed yet.
LEMMA UnlistedKeeps ==
    ASSUME IInv, NEW file \in Files, NEW frame \in FrameType, frame.image = Len(images) + 1,
           images' = NewImage(file), stack' = Append(stack, frame), UNCHANGED <<dll_list, running>>,
           frame.name = None => stack = <<>>,
           frame.name # None => file \in Elf /\ file = FileOf[frame.name],
           result' = None
    PROVE  /\ Linked' /\ Apart' /\ Recorded' /\ BoundToListed' /\ BoundRight'
           /\ images' \in Seq(ImageType)
           /\ \A d \in DOMAIN stack : IsELF(d)' = IsELF(d)
           /\ \A d : d = Len(stack) + 1 => (IsELF(d)' <=> frame.name # None)
  <1> DEFINE n == Len(images) + 1
             t == Len(stack) + 1
  <1>1. /\ images' \in Seq(ImageType)
        /\ DOMAIN images' = DOMAIN images \cup {n} /\ n \notin DOMAIN images
        /\ \A i \in DOMAIN images : images'[i] = images[i]
        /\ images'[n].file = file /\ images'[n].live /\ images'[n].bound = <<>>
        /\ \A i \in DOMAIN images : BoundTo(i)' = BoundTo(i)
        /\ \A i : i = n => BoundTo(i)' = {}
    BY Zenon, GrowImages
  <1>2. /\ DOMAIN stack' = DOMAIN stack \cup {t} /\ t \notin DOMAIN stack
        /\ \A d \in DOMAIN stack : stack'[d] = stack[d]
        /\ stack'[t] = frame
    BY Zenon, GrowStack
  <1>3. /\ \A d \in DOMAIN stack : IsPE(d)' = IsPE(d) /\ IsELF(d)' = IsELF(d)
        /\ \A d \in DOMAIN stack : IsPE(d) => BelowOf(d)' = BelowOf(d) /\ Outside(d)' = Outside(d)
    <2>1. \A d \in DOMAIN stack : d \in DOMAIN stack' /\ stack'[d] = stack[d]
      BY Zenon, <1>2
    <2> QED BY Zenon, <1>1, <2>1, GrowView
  <1>4. frame.image = n /\ (frame.name = None => t = 1)
    OBVIOUS
  <1>5. Listed' = Listed
    BY Zenon DEF Listed
  <1> HIDE DEF n, t
  <1>6. Begins(n, t, frame, file)
    BY ZenonT(30), <1>1, <1>2, <1>4, <1>5 DEF Begins
  <1>7. \A d : d = t => ~IsPE(d)' /\ (IsELF(d)' <=> frame.name # None)
    BY <1>1, <1>2, <1>4 DEF IsPE, IsELF
  <1>8. Linked'
    BY Zenon, <1>4, <1>6, BeginLinked
  <1>9. Apart'
    <2>1. \A i, j \in DOMAIN dll_list' : dll_list'[i].image = dll_list'[j].image => i = j
      BY ZenonT(30) DEF IInv, Apart
    <2> QED BY Zenon, <1>3, <1>5, <1>6, <2>1, BeginApart
  <1>10. Recorded'
    <2>1. \A d \in DOMAIN stack' : IsPE(d)' => d \in DOMAIN stack /\ IsPE(d) /\ stack'[d] = stack[d]
      BY Zenon, <1>2, <1>3, <1>7
    <2> QED BY SMTT(30), <2>1 DEF IInv, Recorded
  <1>11. BoundToListed' /\ BoundRight'
    BY Zenon, <1>1, <1>3, <1>6, <1>7, BeginBound
  <1> QED BY ZenonT(30), <1>1, <1>3, <1>7, <1>8, <1>9, <1>10, <1>11 DEF t

\* Beginning to load an ELF file, listed at its end, keeps the invariant.
LEMMA StartELFKeeps ==
    ASSUME IInv, NEW name \in Names, Starts(name), FileOf[name] \in Elf
    PROVE  IInv'
  <1> DEFINE t == Len(stack) + 1
             p == Len(pe_loading_stack) + 1
             frame == Frame(name, Len(images) + 1, p, pe_current_loading_dll)
  <1>0. /\ images' = NewImage(FileOf[name]) /\ stack' = Append(stack, frame)
        /\ pe_loading_stack' = Append(pe_loading_stack, name) /\ pe_current_loading_dll' = name
        /\ UNCHANGED <<dll_list, running>>
        /\ result' = None /\ calls' \in 0 .. MaxCalls
    BY Zenon DEF Starts, StartELF
  <1>1. /\ FileOf[name] \in Files /\ frame \in FrameType
        /\ frame.image = Len(images) + 1 /\ frame.pos = p /\ frame.name = name /\ name # None
        /\ p \in Nat
    <2>1. p \in Nat /\ Len(images) + 1 \in Nat
      BY SMTT(30), Typing DEF IInv
    <2>2. TypeOK /\ name \in Names \cup {None} /\ FileOf[name] \in Files /\ name # None
      BY Zenon, NamesTyped DEF IInv
    <2> QED BY SMTT(30), <2>1, <2>2, FrameTyped
  <1> HIDE DEF frame
  <1>2. /\ pe_loading_stack' \in Seq(Names) /\ DOMAIN pe_loading_stack' = DOMAIN pe_loading_stack \cup {p}
        /\ \A e \in DOMAIN pe_loading_stack : pe_loading_stack'[e] = pe_loading_stack[e] /\ e < p
        /\ pe_loading_stack'[p] = name
    <2>1. pe_loading_stack \in Seq(Names)
      BY Zenon DEF IInv, TypeOK
    <2> QED BY SMTT(30), <1>0, <2>1
  <1>3. /\ stack' \in Seq(FrameType)
        /\ DOMAIN stack' = DOMAIN stack \cup {t}
        /\ \A d \in DOMAIN stack : stack'[d] = stack[d] /\ d < t /\ d \in Nat
        /\ stack'[t] = frame /\ t \in Nat
    BY Zenon, <1>0, <1>1, GrowStack
  <1>4. /\ Linked' /\ Apart' /\ Recorded' /\ BoundToListed' /\ BoundRight'
        /\ images' \in Seq(ImageType)
        /\ \A d \in DOMAIN stack : IsELF(d)' = IsELF(d)
        /\ \A d : d = t => IsELF(d)'
    BY Zenon, <1>0, <1>1, UnlistedKeeps
  <1> HIDE DEF t, p
  <1>5. TypeOK'
    BY Zenon, <1>0, <1>2, <1>3, <1>4 DEF FrameType, ImageType, IInv, TypeOK
  <1>6. Slotted'
    <2>1. \A d \in DOMAIN stack' : IsELF(d)' => /\ stack'[d].pos \in DOMAIN pe_loading_stack'
                                                /\ pe_loading_stack'[stack'[d].pos] = stack'[d].name
      BY SMTT(30), <1>1, <1>2, <1>3, <1>4 DEF IInv, Slotted
    <2>2. ASSUME NEW c \in DOMAIN stack', NEW d \in DOMAIN stack', IsELF(c)', IsELF(d)', c < d
          PROVE  stack'[c].pos < stack'[d].pos
      <3>1. c \in DOMAIN stack
        BY SMTT(30), <1>3, <2>2
      <3>2. CASE d = t
        BY ZenonT(30), <1>1, <1>2, <1>3, <1>4, <2>2, <3>1, <3>2 DEF IInv, Slotted
      <3>3. CASE d \in DOMAIN stack
        BY ZenonT(30), <1>3, <1>4, <2>2, <3>1, <3>3 DEF IInv, Slotted
      <3> QED BY Zenon, <1>3, <3>2, <3>3
    <2>3. \A e \in DOMAIN pe_loading_stack' : \E d \in DOMAIN stack' : IsELF(d)' /\ stack'[d].pos = e
      BY SMTT(30), <1>1, <1>2, <1>3, <1>4 DEF IInv, Slotted
    <2> QED BY ZenonT(30), <2>1, <2>2, <2>3 DEF Slotted
  <1> QED BY Zenon, <1>4, <1>5, <1>6 DEF IInv

\* Beginning to load a program keeps the invariant.
LEMMA LoadAppKeeps ==
    ASSUME IInv, NEW file \in Apps, LoadApp(file)
    PROVE  IInv'
  <1> DEFINE frame == Frame(None, Len(images) + 1, 0, pe_current_loading_dll)
  <1>0. /\ stack = <<>> /\ images' = NewImage(file) /\ stack' = Append(stack, frame)
        /\ UNCHANGED <<dll_list, result, pe_loading_stack, pe_current_loading_dll, running>>
        /\ calls' = calls + 1 /\ calls < MaxCalls
    BY SMTT(30) DEF LoadApp
  <1>1. /\ file \in Files /\ frame \in FrameType
        /\ frame.image = Len(images) + 1 /\ frame.name = None
    <2>1. 0 \in Nat /\ Len(images) + 1 \in Nat
      BY SMTT(30), Typing DEF IInv
    <2>2. file \in Files
      BY Zenon, LoaderAssumption
    <2>3. TypeOK /\ None \in Names \cup {None}
      BY Zenon DEF IInv
    <2> QED BY SMTT(30), <2>1, <2>2, <2>3, FrameTyped
  <1>2. result' = None
    BY Zenon, <1>0 DEF IInv, Linked
  <1> HIDE DEF frame
  <1>3. /\ Linked' /\ Apart' /\ Recorded' /\ BoundToListed' /\ BoundRight'
        /\ images' \in Seq(ImageType)
        /\ \A d : d = Len(stack) + 1 => ~IsELF(d)'
    BY Zenon, <1>0, <1>1, <1>2, UnlistedKeeps
  <1>4. stack' \in Seq(FrameType) /\ DOMAIN stack' = DOMAIN stack \cup {Len(stack) + 1}
    BY Zenon, <1>0, <1>1, GrowStack
  <1>5. TypeOK'
    <2>1. calls' \in 0 .. MaxCalls
      BY SMTT(30), <1>0, LoaderAssumption DEF IInv, TypeOK
    <2> QED BY ZenonT(30), <1>0, <1>3, <1>4, <2>1 DEF FrameType, ImageType, IInv, TypeOK
  <1>6. Slotted'
    <2>1. DOMAIN stack = {}
      BY <1>0
    <2>2. \A d \in DOMAIN stack' : ~IsELF(d)'
      BY Zenon, <1>3, <1>4, <2>1
    <2>3. DOMAIN pe_loading_stack' = {}
      BY ZenonT(30), <1>0, <2>1 DEF IInv, Slotted
    <2> QED BY Zenon, <2>2, <2>3 DEF Slotted
  <1> QED BY Zenon, <1>3, <1>5, <1>6 DEF IInv

-----------------------------------------------------------------------------
(* A load ends: one frame less.                                            *)

\* Images keep their file and bindings.
SameImages ==
    /\ images' \in Seq(ImageType) /\ DOMAIN images' = DOMAIN images
    /\ \A i \in DOMAIN images : images'[i].file = images[i].file /\ images'[i].bound = images[i].bound

\* PeFreeImage takes one image away and leaves the others alone.
LEMMA FreeFacts ==
    ASSUME IInv, NEW image \in DOMAIN images, PeFreeImage(image)
    PROVE  /\ SameImages
           /\ \A i \in DOMAIN images : i # image => images'[i].live = images[i].live
  <1>1. images \in Seq(ImageType)
    BY Zenon DEF IInv, TypeOK, ImageType
  <1>2. PICK n \in Nat : images \in [1 .. n -> ImageType]
    <2>1. Len(images) \in Nat /\ images \in [1 .. Len(images) -> ImageType]
      BY SMTT(30), <1>1
    <2> QED BY Zenon, <2>1
  <1>3. images' \in [1 .. n -> ImageType]
    BY Zenon, <1>2 DEF PeFreeImage, ImageType
  <1>4. images' \in Seq(ImageType)
    BY <1>2, <1>3
  <1>5. \A i \in DOMAIN images : /\ images'[i].file = images[i].file /\ images'[i].bound = images[i].bound
                                 /\ i # image => images'[i].live = images[i].live
    BY Zenon, <1>2 DEF PeFreeImage, ImageType
  <1> QED BY ZenonT(30), <1>2, <1>3, <1>4, <1>5 DEF SameImages

\* Entries of the list under a frame's own stay what they were.
LEMMA BelowSame ==
    ASSUME NEW d, stack'[d].pos = stack[d].pos,
           \A i \in 1 .. stack[d].pos - 1 : dll_list'[i] = dll_list[i]
    PROVE  BelowOf(d)' = BelowOf(d)
  BY Zenon DEF BelowOf

\* A load that ends takes its image from those being built.
LEMMA BuildingLess ==
    ASSUME NEW t, DOMAIN stack = DOMAIN stack' \cup {t},
           \A d \in DOMAIN stack' : stack'[d] = stack[d] /\ stack[d].image # stack[t].image
    PROVE  Building' = Building \ {stack[t].image} /\ stack[t].image \in Building
  BY Zenon DEF Building

\* The loads under one that ends are as they were.
LEMMA PopView ==
    ASSUME IInv, stack # <<>>, stack' = SubSeq(stack, 1, Len(stack) - 1), SameImages
    PROVE  LET t == Len(stack)
           IN  /\ stack' \in Seq(FrameType) /\ DOMAIN stack' = 1 .. t - 1 /\ t \in DOMAIN stack
               /\ DOMAIN stack = 1 .. t /\ t \in Nat
               /\ \A d \in DOMAIN stack' : d \in DOMAIN stack /\ d < t /\ d \in Nat /\ stack'[d] = stack[d]
               /\ Building' = Building \ {Top.image} /\ Top.image \in Building
               /\ \A d \in DOMAIN stack' : IsPE(d)' = IsPE(d) /\ IsELF(d)' = IsELF(d)
               /\ \A i \in DOMAIN images : BoundTo(i)' = BoundTo(i)
  <1> DEFINE t == Len(stack)
  <1>1. stack \in Seq(FrameType) /\ t \in Nat /\ DOMAIN stack = 1 .. t /\ t > 0
    BY Zenon, Typing, TopFrame DEF IInv, TypeOK, FrameType
  <1>2. /\ stack' \in Seq(FrameType) /\ DOMAIN stack' = 1 .. t - 1
        /\ \A d \in 1 .. t - 1 : stack'[d] = stack[d]
    BY <1>1
  <1>3. \A d \in DOMAIN stack' : d \in DOMAIN stack /\ d < t /\ d \in Nat /\ stack'[d] = stack[d]
    BY <1>1, <1>2
  <1>4. DOMAIN stack = DOMAIN stack' \cup {t} /\ t \notin DOMAIN stack'
    BY SMTT(30), <1>1, <1>2
  <1>5. Building' = Building \ {Top.image} /\ Top.image \in Building
    <2>1. \A d \in DOMAIN stack' : stack'[d] = stack[d] /\ stack[d].image # stack[t].image
      BY Zenon, <1>3, <1>4 DEF IInv, Apart
    <2> HIDE DEF t
    <2>2. Building' = Building \ {stack[t].image} /\ stack[t].image \in Building
      BY Zenon, <1>4, <2>1, BuildingLess
    <2> QED BY Zenon, <2>2 DEF Top, t
  <1>6. \A d \in DOMAIN stack' : stack[d].image \in DOMAIN images
    BY ZenonT(30), <1>3 DEF IInv, Linked
  <1>7. \A d \in DOMAIN stack' : IsPE(d)' = IsPE(d) /\ IsELF(d)' = IsELF(d)
    BY SMTT(30), <1>3, <1>6 DEF IsPE, IsELF, SameImages
  <1>8. \A i \in DOMAIN images : BoundTo(i)' = BoundTo(i)
    BY ZenonT(30) DEF BoundTo, SameImages
  <1> QED BY ZenonT(30), <1>1, <1>2, <1>3, <1>4, <1>5, <1>7, <1>8

\* What is left keeps its place when the list is cut or grows by the native
\* DLL that ends, and everything that stays is sound.
LEMMA PopKeeps ==
    ASSUME IInv, stack # <<>>, stack' = SubSeq(stack, 1, Len(stack) - 1), SameImages,
           dll_list' \in Seq(RecordType),
           \A i \in DOMAIN dll_list' :
               \/ i \in DOMAIN dll_list /\ dll_list'[i] = dll_list[i]
               \/ /\ i \notin DOMAIN dll_list /\ i = Len(dll_list) + 1 /\ IsELF(Len(stack))
                  /\ dll_list'[i] = [name |-> Top.name, image |-> Top.image],
           \A d \in DOMAIN stack' : IsPE(d) => stack[d].pos \in DOMAIN dll_list',
           InUse' \subseteq InUse, \A image \in InUse' : images'[image].live,
           \A image \in InUse' : BoundTo(image) \subseteq Listed',
           running' \subseteq running \/ stack' = <<>>,
           running' \cap (Listed' \cup Building') = {},
           result' # None => stack' # <<>> /\ result' \in Listed' \cup {Missing},
           Top.image \in InUse' => ~Unresolved /\ ~Failed
    PROVE  Linked' /\ Apart' /\ Recorded' /\ BoundToListed' /\ BoundRight'
  <1> DEFINE t == Len(stack)
  <1>1. /\ stack' \in Seq(FrameType) /\ DOMAIN stack' = 1 .. t - 1 /\ t \in DOMAIN stack
        /\ DOMAIN stack = 1 .. t /\ t \in Nat
        /\ \A d \in DOMAIN stack' : d \in DOMAIN stack /\ d < t /\ d \in Nat /\ stack'[d] = stack[d]
        /\ Building' = Building \ {Top.image} /\ Top.image \in Building
        /\ \A d \in DOMAIN stack' : IsPE(d)' = IsPE(d) /\ IsELF(d)' = IsELF(d)
        /\ \A i \in DOMAIN images : BoundTo(i)' = BoundTo(i)
    BY Zenon, PopView
  <1>2. InUse \subseteq DOMAIN images /\ InUse' \subseteq DOMAIN images
    BY Zenon, Places
  <1>3. IsELF(t) => /\ Top.name \in Names /\ Top.image \in DOMAIN images /\ Top.image \notin Listed
                    /\ images[Top.image].file = FileOf[Top.name]
    <2>1. IsELF(t) => ~IsPE(t) /\ Top.name # None
      BY ZenonT(30) DEF IsELF, IsPE, Top
    <2> QED BY ZenonT(30), <1>1, <2>1, TopFrame DEF IInv, Linked, Apart, FrameType, Top
  <1>4. \A d \in DOMAIN stack' : stack'[d].image # Top.image
    BY SMTT(30), <1>1 DEF IInv, Apart, Top
  <1>5. Linked'
    <2>1. \A i \in DOMAIN dll_list' : /\ dll_list'[i].image \in DOMAIN images'
                                      /\ images'[dll_list'[i].image].file = FileOf[dll_list'[i].name]
      <3> SUFFICES ASSUME NEW i \in DOMAIN dll_list'
                   PROVE  /\ dll_list'[i].image \in DOMAIN images
                          /\ images[dll_list'[i].image].file = FileOf[dll_list'[i].name]
        BY Zenon DEF SameImages
      <3>1. CASE i \in DOMAIN dll_list /\ dll_list'[i] = dll_list[i]
        BY ZenonT(30), <3>1 DEF IInv, Linked
      <3>2. CASE IsELF(t) /\ dll_list'[i] = [name |-> Top.name, image |-> Top.image]
        <4>1. dll_list'[i].name = Top.name /\ dll_list'[i].image = Top.image
          BY SMTT(30), <3>2
        <4> QED BY Zenon, <1>3, <3>2, <4>1
      <3> QED BY Zenon, <3>1, <3>2
    <2>2. \A d \in DOMAIN stack' :
              /\ stack'[d].image \in DOMAIN images'
              /\ stack'[d].name # None => images'[stack'[d].image].file = FileOf[stack'[d].name]
              /\ stack'[d].name = None => d = 1
      BY SMTT(30), <1>1 DEF IInv, Linked, SameImages
    <2>3. running' \subseteq DOMAIN images'
      BY Zenon, <1>2 DEF InUse, SameImages
    <2> QED BY Zenon, <2>1, <2>2, <2>3 DEF Linked
  <1>6. Apart'
    <2>1. \A i, j \in DOMAIN dll_list' : dll_list'[i].image = dll_list'[j].image => i = j
      BY SMTT(30), <1>3 DEF IInv, Apart, Listed
    <2>2. \A c, d \in DOMAIN stack' : stack'[c].image = stack'[d].image => c = d
      BY SMTT(30), <1>1 DEF IInv, Apart
    <2>3. \A d \in DOMAIN stack' : ~IsPE(d)' => stack'[d].image \notin Listed'
      <3>1. Listed' \subseteq Listed \cup {Top.image}
        BY SMTT(30) DEF Listed
      <3> QED BY SMTT(30), <1>1, <1>4, <3>1 DEF IInv, Apart
    <2> QED BY ZenonT(30), <2>1, <2>2, <2>3 DEF Apart
  <1>7. \A d \in DOMAIN stack' : IsPE(d) => stack[d].pos \in DOMAIN dll_list
    BY ZenonT(30), <1>1 DEF IInv, Recorded
  <1>8. Len(dll_list) \in Nat /\ DOMAIN dll_list = 1 .. Len(dll_list)
        /\ Len(dll_list') \in Nat /\ DOMAIN dll_list' = 1 .. Len(dll_list')
    BY SMTT(30), Typing DEF IInv
  <1>9. Recorded'
    <2>1. \A d \in DOMAIN stack' : IsPE(d) => dll_list'[stack[d].pos] = dll_list[stack[d].pos]
      BY Zenon, <1>7
    <2> QED BY SMTT(30), <1>1, <2>1 DEF IInv, Recorded
  <1>10. BoundToListed'
    <2>1. \A image \in InUse' : BoundTo(image)' \subseteq Listed'
      BY <1>1, <1>2
    <2>2. ASSUME NEW d \in DOMAIN stack', IsPE(d)', NEW image \in Outside(d)'
          PROVE  BoundTo(image)' \subseteq BelowOf(d)'
      <3>1. d \in DOMAIN stack /\ IsPE(d) /\ stack'[d] = stack[d] /\ d \in Nat /\ d < t
        BY Zenon, <1>1, <2>2
      <3>2. \A i \in 1 .. stack[d].pos - 1 : dll_list'[i] = dll_list[i]
        <4>1. stack[d].pos \in DOMAIN dll_list /\ stack[d].pos \in DOMAIN dll_list'
          BY ZenonT(30), <1>7, <2>2, <3>1
        <4>2. \A i \in 1 .. stack[d].pos - 1 : i \in DOMAIN dll_list /\ i \in DOMAIN dll_list'
          BY SMTT(30), <1>8, <4>1
        <4> QED BY Zenon, <4>2
      <3>3. BelowOf(d)' = BelowOf(d)
        <4>1. stack'[d].pos = stack[d].pos
          BY ZenonT(30), <3>1
        <4> QED BY Zenon, <3>2, <4>1, BelowSame
      <3>4. {stack'[c].image : c \in 1 .. d - 1} = {stack[c].image : c \in 1 .. d - 1}
        <4>1. \A c \in 1 .. d - 1 : c \in DOMAIN stack'
          BY SMTT(30), <1>1, <3>1
        <4> QED BY SMTT(30), <1>1, <4>1
      <3>5. stack' # <<>>
        BY SMTT(30), <1>1
      <3>6. image \in Outside(d)
        BY Zenon, <2>2, <3>3, <3>4, <3>5 DEF Outside
      <3> QED BY SMTT(30), <1>1, <1>2, <3>1, <3>3, <3>6, Places DEF IInv, BoundToListed
    <2> QED BY Zenon, <2>1, <2>2 DEF BoundToListed
  <1>11. BoundRight'
    <2> SUFFICES ASSUME NEW image \in InUse' PROVE Right(image)'
      BY Zenon DEF BoundRight
    <2>1. /\ image \in InUse /\ image \in DOMAIN images /\ Right(image)
          /\ images'[image].file = images[image].file /\ images'[image].bound = images[image].bound
      BY Zenon, <1>2 DEF IInv, BoundRight, SameImages
    <2>2. \A k \in DOMAIN images[image].bound : images[image].bound[k] \in DOMAIN images =>
              /\ images[image].bound[k] \in DOMAIN images'
              /\ images'[images[image].bound[k]].file = images[images[image].bound[k]].file
      BY Zenon DEF SameImages
    <2>3. CASE image # Top.image
      <3>1. image \in Building' <=> image \in Building
        BY Zenon, <1>1, <2>3
      <3> QED BY ZenonT(30), <2>1, <2>2, <3>1 DEF Right
    <2>4. CASE image = Top.image
      <3>1. /\ Len(images[image].bound) >= Len(Needs[images[image].file])
            /\ \A k \in DOMAIN images[image].bound : images[image].bound[k] # Missing
        <4>1. /\ ~(Len(images[image].bound) < Len(Needs[images[image].file]))
              /\ \A k \in DOMAIN images[image].bound : images[image].bound[k] # Missing
          BY ZenonT(30), <2>4 DEF Unresolved, Failed, Image
        <4>2. Len(images[image].bound) \in Nat /\ Len(Needs[images[image].file]) \in Nat
          <5>1. images[image] \in ImageType
            BY ZenonT(30), <2>1, Typing DEF IInv
          <5> QED BY SMTT(30), <5>1, LoaderAssumption DEF ImageType
        <4> QED BY SMTT(30), <4>1, <4>2
      <3>2. Len(images[image].bound) = Len(Needs[images[image].file])
        <4>1. Len(images[image].bound) \in Nat /\ Len(Needs[images[image].file]) \in Nat
          <5>1. images[image] \in ImageType
            BY Zenon, <2>1, Typing DEF IInv
          <5> QED BY <5>1, LoaderAssumption DEF ImageType
        <4> QED BY SMTT(30), <2>1, <3>1, <4>1 DEF Right
      <3> QED BY ZenonT(30), <2>1, <2>2, <3>1, <3>2 DEF Right
    <2> QED BY Zenon, <2>3, <2>4
  <1> QED BY Zenon, <1>5, <1>6, <1>9, <1>10, <1>11

\* The innermost native load has the last slot, and gives it up.
PopSlot ==
    IF IsELF(Len(stack)) THEN pe_loading_stack' = SubSeq(pe_loading_stack, 1, Len(pe_loading_stack) - 1)
                         ELSE UNCHANGED pe_loading_stack

\* A load that ends pops its own name from pe_loading_stack.
LEMMA SlotsKeep ==
    ASSUME IInv, stack # <<>>, stack' = SubSeq(stack, 1, Len(stack) - 1), SameImages, PopSlot
    PROVE  Slotted' /\ pe_loading_stack' \in Seq(Names)
  <1> DEFINE t == Len(stack)
             m == Len(pe_loading_stack)
  <1>1. /\ DOMAIN stack' = 1 .. t - 1 /\ t \in DOMAIN stack /\ DOMAIN stack = 1 .. t /\ t \in Nat
        /\ \A d \in DOMAIN stack' : d \in DOMAIN stack /\ d < t /\ d \in Nat /\ stack'[d] = stack[d]
        /\ \A d \in DOMAIN stack' : IsELF(d)' = IsELF(d)
    BY Zenon, PopView
  <1>2. \A d \in DOMAIN stack : d # t => d \in DOMAIN stack'
    BY SMTT(30), <1>1
  <1>3. pe_loading_stack \in Seq(Names) /\ m \in Nat /\ DOMAIN pe_loading_stack = 1 .. m
    BY SMTT(30) DEF IInv, TypeOK
  <1>4. CASE ~IsELF(t)
    <2>1. pe_loading_stack' = pe_loading_stack
      BY Zenon, <1>4 DEF PopSlot
    <2>2. \A e \in DOMAIN pe_loading_stack : \E d \in DOMAIN stack' : IsELF(d)' /\ stack'[d].pos = e
      BY ZenonT(30), <1>1, <1>2, <1>4 DEF IInv, Slotted
    <2> QED BY SMTT(30), <1>1, <1>3, <2>1, <2>2 DEF IInv, Slotted
  <1>5. CASE IsELF(t)
    <2>1. \A d \in DOMAIN stack : IsELF(d) => stack[d].pos \in 1 .. m
      BY ZenonT(30), <1>3 DEF IInv, Slotted
    <2>2. m \in DOMAIN pe_loading_stack
      BY SMTT(30), <1>1, <1>3, <1>5, <2>1
    <2>3. PICK d \in DOMAIN stack : IsELF(d) /\ stack[d].pos = m
      BY Zenon, <2>2 DEF IInv, Slotted
    <2>4. stack[t].pos = m
      <3>1. CASE d = t
        BY Zenon, <2>3, <3>1
      <3>2. CASE d # t
        <4>1. d < t
          BY Zenon, <1>1, <1>2, <3>2
        <4>2. stack[d].pos < stack[t].pos
          BY ZenonT(30), <1>1, <1>5, <2>3, <4>1 DEF IInv, Slotted
        <4> QED BY SMTT(30), <1>1, <1>3, <1>5, <2>1, <2>3, <4>2
      <3> QED BY Zenon, <3>1, <3>2
    <2>5. /\ pe_loading_stack' \in Seq(Names) /\ DOMAIN pe_loading_stack' = 1 .. m - 1
          /\ \A e \in 1 .. m - 1 : pe_loading_stack'[e] = pe_loading_stack[e]
      <3>1. pe_loading_stack' = SubSeq(pe_loading_stack, 1, m - 1)
        BY Zenon, <1>5 DEF PopSlot
      <3> QED BY <1>3, <2>2, <3>1
    <2>6. \A c \in DOMAIN stack' : IsELF(c) => stack[c].pos \in 1 .. m - 1
      <3> SUFFICES ASSUME NEW c \in DOMAIN stack', IsELF(c) PROVE stack[c].pos \in 1 .. m - 1
        BY Zenon
      <3>1. stack[c].pos < stack[t].pos /\ stack[c].pos \in 1 .. m
        BY Zenon, <1>1, <1>5, <2>1 DEF IInv, Slotted
      <3> QED BY <1>3, <2>4, <3>1
    <2>7. \A e \in DOMAIN pe_loading_stack' : \E c \in DOMAIN stack' : IsELF(c)' /\ stack'[c].pos = e
      <3> SUFFICES ASSUME NEW e \in DOMAIN pe_loading_stack'
                   PROVE  \E c \in DOMAIN stack' : IsELF(c)' /\ stack'[c].pos = e
        BY Zenon
      <3>1. e \in DOMAIN pe_loading_stack /\ e # m
        BY <1>3, <2>5
      <3>2. PICK c \in DOMAIN stack : IsELF(c) /\ stack[c].pos = e
        BY Zenon, <3>1 DEF IInv, Slotted
      <3>3. c \in DOMAIN stack'
        BY ZenonT(30), <1>2, <2>4, <3>1, <3>2
      <3> QED BY Zenon, <1>1, <3>2, <3>3
    <2>8. \A c \in DOMAIN stack' : IsELF(c)' =>
              /\ stack'[c].pos \in DOMAIN pe_loading_stack'
              /\ pe_loading_stack'[stack'[c].pos] = stack'[c].name
      BY SMTT(30), <1>1, <2>5, <2>6 DEF IInv, Slotted
    <2>9. \A c, e \in DOMAIN stack' : IsELF(c)' /\ IsELF(e)' /\ c < e => stack'[c].pos < stack'[e].pos
      BY Zenon, <1>1 DEF IInv, Slotted
    <2> QED BY Zenon, <2>5, <2>7, <2>8, <2>9 DEF Slotted
  <1> QED BY Zenon, <1>4, <1>5

\* The image of the innermost load is being built, and not running.
LEMMA TopFacts ==
    ASSUME IInv, stack # <<>>
    PROVE  /\ Top.image \in DOMAIN images /\ Top.image \in Building /\ Top.image \notin running
           /\ Top.outer \in Names \cup {None} /\ Top.name \in Names \cup {None}
           /\ ~IsPE(Len(stack)) => Top.image \notin Listed
           /\ IsPE(Len(stack)) <=> Top.name # None /\ ~Native
           /\ IsELF(Len(stack)) <=> Top.name # None /\ Native
  <1>1. Len(stack) \in DOMAIN stack /\ Top \in FrameType
    BY Zenon, TopFrame DEF IInv
  <1>2. Top.image \in Building
    BY Zenon, <1>1 DEF Building, Top
  <1> QED BY Zenon, <1>1, <1>2 DEF IInv, Linked, Apart, Top, FrameType, IsPE, IsELF, Native, Image

\* A result is for the load underneath.
LEMMA Returned ==
    ASSUME IInv, stack # <<>>, NEW value, Return(value)
    PROVE  result' # None => stack' # <<>> /\ result' = value
  <1>1. stack \in Seq(FrameType) /\ Len(stack) \in Nat /\ Len(stack) > 0
    BY Zenon, Typing, TopFrame DEF IInv, TypeOK, FrameType
  <1>2. Len(stack') = Len(stack) - 1
    <2>1. stack' = SubSeq(stack, 1, Len(stack) - 1)
      BY Zenon DEF Return
    <2>2. DOMAIN stack' = 1 .. Len(stack) - 1 /\ stack' \in Seq(FrameType)
      BY SMTT(30), <1>1, <2>1
    <2>3. Len(stack') \in Nat /\ DOMAIN stack' = 1 .. Len(stack')
      BY SMTT(30), <2>2
    <2> QED BY <1>1, <2>2, <2>3
  <1>3. Len(stack) # 1 => Len(stack') # 0
    BY SMTT(30), <1>1, <1>2
  <1>4. ASSUME stack' = <<>> PROVE Len(stack') = 0
    BY Zenon, <1>4
  <1>5. Len(stack) # 1 => stack' # <<>>
    BY Zenon, <1>3, <1>4
  <1> QED BY Zenon, <1>5 DEF Return

\* A native DLL or an application that is given up.
LEMMA FreedKeeps ==
    ASSUME IInv, stack # <<>>, ~IsPE(Len(stack)), PeFreeImage(Top.image), Return(Missing), PopSlot,
           pe_current_loading_dll' \in Names \cup {None}, UNCHANGED <<dll_list, running, calls>>
    PROVE  IInv'
  <1>1. /\ Top.image \in DOMAIN images /\ Top.image \notin Listed \cup running
    BY Zenon, TopFacts
  <1>2. /\ SameImages /\ \A i \in DOMAIN images : i # Top.image => images'[i].live = images[i].live
    BY Zenon, <1>1, FreeFacts
  <1>3. stack' = SubSeq(stack, 1, Len(stack) - 1)
    BY Zenon DEF Return
  <1>4. /\ stack' \in Seq(FrameType) /\ DOMAIN stack' = 1 .. Len(stack) - 1
        /\ DOMAIN stack = 1 .. Len(stack) /\ Len(stack) \in Nat
        /\ \A d \in DOMAIN stack' : d \in DOMAIN stack
        /\ Building' = Building \ {Top.image}
    BY Zenon, <1>2, <1>3, PopView
  <1>5. Listed' = Listed /\ InUse' = InUse \ {Top.image}
    BY Zenon, <1>1, <1>4 DEF Listed, InUse
  <1>6. Linked' /\ Apart' /\ Recorded' /\ BoundToListed' /\ BoundRight'
    <2>1. dll_list' \in Seq(RecordType)
      BY Zenon DEF IInv, TypeOK, RecordType
    <2>2. \A d \in DOMAIN stack' : IsPE(d) => stack[d].pos \in DOMAIN dll_list'
      BY Zenon, <1>4 DEF IInv, Recorded
    <2>3. \A image \in InUse' : images'[image].live
      BY Zenon, <1>2, <1>5, Places DEF IInv, Linked
    <2>4. \A image \in InUse' : BoundTo(image) \subseteq Listed'
      BY Zenon, <1>5 DEF IInv, BoundToListed
    <2>5. running' \cap (Listed' \cup Building') = {}
      BY Zenon, <1>4, <1>5 DEF IInv, Apart
    <2>6. result' # None => stack' # <<>> /\ result' = Missing
      BY Zenon, Returned
    <2> QED BY ZenonT(30), <1>2, <1>3, <1>5, <2>1, <2>2, <2>3, <2>4, <2>5, <2>6, PopKeeps
  <1>7. Slotted' /\ pe_loading_stack' \in Seq(Names)
    BY Zenon, <1>2, <1>3, SlotsKeep
  <1>8. TypeOK'
    <2>1. result' \in Binding \cup {None}
      BY Zenon DEF Return, Binding
    <2> QED BY ZenonT(30), <1>2, <1>4, <1>7, <2>1 DEF IInv, TypeOK, SameImages, ImageType, FrameType
  <1> QED BY Zenon, <1>6, <1>7, <1>8 DEF IInv

\* A native DLL that is whole is listed.
LEMMA ListedKeeps ==
    ASSUME IInv, Whole, Native, Top.name # None,
           dll_list' = Append(dll_list, [name |-> Top.name, image |-> Top.image]),
           Return(Top.image), PopSlot, pe_current_loading_dll' = Top.outer,
           UNCHANGED <<images, running, calls>>
    PROVE  IInv'
  <1> DEFINE record == [name |-> Top.name, image |-> Top.image]
  <1>0. stack # <<>> /\ ~Unresolved
    BY Zenon DEF Whole
  <1>1. /\ Top.image \in DOMAIN images /\ Top.image \notin Listed \cup running /\ Top.image \in Building
        /\ Top.outer \in Names \cup {None} /\ IsELF(Len(stack))
    BY Zenon, <1>0, TopFacts DEF IsELF, IsPE
  <1>2. SameImages
    BY Zenon DEF SameImages, IInv, TypeOK, ImageType
  <1>3. stack' = SubSeq(stack, 1, Len(stack) - 1)
    BY Zenon DEF Return
  <1>4. /\ stack' \in Seq(FrameType) /\ DOMAIN stack' = 1 .. Len(stack) - 1
        /\ DOMAIN stack = 1 .. Len(stack) /\ Len(stack) \in Nat
        /\ \A d \in DOMAIN stack' : d \in DOMAIN stack
        /\ Building' = Building \ {Top.image}
    BY Zenon, <1>0, <1>2, <1>3, PopView
  <1>5. /\ record \in RecordType /\ record.image = Top.image
    BY ZenonT(30), <1>0, TopFrame DEF IInv, FrameType, RecordType
  <1> HIDE DEF record
  <1>6. /\ dll_list' \in Seq(RecordType) /\ DOMAIN dll_list' = DOMAIN dll_list \cup {Len(dll_list) + 1}
        /\ Len(dll_list) + 1 \notin DOMAIN dll_list
        /\ \A i \in DOMAIN dll_list : dll_list'[i] = dll_list[i]
        /\ dll_list'[Len(dll_list) + 1] = record
    <2>1. dll_list \in Seq(RecordType) /\ dll_list' = Append(dll_list, record)
      BY Zenon DEF IInv, TypeOK, RecordType, record
    <2> QED BY SMTT(30), <1>5, <2>1
  <1>7. Listed' = Listed \cup {Top.image}
    BY SMTT(30), <1>5, <1>6 DEF Listed
  <1>8. InUse' = InUse
    BY Zenon, <1>1, <1>4, <1>7 DEF InUse
  <1>9. ~Failed
    <2>1. Right(Top.image)
      BY Zenon, <1>1 DEF IInv, BoundRight, InUse
    <2> QED BY Zenon, <2>1 DEF Right, Failed, Native, Image
  <1>10. Linked' /\ Apart' /\ Recorded' /\ BoundToListed' /\ BoundRight'
    <2>1. \A i \in DOMAIN dll_list' :
               \/ i \in DOMAIN dll_list /\ dll_list'[i] = dll_list[i]
               \/ /\ i \notin DOMAIN dll_list /\ i = Len(dll_list) + 1 /\ IsELF(Len(stack))
                  /\ dll_list'[i] = [name |-> Top.name, image |-> Top.image]
      BY Zenon, <1>1, <1>6 DEF record
    <2>2. \A d \in DOMAIN stack' : IsPE(d) => stack[d].pos \in DOMAIN dll_list'
      BY Zenon, <1>4, <1>6 DEF IInv, Recorded
    <2>3. \A image \in InUse' : images'[image].live
      BY Zenon, <1>8 DEF IInv, Linked
    <2>4. \A image \in InUse' : BoundTo(image) \subseteq Listed'
      BY ZenonT(30), <1>7, <1>8 DEF IInv, BoundToListed
    <2>5. running' \cap (Listed' \cup Building') = {}
      BY SMTT(30), <1>1, <1>4, <1>7 DEF IInv, Apart
    <2>6. result' # None => stack' # <<>> /\ result' \in Listed' \cup {Missing}
      BY Zenon, <1>0, <1>7, Returned
    <2> QED BY ZenonT(30), <1>0, <1>2, <1>3, <1>6, <1>8, <1>9, <2>1, <2>2, <2>3, <2>4, <2>5, <2>6, PopKeeps
  <1>11. Slotted' /\ pe_loading_stack' \in Seq(Names)
    BY Zenon, <1>0, <1>2, <1>3, SlotsKeep
  <1>12. TypeOK'
    <2>1. result' \in Binding \cup {None}
      BY Zenon, <1>0, TopFrame DEF Return, Binding, IInv, FrameType
    <2> QED BY ZenonT(30), <1>1, <1>4, <1>6, <1>11, <2>1 DEF IInv, TypeOK, FrameType, RecordType
  <1> QED BY Zenon, <1>10, <1>11, <1>12 DEF IInv

\* The end of an ELF load, which lists it, keeps the invariant.
LEMMA FinishELFKeeps ==
    ASSUME IInv, FinishELF
    PROVE  IInv'
  <1>1. stack # <<>> /\ IsELF(Len(stack)) /\ ~IsPE(Len(stack)) /\ Top.outer \in Names \cup {None}
    BY Zenon, TopFacts DEF FinishELF, Whole
  <1>2. PopSlot
    BY Zenon, <1>1 DEF FinishELF, PopSlot
  <1>3. CASE PeFreeImage(Top.image) /\ Return(Missing) /\ UNCHANGED dll_list
    BY Zenon, <1>1, <1>2, <1>3, FreedKeeps DEF FinishELF
  <1>4. CASE /\ dll_list' = Append(dll_list, [name |-> Top.name, image |-> Top.image])
             /\ Return(Top.image) /\ UNCHANGED images
    BY Zenon, <1>2, <1>4, ListedKeeps DEF FinishELF
  <1> QED BY Zenon, <1>3, <1>4 DEF FinishELF

\* A PE DLL that is whole stays where it is.
LEMMA FinishPEOkKeeps ==
    ASSUME IInv, FinishPE, ~Failed
    PROVE  IInv'
  <1>0. /\ stack # <<>> /\ ~Unresolved /\ IsPE(Len(stack)) /\ ~IsELF(Len(stack))
        /\ Return(Top.image)
        /\ UNCHANGED <<images, dll_list, pe_loading_stack, pe_current_loading_dll, running, calls>>
    BY Zenon, TopFacts DEF FinishPE, Whole
  <1>1. Top.image \in Listed
    <2>1. Len(stack) \in DOMAIN stack
      BY Zenon, <1>0, TopFrame DEF IInv
    <2> QED BY Zenon, <1>0, <2>1 DEF IInv, Recorded, Listed, Top
  <1>2. SameImages
    BY Zenon, <1>0 DEF SameImages, IInv, TypeOK, ImageType
  <1>3. stack' = SubSeq(stack, 1, Len(stack) - 1)
    BY Zenon, <1>0 DEF Return
  <1>4. /\ stack' \in Seq(FrameType) /\ DOMAIN stack' = 1 .. Len(stack) - 1
        /\ DOMAIN stack = 1 .. Len(stack) /\ Len(stack) \in Nat
        /\ \A d \in DOMAIN stack' : d \in DOMAIN stack
        /\ Building' = Building \ {Top.image}
    BY Zenon, <1>0, <1>2, <1>3, PopView
  <1>5. Listed' = Listed /\ InUse' \subseteq InUse
    BY Zenon, <1>0, <1>4 DEF Listed, InUse
  <1>6. Linked' /\ Apart' /\ Recorded' /\ BoundToListed' /\ BoundRight'
    <2>1. dll_list' \in Seq(RecordType)
      BY Zenon, <1>0 DEF IInv, TypeOK, RecordType
    <2>2. \A d \in DOMAIN stack' : IsPE(d) => stack[d].pos \in DOMAIN dll_list'
      BY Zenon, <1>0, <1>4 DEF IInv, Recorded
    <2>3. \A image \in InUse' : images'[image].live
      BY Zenon, <1>0, <1>5 DEF IInv, Linked
    <2>4. \A image \in InUse' : BoundTo(image) \subseteq Listed'
      BY Zenon, <1>5 DEF IInv, BoundToListed
    <2>5. running' \cap (Listed' \cup Building') = {}
      BY ZenonT(30), <1>0, <1>4, <1>5 DEF IInv, Apart
    <2>6. result' # None => stack' # <<>> /\ result' \in Listed' \cup {Missing}
      BY SMTT(30), <1>0, <1>1, <1>5, Returned
    <2> QED BY ZenonT(30), <1>0, <1>2, <1>3, <1>5, <2>1, <2>2, <2>3, <2>4, <2>5, <2>6, PopKeeps
  <1>7. Slotted'
    BY Zenon, <1>0, <1>2, <1>3, SlotsKeep DEF PopSlot
  <1>8. TypeOK'
    <2>1. result' \in Binding \cup {None}
      BY Zenon, <1>0, TopFrame DEF Return, Binding, IInv, FrameType
    <2> QED BY Zenon, <1>0, <1>4, <2>1 DEF IInv, TypeOK, FrameType
  <1> QED BY Zenon, <1>6, <1>7, <1>8 DEF IInv

\* A PE DLL that fails takes off the list everything loaded since it began;
\* nothing outside is bound to any of that.
LEMMA FinishPEFailKeeps ==
    ASSUME IInv, FinishPE, Failed
    PROVE  IInv'
  <1> DEFINE t == Len(stack)
             p == Top.pos
  <1>0. /\ stack # <<>> /\ ~Unresolved /\ IsPE(t) /\ ~IsELF(t)
        /\ PeFreeImage(Top.image) /\ Return(Missing)
        /\ dll_list' = SubSeq(dll_list, 1, p - 1)
        /\ UNCHANGED <<pe_loading_stack, pe_current_loading_dll, running, calls>>
    BY Zenon, TopFacts DEF FinishPE, Whole, Unlink
  <1>1. /\ Top.image \in DOMAIN images /\ Top.image \notin running
    BY Zenon, <1>0, TopFacts
  <1>2. /\ SameImages /\ \A i \in DOMAIN images : i # Top.image => images'[i].live = images[i].live
    BY Zenon, <1>0, <1>1, FreeFacts
  <1>3. stack' = SubSeq(stack, 1, Len(stack) - 1)
    BY Zenon, <1>0 DEF Return
  <1>4. /\ stack' \in Seq(FrameType) /\ DOMAIN stack' = 1 .. t - 1 /\ t \in DOMAIN stack
        /\ DOMAIN stack = 1 .. t /\ t \in Nat
        /\ \A d \in DOMAIN stack' : d \in DOMAIN stack /\ d < t /\ stack'[d] = stack[d]
        /\ Building' = Building \ {Top.image}
    BY Zenon, <1>0, <1>2, <1>3, PopView
  <1>5. p \in DOMAIN dll_list /\ dll_list[p].image = Top.image /\ stack[t].pos = p
    BY ZenonT(30), <1>0, <1>4 DEF IInv, Recorded, Top
  <1>6. /\ dll_list' \in Seq(RecordType) /\ DOMAIN dll_list' = 1 .. p - 1 /\ p \in Nat
        /\ DOMAIN dll_list = 1 .. Len(dll_list) /\ Len(dll_list) \in Nat
        /\ \A i \in 1 .. p - 1 : dll_list'[i] = dll_list[i] /\ i \in DOMAIN dll_list /\ i # p
    <2>1. dll_list \in Seq(RecordType) /\ Len(dll_list) \in Nat /\ DOMAIN dll_list = 1 .. Len(dll_list)
      BY ZenonT(30), Typing DEF IInv, TypeOK, RecordType
    <2> HIDE DEF p
    <2> QED BY SMTT(30), <1>0, <1>5, <2>1
  <1>7. Listed' = BelowOf(t)
    BY SMTT(30), <1>5, <1>6 DEF Listed, BelowOf
  <1>8. Top.image \notin Listed'
    BY <1>5, <1>6 DEF Listed, IInv, Apart
  <1>9. Building' = {stack[c].image : c \in 1 .. t - 1}
    BY Zenon, <1>4 DEF Building
  <1>10. InUse' = Outside(t) /\ Outside(t) \subseteq InUse /\ Top.image \notin InUse'
    <2>1. InUse' = Outside(t)
      BY Zenon, <1>0, <1>7, <1>9 DEF InUse, Outside
    <2> QED BY ZenonT(30), <1>0, <1>1, <1>4, <1>8, <2>1, Places DEF InUse
  <1>11. Linked' /\ Apart' /\ Recorded' /\ BoundToListed' /\ BoundRight'
    <2>1. \A d \in DOMAIN stack' : IsPE(d) => stack[d].pos \in DOMAIN dll_list'
      <3> SUFFICES ASSUME NEW d \in DOMAIN stack', IsPE(d) PROVE stack[d].pos \in DOMAIN dll_list'
        BY Zenon
      <3>1. stack[d].pos < p /\ stack[d].pos \in DOMAIN dll_list
        BY ZenonT(30), <1>0, <1>4, <1>5 DEF IInv, Recorded
      <3> QED BY SMTT(30), <1>6, <3>1
    <2>2. \A i \in DOMAIN dll_list' : i \in DOMAIN dll_list /\ dll_list'[i] = dll_list[i]
      BY Zenon, <1>6
    <2>3. \A image \in InUse' : images'[image].live
      BY ZenonT(30), <1>2, <1>10, Places DEF IInv, Linked
    <2>4. \A image \in InUse' : BoundTo(image) \subseteq Listed'
      BY ZenonT(30), <1>0, <1>4, <1>7, <1>10 DEF IInv, BoundToListed
    <2>5. running' \cap (Listed' \cup Building') = {}
      <3>1. Listed' \subseteq Listed
        BY Zenon, <2>2 DEF Listed
      <3> QED BY Zenon, <1>0, <1>4, <3>1 DEF IInv, Apart
    <2>6. result' # None => stack' # <<>> /\ result' \in Listed' \cup {Missing}
      BY Zenon, <1>0, Returned
    <2> QED BY ZenonT(30), <1>0, <1>2, <1>3, <1>6, <1>10, <2>1, <2>2, <2>3, <2>4, <2>5, <2>6, PopKeeps
  <1>12. Slotted'
    BY ZenonT(30), <1>0, <1>2, <1>3, SlotsKeep DEF PopSlot
  <1>13. TypeOK'
    <2>1. result' \in Binding \cup {None}
      BY Zenon, <1>0 DEF Return, Binding
    <2> QED BY ZenonT(30), <1>0, <1>2, <1>4, <1>6, <2>1 DEF IInv, TypeOK, FrameType, RecordType, SameImages, ImageType
  <1> QED BY Zenon, <1>11, <1>12, <1>13 DEF IInv

\* The end of a program's load keeps the invariant, started or freed.
LEMMA FinishAppKeeps ==
    ASSUME IInv, FinishApp
    PROVE  IInv'
  <1>0. /\ stack # <<>> /\ ~Unresolved /\ Return(Missing) /\ Top.name = None
        /\ UNCHANGED <<dll_list, pe_loading_stack, pe_current_loading_dll, calls>>
    BY Zenon DEF FinishApp, Whole
  <1>1. ~IsPE(Len(stack)) /\ ~IsELF(Len(stack)) /\ PopSlot
    BY Zenon, <1>0 DEF IsPE, IsELF, Top, PopSlot
  <1>2. CASE Failed
    <2>1. PeFreeImage(Top.image) /\ UNCHANGED running
      BY Zenon, <1>2 DEF FinishApp
    <2>2. pe_current_loading_dll' \in Names \cup {None}
      BY Zenon, <1>0 DEF IInv, TypeOK
    <2> QED BY ZenonT(30), <1>0, <1>1, <2>1, <2>2, FreedKeeps
  <1>3. CASE ~Failed
    <2>0. running' = running \cup {Top.image} /\ UNCHANGED images
      BY Zenon, <1>3 DEF FinishApp
    <2>1. /\ Top.image \in DOMAIN images /\ Top.image \in Building /\ Top.image \notin Listed
      BY Zenon, <1>0, <1>1, TopFacts
    <2>2. SameImages
      BY Zenon, <2>0 DEF SameImages, IInv, TypeOK, ImageType
    <2>3. stack' = SubSeq(stack, 1, Len(stack) - 1)
      BY Zenon, <1>0 DEF Return
    <2>4. /\ stack' \in Seq(FrameType) /\ DOMAIN stack' = 1 .. Len(stack) - 1
          /\ Len(stack) \in Nat /\ Len(stack) \in DOMAIN stack
          /\ \A d \in DOMAIN stack' : d \in DOMAIN stack
          /\ Building' = Building \ {Top.image}
      BY Zenon, <1>0, <2>2, <2>3, PopView
    <2>5. Len(stack) = 1
      BY ZenonT(30), <1>0, <2>4 DEF IInv, Linked, Top
    <2>6. stack' = <<>> /\ Building' = {}
      <3>1. DOMAIN stack' = {}
        BY <2>4, <2>5
      <3>2. Len(stack') = 0
        BY <2>4, <2>5
      <3> QED BY <2>4, <3>1, <3>2 DEF Building
    <2>7. Listed' = Listed /\ InUse' \subseteq InUse
      BY Zenon, <1>0, <2>0, <2>1, <2>6 DEF Listed, InUse
    <2>8. Linked' /\ Apart' /\ Recorded' /\ BoundToListed' /\ BoundRight'
      <3>1. dll_list' \in Seq(RecordType)
        BY Zenon, <1>0 DEF IInv, TypeOK, RecordType
      <3>2. \A d \in DOMAIN stack' : IsPE(d) => stack[d].pos \in DOMAIN dll_list'
        BY SMTT(30), <2>4, <2>5
      <3>3. \A image \in InUse' : images'[image].live
        BY ZenonT(30), <2>0, <2>7 DEF IInv, Linked
      <3>4. \A image \in InUse' : BoundTo(image) \subseteq Listed'
        BY Zenon, <2>7 DEF IInv, BoundToListed
      <3>5. running' \cap (Listed' \cup Building') = {}
        BY ZenonT(30), <2>0, <2>1, <2>6, <2>7 DEF IInv, Apart
      <3>6. result' = None
        BY Zenon, <1>0, <2>5 DEF Return
      <3> QED BY ZenonT(30), <1>0, <1>3, <2>2, <2>3, <2>6, <2>7, <3>1, <3>2, <3>3, <3>4, <3>5, <3>6, PopKeeps
    <2>9. Slotted'
      BY Zenon, <1>0, <1>1, <2>2, <2>3, SlotsKeep
    <2>10. TypeOK'
      <3>1. result' \in Binding \cup {None}
        BY Zenon, <1>0 DEF Return, Binding
      <3>2. running' \subseteq Nat
        <4>1. Top.image \in Nat
          BY Zenon, <1>0, TopFrame DEF IInv, FrameType
        <4> QED BY Zenon, <2>0, <4>1 DEF IInv, TypeOK
      <3> QED BY ZenonT(30), <1>0, <2>0, <2>4, <3>1, <3>2 DEF IInv, TypeOK, FrameType
    <2> QED BY Zenon, <2>8, <2>9, <2>10 DEF IInv
  <1> QED BY Zenon, <1>2, <1>3

\* An ELF load abandoned over a missing symbol keeps the invariant.
LEMMA AbandonKeeps ==
    ASSUME IInv, FindSymbolAgain, AbandonELF
    PROVE  IInv'
  <1>0. stack # <<>> /\ Native /\ UNCHANGED <<dll_list, running, calls>>
    BY Zenon DEF FindSymbolAgain, Unresolved
  <1>1. ~IsPE(Len(stack)) /\ PopSlot /\ Top.outer \in Names \cup {None}
    BY Zenon, <1>0, TopFacts DEF AbandonELF, PopSlot
  <1> QED BY Zenon, <1>0, <1>1, FreedKeeps DEF AbandonELF

\* A program that exits and is freed keeps the invariant.
LEMMA AppExitsKeeps ==
    ASSUME IInv, NEW image \in running, AppExits(image)
    PROVE  IInv'
  <1>0. /\ stack = <<>> /\ PeFreeImage(image) /\ running' = running \ {image}
        /\ UNCHANGED <<dll_list, stack, result, pe_loading_stack, pe_current_loading_dll, calls>>
    BY ZenonT(30) DEF AppExits
  <1>1. image \in DOMAIN images /\ DOMAIN stack = {}
    BY SMTT(30), <1>0 DEF IInv, Linked
  <1>2. /\ SameImages /\ \A i \in DOMAIN images : i # image => images'[i].live = images[i].live
    BY ZenonT(30), <1>0, <1>1, FreeFacts
  <1>3. /\ Listed' = Listed /\ Building' = {} /\ Building = {}
        /\ InUse' = InUse \ {image}
    <2>1. Listed' = Listed /\ Building' = {} /\ Building = {}
      BY Zenon, <1>0, <1>1 DEF Listed, Building
    <2> QED BY SMTT(30), <1>0, <2>1 DEF InUse, IInv, Apart
  <1>4. Linked'
    <2>1. \A i \in InUse' : images'[i].live
      BY ZenonT(30), <1>2, <1>3, Places DEF IInv, Linked
    <2>2. running' \subseteq DOMAIN images'
      BY Zenon, <1>0, <1>2 DEF IInv, Linked, SameImages
    <2>3. \A i \in DOMAIN dll_list' : /\ dll_list'[i].image \in DOMAIN images'
                                      /\ images'[dll_list'[i].image].file = FileOf[dll_list'[i].name]
      BY ZenonT(30), <1>0, <1>2 DEF IInv, Linked, SameImages
    <2>4. result' = None
      BY Zenon, <1>0 DEF IInv, Linked
    <2> QED BY ZenonT(30), <1>0, <1>1, <2>1, <2>2, <2>3, <2>4 DEF Linked
  <1>5. Apart'
    BY Zenon, <1>0, <1>1, <1>3 DEF IInv, Apart
  <1>6. Recorded' /\ Slotted'
    BY Zenon, <1>0, <1>1 DEF IInv, Recorded, Slotted
  <1>7. BoundToListed'
    <2>1. \A i \in DOMAIN images : BoundTo(i)' = BoundTo(i)
      BY ZenonT(30), <1>2 DEF BoundTo, SameImages
    <2> QED BY ZenonT(30), <1>0, <1>1, <1>3, <2>1, Places DEF IInv, BoundToListed
  <1>8. BoundRight'
    <2> SUFFICES ASSUME NEW i \in InUse' PROVE Right(i)'
      BY Zenon DEF BoundRight
    <2>1. /\ i \in InUse /\ i \in DOMAIN images /\ Right(i)
          /\ images'[i].file = images[i].file /\ images'[i].bound = images[i].bound
      BY Zenon, <1>2, <1>3, Places DEF IInv, BoundRight, SameImages
    <2>2. \A k \in DOMAIN images[i].bound : images[i].bound[k] \in DOMAIN images =>
              /\ images[i].bound[k] \in DOMAIN images'
              /\ images'[images[i].bound[k]].file = images[images[i].bound[k]].file
      BY Zenon, <1>2 DEF SameImages
    <2> QED BY Zenon, <1>3, <2>1, <2>2 DEF Right
  <1>9. TypeOK'
    <2>1. running' \subseteq Nat
      BY Zenon, <1>0 DEF IInv, TypeOK
    <2> QED BY ZenonT(30), <1>0, <1>2, <2>1 DEF IInv, TypeOK, SameImages, ImageType
  <1> QED BY ZenonT(30), <1>4, <1>5, <1>6, <1>7, <1>8, <1>9 DEF IInv

-----------------------------------------------------------------------------
(* Every step keeps the invariant.                                         *)

LEMMA StartsKeeps ==
    ASSUME IInv, NEW name \in Names, Starts(name)
    PROVE  IInv'
  BY Zenon, StartPEKeeps, StartELFKeeps

\* A driver's or a program's own call of PeLoadDll answers at once or begins a load.
LEMMA LibraryKind ==
    ASSUME IInv, NEW name \in Names, LoadLibrary(name)
    PROVE  Quiet \/ Starts(name)
  <1>1. PeLoadDll(name) /\ UNCHANGED running /\ result = None
    BY Zenon DEF LoadLibrary, IInv, Linked
  <1>2. calls' \in 0 .. MaxCalls
    BY SMTT(30), LoaderAssumption DEF LoadLibrary, IInv, TypeOK
  <1> QED BY Zenon, <1>1, <1>2, LoadIsQuietOrStarts

\* A step that changes nothing is of the quiet kind.
LEMMA StutterKeeps ==
    ASSUME IInv, UNCHANGED vars
    PROVE  Quiet
  <1>1. SameFrames
    BY ZenonT(30), Typing DEF SameFrames, IInv, TypeOK, FrameType, vars
  <1> QED BY Zenon, <1>1 DEF Quiet, IInv, TypeOK, Linked, vars

\* The loader starts with nothing loaded.
LEMMA InitIInv ==
    ASSUME Init
    PROVE  IInv
  <1>1. /\ images = <<>> /\ dll_list = <<>> /\ stack = <<>> /\ pe_loading_stack = <<>>
        /\ result = None /\ pe_current_loading_dll = None /\ running = {} /\ calls = 0
    BY Zenon DEF Init
  <1>2. DOMAIN dll_list = {} /\ DOMAIN stack = {} /\ DOMAIN pe_loading_stack = {}
    BY SMTT(30), <1>1
  <1>3. Listed = {} /\ Building = {} /\ InUse = {}
    BY ZenonT(30), <1>1, <1>2 DEF Listed, Building, InUse
  <1>4. TypeOK
    BY SMTT(30), <1>1, LoaderAssumption DEF TypeOK
  <1> QED BY ZenonT(30), <1>1, <1>2, <1>3, <1>4
          DEF IInv, Linked, Apart, Recorded, Slotted, BoundToListed, BoundRight

\* Every step keeps the invariant.
LEMMA NextIInv ==
    ASSUME IInv, [Next]_vars
    PROVE  IInv'
  <1>1. CASE ImportDll
    BY Zenon, <1>1, ImportKind, QuietKeeps, StartsKeeps
  <1>2. CASE BindFunction
    BY Zenon, <1>2, BindFunctionKind, BindsKeeps
  <1>3. CASE FindSymbol
    BY ZenonT(30), <1>3, FindSymbolKind, QuietKeeps, BindsKeeps
  <1>4. CASE LoadCoreDll
    BY Zenon, <1>4, LoadCoreKind, QuietKeeps, StartsKeeps
  <1>5. CASE CoreDllLoaded
    BY Zenon, <1>5, CoreLoadedKind, QuietKeeps
  <1>6. CASE FindSymbolAgain
    BY Zenon, <1>6, FindAgainKind, BindsKeeps, AbandonKeeps
  <1>7. CASE FinishELF
    BY Zenon, <1>7, FinishELFKeeps
  <1>8. CASE FinishPE
    BY ZenonT(30), <1>8, FinishPEOkKeeps, FinishPEFailKeeps
  <1>9. CASE FinishApp
    BY Zenon, <1>9, FinishAppKeeps
  <1>10. CASE \E name \in Names : LoadLibrary(name)
    BY Zenon, <1>10, LibraryKind, QuietKeeps, StartsKeeps
  <1>11. CASE \E file \in Apps : LoadApp(file)
    BY Zenon, <1>11, LoadAppKeeps
  <1>12. CASE \E image \in running : AppExits(image)
    BY Zenon, <1>12, AppExitsKeeps
  <1>13. CASE UNCHANGED vars
    BY Zenon, <1>13, StutterKeeps, QuietKeeps
  <1> QED BY ZenonT(30), <1>1, <1>2, <1>3, <1>4, <1>5, <1>6, <1>7, <1>8, <1>9, <1>10, <1>11, <1>12, <1>13
          DEF Next, Step

\* The invariant holds of every reachable state of the loader.
THEOREM Invariance == Spec => []IInv
  <1>1. Init => IInv
    BY Zenon, InitIInv
  <1>2. IInv /\ [Next]_vars => IInv'
    BY Zenon, NextIInv
  <1> QED BY Zenon, <1>1, <1>2, PTL DEF Spec

\* Every variable keeps its type, whatever files there are and however they
\* import each other.
THEOREM TypeCorrect == Spec => []TypeOK
  <1>1. IInv => TypeOK
    BY Zenon DEF IInv
  <1> QED BY Zenon, <1>1, Invariance, PTL

\* Nothing that is listed, being built or running is bound to a freed image:
\* dll_list = new_dll->next takes off everything that could be.
THEOREM NoDanglingBinding == Spec => []BoundToLive
  <1>1. IInv => BoundToLive
    <2> SUFFICES ASSUME IInv, NEW image \in InUse, NEW to \in BoundTo(image)
                 PROVE  images[image].live /\ images[to].live
      <3>1. IInv => \A image \in InUse : images[image].live
        BY Zenon DEF IInv, Linked
      <3> QED BY Zenon, <3>1 DEF BoundToLive, InUse
    <2>1. to \in Listed
      BY ZenonT(30) DEF IInv, BoundToListed
    <2> QED BY Zenon, <2>1 DEF IInv, Linked, InUse
  <1> QED BY Zenon, <1>1, Invariance, PTL

\* What PeLoadDll has returned, and an application that runs, has every
\* import by name bound to what exports it.
THEOREM ReturnedIsWhole == Spec => []WholeWhenReturned
  <1>1. IInv => WholeWhenReturned
    <2> SUFFICES ASSUME IInv, NEW image \in (Listed \cup running) \ Building,
                        NEW k \in DOMAIN Needs[images[image].file],
                        Needs[images[image].file][k].sym # None
                 PROVE  LET to == images[image].bound[k]
                        IN  IF to = Platform
                            THEN Needs[images[image].file][k].sym \in KernelExports \cup DriverSymbols
                            ELSE /\ to # Missing
                                 /\ Needs[images[image].file][k].sym \in Exports[images[to].file]
      BY Zenon DEF WholeWhenReturned
    <2>1. image \in InUse /\ Right(image)
      BY Zenon DEF InUse, IInv, BoundRight
    <2>2. images[image] \in ImageType
      BY ZenonT(30), <2>1, Places, Typing DEF IInv
    <2>3. k \in DOMAIN images[image].bound
      <3>1. Needs[images[image].file] \in Seq([dll : Names, sym : UNION {Exports[g] : g \in Files}
                                              \cup KernelExports \cup DriverSymbols \cup {None}])
        BY Zenon, <2>2, LoaderAssumption DEF ImageType
      <3>2. images[image].bound \in Seq(Binding)
        BY Zenon, <2>2 DEF ImageType
      <3>3. Len(images[image].bound) = Len(Needs[images[image].file])
        BY Zenon, <2>1 DEF Right
      <3> QED BY SMTT(30), <3>1, <3>2, <3>3
    <2> QED BY Zenon, <2>1, <2>3 DEF Right
  <1> QED BY Zenon, <1>1, Invariance, PTL

-----------------------------------------------------------------------------
(* No load within a load of the same DLL.                                  *)

\* No frame is new.
Fewer ==
    \A d \in DOMAIN stack' :
        /\ d \in DOMAIN stack /\ stack'[d].name = stack[d].name
        /\ images'[stack'[d].image].file = images[stack[d].image].file

\* A step of the quiet kind begins no load.
LEMMA QuietFewer ==
    ASSUME IInv, Quiet PROVE Fewer
  <1>1. images' = images /\ SameFrames
    BY Zenon DEF Quiet
  <1>2. DOMAIN stack = 1 .. Len(stack) /\ DOMAIN stack' = 1 .. Len(stack)
    BY SMTT(30), <1>1, Typing DEF SameFrames, IInv
  <1> QED BY Zenon, <1>1, <1>2 DEF SameFrames, Fewer

\* Binding an import begins no load.
LEMMA BindsFewer ==
    ASSUME IInv, NEW to, Binds(to) PROVE Fewer
  <1>1. to \in Binding
    <2>1. Listed \subseteq Nat
      BY Zenon, Typing DEF IInv, Listed, RecordType
    <2>2. to = Missing \/ to = Platform \/ to \in Listed
      BY Zenon DEF Binds
    <2>3. Platform \in Binding /\ Missing \in Binding /\ Nat \subseteq Binding
      BY Zenon DEF Binding, Platform
    <2> QED BY ZenonT(30), <2>1, <2>2, <2>3
  <1>2. \A i \in DOMAIN images : images'[i].file = images[i].file
    BY Zenon, <1>1, BindFacts DEF Binds
  <1>3. SameFrames /\ \A d \in DOMAIN stack : stack[d].image \in DOMAIN images
    BY Zenon DEF Binds, IInv, Linked
  <1>4. DOMAIN stack = 1 .. Len(stack) /\ DOMAIN stack' = 1 .. Len(stack)
    BY <1>3, Typing DEF SameFrames, IInv
  <1> QED BY Zenon, <1>2, <1>3, <1>4 DEF SameFrames, Fewer

\* The end of a load leaves fewer of them.
LEMMA PopFewer ==
    ASSUME IInv, stack # <<>>, stack' = SubSeq(stack, 1, Len(stack) - 1), SameImages
    PROVE  Fewer
  <1>1. \A d \in DOMAIN stack' : d \in DOMAIN stack /\ stack'[d] = stack[d]
    BY Zenon, PopView
  <1>2. \A d \in DOMAIN stack : stack[d].image \in DOMAIN images
    BY ZenonT(30) DEF IInv, Linked
  <1> QED BY Zenon, <1>1, <1>2 DEF Fewer, SameImages

\* With no further load, no file is loading itself.
LEMMA FewerKeeps ==
    ASSUME NoSelfLoad, Fewer PROVE NoSelfLoad'
  BY SMTT(30) DEF NoSelfLoad, Fewer

\* A DLL that begins is neither listed, as every PE load in progress is, nor
\* the file of a native load in progress.
LEMMA StartsNoSelf ==
    ASSUME IInv, NoSelfLoad, NEW name \in Names, Starts(name)
    PROVE  NoSelfLoad'
  <1> DEFINE n == Len(images) + 1
             t == Len(stack) + 1
  <1>1. PICK p \in Nat : /\ stack' = Append(stack, Frame(name, n, p, pe_current_loading_dll))
                         /\ images' = NewImage(FileOf[name])
    <2>1. Len(pe_loading_stack) + 1 \in Nat /\ Len(dll_list) + 1 \in Nat
      BY SMTT(30), Typing DEF IInv
    <2> QED BY Zenon, <2>1 DEF Starts, StartPE, StartELF
  <1> DEFINE frame == Frame(name, n, p, pe_current_loading_dll)
  <1>2. frame.name = name /\ frame.image = n /\ frame \in FrameType
    <2>1. p \in Nat /\ n \in Nat
      BY SMTT(30), <1>1, Typing DEF IInv
    <2>2. TypeOK /\ name \in Names \cup {None} /\ FileOf[name] \in Files /\ name # None
      BY Zenon, NamesTyped DEF IInv
    <2> QED BY SMTT(30), <2>1, <2>2, FrameTyped
  <1> HIDE DEF frame
  <1>3. /\ DOMAIN stack' = DOMAIN stack \cup {t}
        /\ \A d \in DOMAIN stack : stack'[d] = stack[d] /\ d < t
        /\ stack'[t] = frame
    <2>1. stack \in Seq(FrameType) /\ stack' = Append(stack, frame)
      BY Zenon, <1>1 DEF IInv, TypeOK, FrameType, frame
    <2> QED BY SMTT(30), <1>2, <2>1
  <1>4. /\ \A i \in DOMAIN images : images'[i] = images[i]
        /\ images'[n].file = FileOf[name]
    <2> DEFINE image == [file |-> FileOf[name], bound |-> <<>>, live |-> TRUE]
    <2>1. image \in ImageType /\ image.file = FileOf[name]
      BY SMTT(30), LoaderAssumption DEF ImageType
    <2>2. images \in Seq(ImageType) /\ images' = Append(images, image)
      BY ZenonT(30), <1>1 DEF IInv, TypeOK, ImageType, NewImage
    <2> HIDE DEF image
    <2>3. images'[n] = image /\ \A i \in DOMAIN images : images'[i] = images[i]
      BY SMTT(30), <2>1, <2>2
    <2> QED BY ZenonT(30), <2>1, <2>3
  <1>5. ASSUME NEW c \in DOMAIN stack, stack[c].name # None
        PROVE  /\ stack[c].name # name
               /\ images[stack[c].image].file \in Elf => images[stack[c].image].file # FileOf[name]
    <2>1. images[stack[c].image].file = FileOf[stack[c].name]
      BY Zenon, <1>5 DEF IInv, Linked
    <2>2. CASE images[stack[c].image].file \in Elf
      <3>1. IsELF(c)
        BY Zenon, <1>5, <2>2 DEF IsELF
      <3>2. FileOf[stack[c].name] # FileOf[name]
        BY ZenonT(30), <3>1 DEF IInv, Slotted, Starts, Refused, InProgress
      <3> QED BY Zenon, <2>1, <3>2
    <2>3. CASE images[stack[c].image].file \notin Elf
      <3>1. IsPE(c)
        BY ZenonT(30), <1>5, <2>3 DEF IsPE
      <3> QED BY ZenonT(30), <2>3, <3>1 DEF IInv, Recorded, Starts, LoadedName
    <2> QED BY Zenon, <2>2, <2>3
  <1>6. \A c \in DOMAIN stack : stack[c].image \in DOMAIN images
    BY Zenon DEF IInv, Linked
  <1> HIDE DEF n, t
  <1> SUFFICES ASSUME NEW c \in DOMAIN stack', NEW d \in DOMAIN stack', c < d,
                      stack'[c].name # None, stack'[d].name # None
               PROVE  /\ stack'[c].name # stack'[d].name
                      /\ images'[stack'[c].image].file \in Elf =>
                            images'[stack'[c].image].file # images'[stack'[d].image].file
    BY Zenon DEF NoSelfLoad
  <1>7. c \in DOMAIN stack
    <2>1. DOMAIN stack = 1 .. Len(stack) /\ Len(stack) \in Nat
      BY Zenon, Typing DEF IInv
    <2> QED BY SMTT(30), <1>3, <2>1 DEF t
  <1>8. CASE d = t
    <2>1. stack'[d].name = name /\ images'[stack'[d].image].file = FileOf[name]
      BY ZenonT(30), <1>2, <1>3, <1>4, <1>8
    <2>2. stack'[c] = stack[c] /\ images'[stack[c].image] = images[stack[c].image]
      BY ZenonT(30), <1>3, <1>4, <1>6, <1>7
    <2> QED BY ZenonT(30), <1>5, <1>7, <2>1, <2>2
  <1>9. CASE d \in DOMAIN stack
    BY SMTT(30), <1>3, <1>4, <1>6, <1>7, <1>9 DEF NoSelfLoad
  <1> QED BY Zenon, <1>3, <1>8, <1>9

\* A program's load is the only one when it begins.
LEMMA AppNoSelf ==
    ASSUME NEW file \in Apps, LoadApp(file) PROVE NoSelfLoad'
  <1>1. DOMAIN stack' = {1}
    BY DEF LoadApp
  <1> QED BY SMTT(30), <1>1 DEF NoSelfLoad

\* Every way a load ends leaves fewer of them.
LEMMA EndFewer ==
    ASSUME IInv, FinishELF \/ FinishPE \/ FinishApp \/ (FindSymbolAgain /\ AbandonELF)
    PROVE  Fewer
  <1>1. stack # <<>> /\ stack' = SubSeq(stack, 1, Len(stack) - 1)
    BY Zenon DEF FinishELF, FinishPE, FinishApp, AbandonELF, FindSymbolAgain, Whole, Unresolved, Return
  <1>2. PeFreeImage(Top.image) \/ UNCHANGED images
    BY Zenon DEF FinishELF, FinishPE, FinishApp, AbandonELF
  <1>3. Top.image \in DOMAIN images
    BY Zenon, <1>1, TopFacts
  <1>4. SameImages
    <2>1. CASE PeFreeImage(Top.image)
      BY ZenonT(30), <1>3, <2>1, FreeFacts
    <2>2. CASE UNCHANGED images
      BY Zenon, <2>2 DEF SameImages, IInv, TypeOK, ImageType
    <2> QED BY Zenon, <1>2, <2>1, <2>2
  <1> QED BY Zenon, <1>1, <1>4, PopFewer

\* Every step keeps a file from being loaded inside its own load.
LEMMA NextNoSelf ==
    ASSUME IInv, NoSelfLoad, [Next]_vars
    PROVE  NoSelfLoad'
  <1>1. CASE ImportDll
    BY ZenonT(30), <1>1, ImportKind, QuietFewer, FewerKeeps, StartsNoSelf
  <1>2. CASE BindFunction
    BY ZenonT(30), <1>2, BindFunctionKind, BindsFewer, FewerKeeps
  <1>3. CASE FindSymbol
    BY ZenonT(30), <1>3, FindSymbolKind, QuietFewer, BindsFewer, FewerKeeps
  <1>4. CASE LoadCoreDll
    BY Zenon, <1>4, LoadCoreKind, QuietFewer, FewerKeeps, StartsNoSelf
  <1>5. CASE CoreDllLoaded
    BY ZenonT(30), <1>5, CoreLoadedKind, QuietFewer, FewerKeeps
  <1>6. CASE FindSymbolAgain
    BY ZenonT(30), <1>6, FindAgainKind, BindsFewer, EndFewer, FewerKeeps
  <1>7. CASE FinishELF \/ FinishPE \/ FinishApp
    BY Zenon, <1>7, EndFewer, FewerKeeps
  <1>8. CASE \E name \in Names : LoadLibrary(name)
    BY ZenonT(30), <1>8, LibraryKind, QuietFewer, FewerKeeps, StartsNoSelf
  <1>9. CASE \E file \in Apps : LoadApp(file)
    BY Zenon, <1>9, AppNoSelf
  <1>10. CASE \E image \in running : AppExits(image)
    <2>1. DOMAIN stack' = {}
      BY SMTT(30), <1>10 DEF AppExits
    <2> QED BY Zenon, <2>1 DEF NoSelfLoad
  <1>11. CASE UNCHANGED vars
    BY Zenon, <1>11, StutterKeeps, QuietFewer, FewerKeeps
  <1> QED BY ZenonT(30), <1>1, <1>2, <1>3, <1>4, <1>5, <1>6, <1>7, <1>8, <1>9, <1>10, <1>11 DEF Next, Step

\* However files import each other, no DLL is loaded while it is being loaded:
\* a PE image is found in dll_list, a native one in pe_loading_stack.
THEOREM NoLoadWithinItself == Spec => []NoSelfLoad
  <1>1. Init => NoSelfLoad
    <2>1. Init => DOMAIN stack = {}
      BY DEF Init
    <2> QED BY Zenon, <2>1 DEF NoSelfLoad
  <1>2. IInv /\ NoSelfLoad /\ [Next]_vars => NoSelfLoad'
    BY Zenon, NextNoSelf
  <1> QED BY Zenon, <1>1, <1>2, Invariance, PTL DEF Spec

=============================================================================
