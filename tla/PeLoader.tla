------------------------------ MODULE PeLoader ------------------------------
(***************************************************************************)
(* The image loader (kernel/loader/peloader.c): DLLs that load the DLLs    *)
(* they need while they are being loaded themselves.  A PE image names the *)
(* DLL of each function it imports and is listed before its imports are    *)
(* resolved; a native ELF image only names symbols, is searched for among  *)
(* the core DLLs, which are loaded for it, and is listed once it is whole. *)
(* The recursion is a stack of frames, so a step is what happens between   *)
(* two calls.  Loads do not interleave: nothing here yields.               *)
(*                                                                         *)
(* A name stands for its spelling; names of one file differ in case only.  *)
(* Needs gives what a file imports, in order, as [dll, sym]: sym = None is *)
(* an import by ordinal, and an ELF image has no use for dll.              *)
(***************************************************************************)
EXTENDS Integers, Sequences, FiniteSets

CONSTANTS
    Files, Names, FileOf,      \* FileOf[n]: the file the upper-cased name is
    Found,                     \* the files of SYSTEM32 and APPS
    Elf,                       \* the native ones among them
    Needs, Exports,            \* what a file imports and exports
    Apps,                      \* the files started as applications
    CoreDlls,                  \* core_dlls
    KernelExports, DriverSymbols,
    None,
    MaxDepth,                  \* the size of pe_loading_stack
    MaxCalls                   \* loads asked for from outside the loader

ASSUME LoaderAssumption ==
    /\ FileOf \in [Names -> Files]
    /\ Found \subseteq Files /\ Elf \subseteq Files /\ Apps \subseteq Files
    /\ \A f \in Files : Needs[f] \in Seq([dll : Names, sym : UNION {Exports[g] : g \in Files}
                                              \cup KernelExports \cup DriverSymbols \cup {None}])
    /\ CoreDlls \in Seq(Names)
    /\ None \notin Names \cup KernelExports \cup DriverSymbols \cup UNION {Exports[g] : g \in Files}
    /\ MaxDepth \in Nat /\ MaxCalls \in Nat

VARIABLES
    images,                    \* every image allocated: its file, what it is bound to, whether it lives
    dll_list,                  \* [name, image], the newest last
    stack,                     \* the loads in progress, the innermost last
    result,                    \* what the innermost load was just given by PeLoadDll
    pe_loading_stack, pe_current_loading_dll,
    running,                   \* the images of started applications
    calls

vars == <<images, dll_list, stack, result, pe_loading_stack, pe_current_loading_dll, running, calls>>

\* What an import is bound to when it is not an image.
Platform == 0
Missing == -1

Init ==
    /\ images = <<>> /\ dll_list = <<>> /\ stack = <<>>
    /\ result = None
    /\ pe_loading_stack = <<>> /\ pe_current_loading_dll = None
    /\ running = {} /\ calls = 0

\* A load in progress: the name asked for (None for an application), its
\* image, its place in dll_list if it is PE and in pe_loading_stack if it is
\* native, the core DLL whose loading it waits for (0: none), and the caller's
\* pe_current_loading_dll.
Frame(name, image, pos, outer) ==
    [name |-> name, image |-> image, pos |-> pos, core |-> 0, outer |-> outer]

Top == stack[Len(stack)]
Image == images[Top.image]
Unresolved == stack # <<>> /\ Len(Image.bound) < Len(Needs[Image.file])
Need == Needs[Image.file][Len(Image.bound) + 1]

NewImage(file) == Append(images, [file |-> file, bound |-> <<>>, live |-> TRUE])
PeFreeImage(i) == images' = [images EXCEPT ![i].live = FALSE]
Bind(to) == images' = [images EXCEPT ![Top.image].bound = Append(@, to)]

Newest(S) == CHOOSE i \in S : \A j \in S : j <= i
Oldest(S) == CHOOSE i \in S : \A j \in S : i <= j

\* PeGetLoadedModuleHandle, which ignores case, and the strcmp of PeLoadDll.
LoadedFile(file) == {i \in DOMAIN dll_list : FileOf[dll_list[i].name] = file}
LoadedName(name) == {i \in DOMAIN dll_list : dll_list[i].name = name}

-----------------------------------------------------------------------------
(* PeLoadDll up to its first nested call, or to its return.                *)

InProgress(file) == \E d \in DOMAIN pe_loading_stack : FileOf[pe_loading_stack[d]] = file

Refused(name) ==
    \/ InProgress(FileOf[name])
    \/ FileOf[name] \notin Found
    \/ Len(pe_loading_stack) >= MaxDepth

\* Faulty variant: a PE image is not listed before its imports are resolved.
StartPEUnlisted(name) ==
    /\ images' = NewImage(FileOf[name])
    /\ dll_list' = dll_list
    /\ stack' = Append(stack, Frame(name, Len(images) + 1, Len(dll_list) + 1, pe_current_loading_dll))
    /\ UNCHANGED <<pe_loading_stack, pe_current_loading_dll>>

StartPE(name) ==
    /\ images' = NewImage(FileOf[name])
    /\ dll_list' = Append(dll_list, [name |-> name, image |-> Len(images) + 1])
    /\ stack' = Append(stack, Frame(name, Len(images) + 1, Len(dll_list) + 1, pe_current_loading_dll))
    /\ UNCHANGED <<pe_loading_stack, pe_current_loading_dll>>

StartELF(name) ==
    /\ images' = NewImage(FileOf[name])
    /\ pe_loading_stack' = Append(pe_loading_stack, name)
    /\ pe_current_loading_dll' = name
    /\ stack' = Append(stack, Frame(name, Len(images) + 1, Len(pe_loading_stack) + 1,
                                     pe_current_loading_dll))
    /\ UNCHANGED dll_list

\* A load that is not begun: the file is listed, refused, not a sound image,
\* or there is no memory for it.
Answer(value) ==
    /\ result' = IF stack = <<>> THEN None ELSE value
    /\ UNCHANGED <<images, dll_list, stack, pe_loading_stack, pe_current_loading_dll>>

PeLoadDll(name) ==
    \/ /\ LoadedName(name) # {}
       /\ Answer(dll_list[Newest(LoadedName(name))].image)
    \/ /\ LoadedName(name) = {}
       /\ Answer(Missing)
    \/ /\ LoadedName(name) = {} /\ ~Refused(name)
       /\ IF FileOf[name] \in Elf THEN StartELF(name) ELSE StartPE(name)
       /\ UNCHANGED result

\* The innermost load returns to the one around it.
Return(value) ==
    /\ stack' = SubSeq(stack, 1, Len(stack) - 1)
    /\ result' = IF Len(stack) = 1 THEN None ELSE value

-----------------------------------------------------------------------------
(* PeResolveImports of a PE image.                                         *)

Native == Image.file \in Elf

ImportDll ==
    /\ Unresolved /\ ~Native /\ result = None
    /\ PeLoadDll(Need.dll)
    /\ UNCHANGED <<running, calls>>

\* Faulty variant: a function its DLL does not have is left for later.
BindFunctionOrSkip ==
    /\ Unresolved /\ ~Native /\ result # None
    /\ Bind(IF Need.sym # None /\ result # Missing /\ Need.sym \in Exports[images[result].file]
            THEN result ELSE Platform)
    /\ result' = None
    /\ UNCHANGED <<dll_list, stack, pe_loading_stack, pe_current_loading_dll, running, calls>>

\* An import by ordinal is neither bound nor missed.
BindFunction ==
    /\ Unresolved /\ ~Native /\ result # None
    /\ Bind(IF Need.sym = None THEN Platform
            ELSE IF result # Missing /\ Need.sym \in Exports[images[result].file]
                 THEN result ELSE Missing)
    /\ result' = None
    /\ UNCHANGED <<dll_list, stack, pe_loading_stack, pe_current_loading_dll, running, calls>>

-----------------------------------------------------------------------------
(* PeResolveExternalSymbol for the next symbol of an ELF image.            *)

\* The core DLLs that are listed and have the symbol.
CoreWith(sym) ==
    {c \in DOMAIN CoreDlls : LoadedFile(FileOf[CoreDlls[c]]) # {} /\ sym \in Exports[FileOf[CoreDlls[c]]]}

PeFindCoreDllSymbol(sym) ==
    dll_list[Newest(LoadedFile(FileOf[CoreDlls[Oldest(CoreWith(sym))]]))].image

LoadedWith(sym) == {i \in DOMAIN dll_list : sym \in Exports[images[dll_list[i].image].file]}

\* What is there already: kernel exports, core DLLs, driver symbols.
FindSymbol ==
    /\ Unresolved /\ Native /\ Top.core = 0 /\ result = None
    /\ \/ /\ Need.sym \in KernelExports
          /\ Bind(Platform) /\ UNCHANGED stack
       \/ /\ Need.sym \notin KernelExports /\ CoreWith(Need.sym) # {}
          /\ Bind(PeFindCoreDllSymbol(Need.sym)) /\ UNCHANGED stack
       \/ /\ Need.sym \in DriverSymbols \ KernelExports /\ CoreWith(Need.sym) = {}
          /\ Bind(Platform) /\ UNCHANGED stack
       \/ /\ Need.sym \notin KernelExports \cup DriverSymbols /\ CoreWith(Need.sym) = {}
          /\ stack' = [stack EXCEPT ![Len(stack)].core = 1] /\ UNCHANGED images
    /\ UNCHANGED <<dll_list, result, pe_loading_stack, pe_current_loading_dll, running, calls>>

\* Faulty variant: a provider that did not load is tried again.
NextCoreIfLoaded ==
    [stack EXCEPT ![Len(stack)].core = @ + IF result = Missing THEN 0 ELSE 1]

NextCore == [stack EXCEPT ![Len(stack)].core = @ + 1]

\* outer_loading_dll: pe_current_loading_dll as it is around the whole loop.
Context == IF Top.name = None THEN Top.outer ELSE Top.name

\* The loop over the core DLLs, without the one being built.
LoadCoreDll ==
    /\ Unresolved /\ Native /\ Top.core \in DOMAIN CoreDlls /\ result = None
    /\ LET name == CoreDlls[Top.core]
       IN  IF Context # None /\ FileOf[Context] = FileOf[name]
           THEN /\ stack' = NextCore
                /\ UNCHANGED <<images, dll_list, result, pe_loading_stack, pe_current_loading_dll>>
           ELSE PeLoadDll(name)
    /\ UNCHANGED <<running, calls>>

CoreDllLoaded ==
    /\ Unresolved /\ Native /\ result # None
    /\ stack' = NextCore
    /\ result' = None
    /\ pe_current_loading_dll' = Context
    /\ UNCHANGED <<images, dll_list, pe_loading_stack, running, calls>>

\* PeLoadELF gives up: nothing it loaded on the way is unloaded.
AbandonELF ==
    /\ PeFreeImage(Top.image)
    /\ pe_loading_stack' = IF Top.name = None THEN pe_loading_stack
                           ELSE SubSeq(pe_loading_stack, 1, Len(pe_loading_stack) - 1)
    /\ pe_current_loading_dll' = Top.outer
    /\ Return(Missing)

\* The second search, with the core DLLs there.
FindSymbolAgain ==
    /\ Unresolved /\ Native /\ Top.core > Len(CoreDlls) /\ result = None
    /\ LET sym == Need.sym
           found == IF CoreWith(sym) # {} THEN {PeFindCoreDllSymbol(sym)}
                    ELSE IF LoadedWith(sym) # {}
                         THEN {dll_list[Newest(LoadedWith(sym))].image} ELSE {}
       IN  \/ \E image \in found :
                 /\ Bind(image)
                 /\ stack' = [stack EXCEPT ![Len(stack)].core = 0]
                 /\ UNCHANGED <<result, pe_loading_stack, pe_current_loading_dll>>
           \/ found = {} /\ AbandonELF
    /\ UNCHANGED <<dll_list, running, calls>>

-----------------------------------------------------------------------------
(* The end of a load.                                                      *)

Whole == stack # <<>> /\ ~Unresolved /\ result = None

\* A native image is listed now, or freed if there is no record for it.
FinishELF ==
    /\ Whole /\ Native /\ Top.name # None
    /\ pe_loading_stack' = SubSeq(pe_loading_stack, 1, Len(pe_loading_stack) - 1)
    /\ pe_current_loading_dll' = Top.outer
    /\ \/ /\ dll_list' = Append(dll_list, [name |-> Top.name, image |-> Top.image])
          /\ Return(Top.image)
          /\ UNCHANGED images
       \/ /\ PeFreeImage(Top.image)
          /\ Return(Missing)
          /\ UNCHANGED dll_list
    /\ UNCHANGED <<running, calls>>

Failed == \E k \in DOMAIN Image.bound : Image.bound[k] = Missing

\* Faulty variant: a failed DLL alone is taken off the list.
UnlinkOnly(pos) == SubSeq(dll_list, 1, pos - 1) \o SubSeq(dll_list, pos + 1, Len(dll_list))

\* dll_list = new_dll->next: what was loaded for a failed DLL goes with it.
Unlink(pos) == SubSeq(dll_list, 1, pos - 1)

FinishPE ==
    /\ Whole /\ ~Native /\ Top.name # None
    /\ IF Failed
       THEN /\ dll_list' = Unlink(Top.pos)
            /\ PeFreeImage(Top.image)
            /\ Return(Missing)
       ELSE Return(Top.image) /\ UNCHANGED <<images, dll_list>>
    /\ UNCHANGED <<pe_loading_stack, pe_current_loading_dll, running, calls>>

\* An application is started, or its image freed.
FinishApp ==
    /\ Whole /\ Top.name = None
    /\ IF Failed THEN PeFreeImage(Top.image) /\ UNCHANGED running
                 ELSE running' = running \cup {Top.image} /\ UNCHANGED images
    /\ Return(Missing)
    /\ UNCHANGED <<dll_list, pe_loading_stack, pe_current_loading_dll, calls>>

-----------------------------------------------------------------------------
(* Callers: LoadLibrary and CSRSS for a DLL, CSRSS and SMSS for an         *)
(* application, whose image they free when it exits.                       *)

LoadLibrary(name) ==
    /\ stack = <<>> /\ calls < MaxCalls
    /\ calls' = calls + 1
    /\ PeLoadDll(name)
    /\ UNCHANGED running

LoadApp(file) ==
    /\ stack = <<>> /\ calls < MaxCalls
    /\ calls' = calls + 1
    /\ images' = NewImage(file)
    /\ stack' = <<Frame(None, Len(images) + 1, 0, pe_current_loading_dll)>>
    /\ UNCHANGED <<dll_list, result, pe_loading_stack, pe_current_loading_dll, running>>

AppExits(image) ==
    /\ stack = <<>> /\ image \in running
    /\ PeFreeImage(image)
    /\ running' = running \ {image}
    /\ UNCHANGED <<dll_list, stack, result, pe_loading_stack, pe_current_loading_dll, calls>>

Step ==
    \/ ImportDll \/ BindFunction
    \/ FindSymbol \/ LoadCoreDll \/ CoreDllLoaded \/ FindSymbolAgain
    \/ FinishELF \/ FinishPE \/ FinishApp

Next ==
    \/ Step
    \/ \E name \in Names : LoadLibrary(name)
    \/ \E file \in Apps : LoadApp(file)
    \/ \E image \in running : AppExits(image)

\* The loader is plain code: it runs on while there is a load in progress.
Spec == Init /\ [][Next]_vars /\ WF_vars(Step)

-----------------------------------------------------------------------------

Binding == Nat \cup {Missing}

TypeOK ==
    /\ images \in Seq([file : Files, bound : Seq(Binding), live : BOOLEAN])
    /\ dll_list \in Seq([name : Names, image : Nat])
    /\ stack \in Seq([name : Names \cup {None}, image : Nat, pos : Nat, core : Nat,
                      outer : Names \cup {None}])
    /\ result \in Binding \cup {None}
    /\ pe_loading_stack \in Seq(Names)
    /\ pe_current_loading_dll \in Names \cup {None}
    /\ running \subseteq Nat /\ calls \in 0 .. MaxCalls

Listed == {dll_list[i].image : i \in DOMAIN dll_list}
Building == {stack[d].image : d \in DOMAIN stack}
BoundTo(image) == {images[image].bound[k] : k \in DOMAIN images[image].bound} \ {Platform, Missing}

\* A DLL that fails to load may already be bound to by DLLs that were loaded
\* for it.  Nothing that is listed, being built or running is left with a
\* pointer into a freed image.
BoundToLive ==
    \A image \in Listed \cup Building \cup running :
        images[image].live /\ \A to \in BoundTo(image) : images[to].live

\* "Register immediately to prevent recursive self-load loops while resolving
\* imports/relocations" (peloader.c:1493) and "Reject only that in-progress
\* cycle" (peloader.c:1407): no DLL is loaded while it is being loaded, whether
\* the cycle goes through PE or ELF images; a native file not even under
\* another spelling of its name.
NoSelfLoad ==
    \A c, d \in DOMAIN stack :
        c < d /\ stack[c].name # None /\ stack[d].name # None =>
            /\ stack[c].name # stack[d].name
            /\ images[stack[c].image].file \in Elf => images[stack[c].image].file # images[stack[d].image].file

\* A DLL the loader has returned, and an application that runs, has every
\* import by name bound to an image that exports it or to the kernel.
WholeWhenReturned ==
    \A image \in (Listed \cup running) \ Building :
        LET needs == Needs[images[image].file]
        IN  \A k \in DOMAIN needs : needs[k].sym # None =>
                LET to == images[image].bound[k]
                IN  IF to = Platform THEN needs[k].sym \in KernelExports \cup DriverSymbols
                    ELSE to # Missing /\ needs[k].sym \in Exports[images[to].file]

\* Every load comes to an end, whatever imports whatever.
LoadsReturn == (stack # <<>>) ~> (stack = <<>>)

-----------------------------------------------------------------------------
(* The inductive invariant.                                                *)

IsPE(d) == stack[d].name # None /\ images[stack[d].image].file \notin Elf
IsELF(d) == stack[d].name # None /\ images[stack[d].image].file \in Elf
InUse == Listed \cup Building \cup running

\* Images, records and frames go together; only an application has no name,
\* and it is at the bottom of the stack.
Linked ==
    /\ \A i \in DOMAIN dll_list :
          /\ dll_list[i].image \in DOMAIN images
          /\ images[dll_list[i].image].file = FileOf[dll_list[i].name]
    /\ \A d \in DOMAIN stack :
          /\ stack[d].image \in DOMAIN images
          /\ stack[d].name # None => images[stack[d].image].file = FileOf[stack[d].name]
          /\ stack[d].name = None => d = 1
    /\ running \subseteq DOMAIN images
    /\ \A image \in InUse : images[image].live
    /\ result # None => stack # <<>> /\ result \in Listed \cup {Missing}

\* An image is in one place: at most one record and one frame have it.
Apart ==
    /\ \A i, j \in DOMAIN dll_list : dll_list[i].image = dll_list[j].image => i = j
    /\ \A c, d \in DOMAIN stack : stack[c].image = stack[d].image => c = d
    /\ running \cap (Listed \cup Building) = {}
    /\ \A d \in DOMAIN stack : ~IsPE(d) => stack[d].image \notin Listed

\* A PE frame is in the list, above those around it.
Recorded ==
    /\ \A d \in DOMAIN stack : IsPE(d) =>
          /\ stack[d].pos \in DOMAIN dll_list
          /\ dll_list[stack[d].pos].name = stack[d].name
          /\ dll_list[stack[d].pos].image = stack[d].image
    /\ \A c, d \in DOMAIN stack : IsPE(c) /\ IsPE(d) /\ c < d => stack[c].pos < stack[d].pos

\* pe_loading_stack holds the names of the native frames, in their order.
Slotted ==
    /\ \A d \in DOMAIN stack : IsELF(d) =>
          /\ stack[d].pos \in DOMAIN pe_loading_stack
          /\ pe_loading_stack[stack[d].pos] = stack[d].name
    /\ \A c, d \in DOMAIN stack : IsELF(c) /\ IsELF(d) /\ c < d => stack[c].pos < stack[d].pos
    /\ \A e \in DOMAIN pe_loading_stack : \E d \in DOMAIN stack : IsELF(d) /\ stack[d].pos = e

\* Everything is bound to listed images, and what does not go with a failing
\* PE load is bound to images that do not either.
BelowOf(d) == {dll_list[i].image : i \in 1 .. stack[d].pos - 1}
Outside(d) == BelowOf(d) \cup {stack[c].image : c \in 1 .. d - 1} \cup running
BoundToListed ==
    /\ \A image \in InUse : BoundTo(image) \subseteq Listed
    /\ \A d \in DOMAIN stack : IsPE(d) =>
          \A image \in Outside(d) : BoundTo(image) \subseteq BelowOf(d)

\* An import is bound to what exports it, or missed by a PE image still being
\* built.
Right(image) ==
    LET needs == Needs[images[image].file]
        bound == images[image].bound
    IN  /\ Len(bound) <= Len(needs)
        /\ image \notin Building => Len(bound) = Len(needs)
        /\ \A k \in DOMAIN bound :
              /\ bound[k] = Missing => image \in Building /\ images[image].file \notin Elf
              /\ bound[k] = Platform /\ needs[k].sym # None =>
                    needs[k].sym \in KernelExports \cup DriverSymbols
              /\ bound[k] \notin {Missing, Platform} =>
                    bound[k] \in DOMAIN images /\ needs[k].sym \in Exports[images[bound[k]].file]

BoundRight == \A image \in InUse : Right(image)
=============================================================================
