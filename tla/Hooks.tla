-------------------------------- MODULE Hooks --------------------------------
(***************************************************************************)
(* The hook libraries of the slave (slave/hooks/): what a configuration    *)
(* loads, which callouts a packet meets, and what the server makes of the  *)
(* status they leave.  Libraries are loaded while no packet is processed   *)
(* (CtrlServer), so a packet meets all its callouts in one step.           *)
(***************************************************************************)
EXTENDS Integers, Sequences, FiniteSets, SequencesExt

CONSTANTS Lib,          \* shared objects
          Exports,      \* [Lib -> SUBSET Hook]: the callouts dlsym finds in each
          MaxLibs       \* bound on the libraries of a configuration

Hook == {"context_create", "context_destroy", "pkt4_receive", "pkt4_send"}

HooksAssumption == Exports \in [Lib -> SUBSET Hook] /\ MaxLibs \in Nat

Status == {"continue", "skip", "drop"}

VARIABLES
  pc,             \* idle, loading, failed (a library was not loaded), undefined
  library_names,  \* of the collection
  lib_managers,   \* the libraries loaded so far; the index of each is its place
  hook_vector,    \* [Hook -> Seq([index, lib])] of the callout manager
  refs,           \* how often the loader has each library open
  stale,          \* the manager of a library that failed keeps a closed handle
  wanted,         \* history: the libraries of the last load, if it succeeded
  last            \* the last packet: its hook, whom it met, their status, its fate

vars == <<pc, library_names, lib_managers, hook_vector, refs, stale, wanted, last>>

NoCallouts == [h \in Hook |-> <<>>]
NoPacket == [hook |-> "none", met |-> <<>>, status |-> "continue", fate |-> "none"]
Times(lib, s) == Cardinality({i \in DOMAIN s : s[i] = lib})

Init ==
  /\ pc = "idle" /\ library_names = <<>> /\ lib_managers = <<>> /\ hook_vector = NoCallouts
  /\ refs = [l \in Lib |-> 0] /\ stale = FALSE /\ wanted = <<>> /\ last = NoPacket

-----------------------------------------------------------------------------
(* Loading. *)

\* A callout goes before those of libraries with a greater index.
registerCallout(callouts, i, lib) ==
  SelectSeq(callouts, LAMBDA e : e.index <= i) \o <<[index |-> i, lib |-> lib]>>
    \o SelectSeq(callouts, LAMBDA e : e.index > i)

registerStandardCallouts(i, lib) ==
  [h \in Hook |-> IF h \in Exports[lib] THEN registerCallout(hook_vector[h], i, lib)
                  ELSE hook_vector[h]]

\* unloadLibraries: every manager closes its handle once; closing a library that
\* is not open fails.
Closed == [l \in Lib |-> IF refs[l] < Times(l, lib_managers) THEN 0
                         ELSE refs[l] - Times(l, lib_managers)]

\* A new collection takes the place of the old one, which unloads its libraries.
loadLibraries(libs) ==
  /\ pc = "idle"
  /\ pc' = "loading" /\ library_names' = libs /\ lib_managers' = <<>>
  /\ hook_vector' = NoCallouts /\ refs' = Closed
  /\ stale' = FALSE /\ wanted' = <<>>
  /\ UNCHANGED last

Current == Len(lib_managers) + 1
NextLib == library_names[Current]
Loading == pc = "loading" /\ Current <= Len(library_names)

LibraryLoaded ==
  /\ Loading
  /\ refs' = [refs EXCEPT ![NextLib] = @ + 1]
  /\ hook_vector' = registerStandardCallouts(Current, NextLib)
  /\ lib_managers' = Append(lib_managers, NextLib)
  /\ UNCHANGED <<pc, library_names, stale, wanted, last>>

\* The library cannot be opened.
LibraryMissing ==
  /\ Loading
  /\ pc' = "failed"
  /\ UNCHANGED <<library_names, lib_managers, hook_vector, refs, stale, wanted, last>>

\* checkVersion fails: opened and closed again.
LibraryRefused ==
  /\ Loading
  /\ pc' = "failed"
  /\ UNCHANGED <<library_names, lib_managers, hook_vector, refs, stale, wanted, last>>

\* load() fails.  unloadLibrary takes the callouts back and closes the handle, and
\* loadLibrary closes it once more; dl_handle_ stays set.
LoadFails ==
  /\ Loading
  /\ pc' = "failed" /\ stale' = TRUE
  /\ refs' = [refs EXCEPT ![NextLib] = IF @ = 0 THEN 0 ELSE @ - 1]
  /\ UNCHANGED <<library_names, lib_managers, hook_vector, wanted, last>>

\* Mutant: a library that failed is left out, and the others stay.
GiveUpKeepingOthers ==
  /\ pc = "failed" /\ pc' = "idle"
  /\ UNCHANGED <<library_names, lib_managers, hook_vector, refs, stale, wanted, last>>

\* The libraries that were loaded are unloaded, then the one that failed is
\* destroyed, and an empty collection takes over.  A manager whose handle was
\* closed before uses it, and a callout manager that is gone: the program ends
\* there, or the calls fail.
GiveUp ==
  /\ pc = "failed"
  /\ \/ pc' = "idle"
     \/ stale /\ pc' = "undefined"
  /\ library_names' = <<>> /\ lib_managers' = <<>> /\ hook_vector' = NoCallouts
  /\ refs' = Closed /\ stale' = FALSE
  /\ UNCHANGED <<wanted, last>>

Loaded ==
  /\ pc = "loading" /\ Current > Len(library_names)
  /\ pc' = "idle" /\ wanted' = library_names
  /\ UNCHANGED <<library_names, lib_managers, hook_vector, refs, stale, last>>

-----------------------------------------------------------------------------
(* Packets. *)

\* callCallouts: all are called, also after one that throws ("none": it throws or
\* sets no status), and the last status set counts.
callCallouts(answers) ==
  FoldLeft(LAMBDA status, a : IF a = "none" THEN status ELSE a, "continue", answers)

Packet(hook, Fate(_)) ==
  /\ pc = "idle"
  /\ \E answers \in [1..Len(hook_vector[hook]) -> Status \cup {"none"}] :
       LET status == callCallouts(answers)
       IN last' = [hook |-> hook, met |-> [i \in DOMAIN answers |-> hook_vector[hook][i].lib],
                   status |-> status, fate |-> Fate(status)]
  /\ UNCHANGED <<pc, library_names, lib_managers, hook_vector, refs, stale, wanted>>

\* processPacket drops a query that is skipped.
processPacket == Packet("pkt4_receive", LAMBDA s : IF s = "skip" THEN "dropped" ELSE "processed")

\* beforePktSent only leaves a skipped reply out of the statistics.
beforePktSent == Packet("pkt4_send", LAMBDA s : IF s = "skip" THEN "sent" ELSE "counted")

Next ==
  \/ \E libs \in SeqOf(Lib, MaxLibs) : loadLibraries(libs)
  \/ LibraryLoaded \/ LibraryMissing \/ LibraryRefused \/ LoadFails \/ GiveUp \/ Loaded
  \/ processPacket \/ beforePktSent

Spec == Init /\ [][Next]_vars

-----------------------------------------------------------------------------

\* A configuration is loaded as a whole or not at all: packets meet the callouts
\* of all its libraries, in the order of the configuration, or none, also after a
\* load that failed half way (library_manager_collection.cpp:31-36).
AllOrNothing ==
  pc = "idle" =>
    \A h \in Hook :
      [i \in DOMAIN hook_vector[h] |-> hook_vector[h][i].lib]
        = SelectSeq(wanted, LAMBDA l : h \in Exports[l])

\* Every library is open as often as it is loaded, whatever was loaded, refused or
\* failed before: none leaks, and none with callouts was closed
\* (library_manager.cpp:104-134).
RefsBalanced == pc = "idle" => \A l \in Lib : refs[l] = Times(l, lib_managers)

=============================================================================
