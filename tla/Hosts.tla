-------------------------------- MODULE Hosts --------------------------------
(***************************************************************************)
(* upsert_hosts_mapping of onboarding.py on the hosts file of a runner:    *)
(* onboarding is run again and again, for a monitor that may have moved,   *)
(* on a file that operators edit between the runs.  A line is the address  *)
(* and the names of its first words; what follows a # and how words are    *)
(* spaced is left out.                                                     *)
(***************************************************************************)
EXTENDS Integers, Sequences, SequencesExt, FiniteSets

CONSTANTS
    Monitor,        \* the monitor's host name
    Others,         \* other names of the file
    Addresses,      \* usable IPv4 addresses
    MaxLines        \* bound: lines an operator's edit leaves

Names == {Monitor} \cup Others
ASSUME HostsAssumption == MaxLines \in Nat /\ Monitor \notin Others

VARIABLES
    file,       \* the lines
    result,     \* of the last run
    wanted      \* the address the last successful run was given

hostsVars == <<file, result, wanted>>

Line == [address : Addresses, names : (SUBSET Names) \ {{}}]
Blank == [address |-> "none", names |-> {}]     \* or a comment

Naming(lines, name) == {i \in DOMAIN lines : name \in lines[i].names}

\* Where a resolver takes a name from: the first line that has it.
Resolved(lines, name) ==
    IF Naming(lines, name) = {} THEN "none"
    ELSE lines[CHOOSE i \in Naming(lines, name) :
                   \A j \in Naming(lines, name) : i <= j].address

-----------------------------------------------------------------------------
\* Mutant of Refused: a second line for the name goes unnoticed.
RefusedConflict(address, replace) ==
    \E i \in Naming(file, Monitor) : file[i].address # address /\ ~replace

\* duplicate_hosts_mapping, conflicting_hosts_mapping.
Refused(address, replace) ==
    \/ Cardinality(Naming(file, Monitor)) > 1
    \/ \E i \in Naming(file, Monitor) : file[i].address # address /\ ~replace

\* Mutants of Updated: a replaced line loses its names; a new line is added
\* where there is an old one.
UpdatedBare(address) ==
    IF Naming(file, Monitor) = {}
    THEN Append(file, [address |-> address, names |-> {Monitor}])
    ELSE [i \in DOMAIN file |->
            IF i \in Naming(file, Monitor) /\ file[i].address # address
            THEN [address |-> address, names |-> {}] ELSE file[i]]
UpdatedByAppending(address) ==
    IF \E i \in Naming(file, Monitor) : file[i].address = address THEN file
    ELSE Append(file, [address |-> address, names |-> {Monitor}])

\* already_present, replaced (the first word of the line) or added.
Updated(address) ==
    IF Naming(file, Monitor) = {}
    THEN Append(file, [address |-> address, names |-> {Monitor}])
    ELSE [i \in DOMAIN file |->
            IF i \in Naming(file, Monitor) THEN [file[i] EXCEPT !.address = address]
                                           ELSE file[i]]

Upsert(address, replace) ==
    IF Refused(address, replace)
    THEN result' = "refused" /\ UNCHANGED <<file, wanted>>
    ELSE /\ file' = Updated(address)
         /\ result' = IF file' = file THEN "already_present" ELSE "changed"
         /\ wanted' = address

\* An operator adds a line anywhere, or takes one out.
Edit ==
    /\ \/ /\ Len(file) < MaxLines
          /\ \E line \in Line \cup {Blank}, i \in 1 .. Len(file) + 1 :
                file' = InsertAt(file, i, line)
       \/ \E i \in DOMAIN file : file' = RemoveAt(file, i)
    /\ result' = "edited"
    /\ UNCHANGED wanted

HostsInit == file = <<>> /\ result = "edited" /\ wanted = "none"

Run == \E address \in Addresses, replace \in BOOLEAN : Upsert(address, replace)
HostsNext == Run \/ Edit
HostsSpec == HostsInit /\ [][HostsNext]_hostsVars

-----------------------------------------------------------------------------
(* Properties *)

HostsTypeOK ==
    /\ file \in Seq(Line \cup {Blank})
    /\ result \in {"edited", "refused", "already_present", "changed"}
    /\ wanted \in Addresses \cup {"none"}

\* After a run that did not refuse, the monitor's name means the address that
\* was asked for, on one line only: no older line before it wins.
MonitorResolves ==
    result \in {"already_present", "changed"} =>
        /\ Resolved(file, Monitor) = wanted
        /\ Cardinality(Naming(file, Monitor)) = 1

\* Onboarding that is run again as it was run before is never refused and
\* changes nothing ("already_present"), whatever it did the first time.
AgainIsNoChange ==
    result \in {"already_present", "changed"} =>
        /\ ~Refused(wanted, FALSE)
        /\ Updated(wanted) = file

\* A run moves no other name to another address, but for one whose line names
\* the monitor too: that one then has the monitor's new address.
OthersKeepTheirs ==
    [][Run => \A name \in Others :
                 \/ Resolved(file', name) = Resolved(file, name)
                 \/ /\ Resolved(file', name) = wanted'
                    /\ \E i \in Naming(file, name) :
                          /\ Monitor \in file[i].names
                          /\ \A j \in Naming(file, name) : i <= j]_hostsVars

\* Runs and edits in any order: the monitor's name is right after every run, the
\* run can be repeated, and names on lines of their own stay where they are.
OnboardingIsSafe == [](HostsTypeOK /\ MonitorResolves /\ AgainIsNoChange) /\ OthersKeepTheirs
=============================================================================
