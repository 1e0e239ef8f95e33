---------------------------- MODULE ZipArchive ----------------------------
(***************************************************************************)
(* What validated_zip_members accepts (datasets/acquisition.py): the end   *)
(* record it selects, the central directory it walks and the member        *)
(* namespace it allows.  Sizes are in abstract units.                      *)
(***************************************************************************)
EXTENDS Integers, Sequences, FiniteSets, Functions, FiniteSetsExt

CONSTANTS
    EocdSize,          \* _EOCD_SIZE
    Zip64Size,         \* _ZIP64_LOCATOR_SIZE + _ZIP64_EOCD_SIZE
    MaxEntries,        \* limits.max_entries
    MaxDirectory,      \* limits.max_central_directory_bytes
    MaxExpanded,       \* limits.max_total_expanded_bytes
    MaxRatio           \* limits.max_compression_ratio

ASSUME ZipAssumption == EocdSize \in Nat

(* An archive is a record of                                                *)
(*   length   of the searched tail,                                         *)
(*   sigs     comment size of each end-record signature, by position,       *)
(*   zip64    "none", "sound" or "unsound" locator and record,              *)
(*   sentinel whether the end record's fields point to a ZIP64 record,      *)
(*   onedisk  whether all disk fields agree,                                *)
(*   size, entries  of the central directory as declared,                   *)
(*   records  sizes of the directory records found at its start,            *)
(*   members  the parsed members, each [path, dir, plain, size, packed]     *)
(*            with path a sequence of components and plain for a member     *)
(*            that is unencrypted, supported, no link and well named.       *)

\* Positions in the tail, and comment sizes as the 16 unsigned bits they are.
WellFormed(a) ==
    /\ a.length \in Nat
    /\ DOMAIN a.sigs \subseteq 0..a.length
    /\ a.sigs \in [DOMAIN a.sigs -> Nat]

\* Mutant: earlier end records are not looked for.
SelectedEocdLast(a) ==
    LET fitting == {p \in DOMAIN a.sigs : p + EocdSize = a.length /\ a.sigs[p] = 0}
        selected == IF fitting # {} THEN a.length - EocdSize
                    ELSE Max(DOMAIN a.sigs \cup {-1})
    IN  IF selected >= 0 /\ selected + EocdSize + a.sigs[selected] = a.length
        THEN selected ELSE -1

\* The end record: one without a comment at the very end, else the last
\* signature; it must reach the end of the file and no earlier one may.
SelectedEocd(a) ==
    LET fitting == {p \in DOMAIN a.sigs : p + EocdSize = a.length /\ a.sigs[p] = 0}
        selected == IF fitting # {} THEN a.length - EocdSize
                    ELSE Max(DOMAIN a.sigs \cup {-1})
        earlier == {p \in DOMAIN a.sigs : p < selected /\ p + EocdSize + a.sigs[p] = a.length}
    IN  IF /\ selected >= 0
           /\ selected + EocdSize + a.sigs[selected] = a.length
           /\ earlier = {}
        THEN selected ELSE -1

\* A ZIP64 record must lie directly before its locator and the end record, and
\* must be there when the end record's fields say so.
DirectoryDeclared(a) ==
    /\ a.onedisk
    /\ a.zip64 # "unsound"
    /\ a.sentinel => a.zip64 = "sound"
    /\ a.entries <= MaxEntries
    /\ a.size <= MaxDirectory

\* Where the central directory ends: at the ZIP64 record or at the end record.
DirectoryEnd(a) ==
    IF a.zip64 = "sound" THEN SelectedEocd(a) - Zip64Size ELSE SelectedEocd(a)

Consumed(a, n) == FoldFunctionOnSet(+, 0, a.records, 1..n)

\* The walk consumes whole records until the declared size is used up.
DirectoryWalks(a) ==
    /\ DirectoryEnd(a) - a.size >= 0
    /\ a.entries <= Len(a.records)
    /\ Consumed(a, a.entries) = a.size

Files(a) == {i \in DOMAIN a.members : ~a.members[i].dir}
Directories(a) == DOMAIN a.members \ Files(a)
Path(a, i) == a.members[i].path
ObjectName(a, i) == a.members[i].path[Len(a.members[i].path)]
IsAncestor(p, q) == Len(p) < Len(q) /\ SubSeq(q, 1, Len(p)) = p

MembersValidated(a) ==
    /\ Len(a.members) <= MaxEntries
    /\ \A i \in DOMAIN a.members : a.members[i].plain
    /\ \A i \in Directories(a) : a.members[i].size = 0 /\ a.members[i].packed = 0
    /\ \A i, j \in Directories(a) : i # j => Path(a, i) # Path(a, j)
    /\ \A i, j \in Files(a) : i # j => ObjectName(a, i) # ObjectName(a, j)
    /\ MapThenSumSet(LAMBDA i : a.members[i].size, Files(a)) <= MaxExpanded
    /\ \A i \in Files(a) : a.members[i].size > 0 =>
        /\ a.members[i].packed > 0
        /\ a.members[i].size <= MaxRatio * a.members[i].packed
    /\ \A i \in Files(a), d \in Directories(a) :
        Path(a, i) # Path(a, d) /\ ~IsAncestor(Path(a, i), Path(a, d))
    /\ Files(a) # {}

Accepted(a) ==
    /\ SelectedEocd(a) >= 0
    /\ DirectoryDeclared(a)
    /\ DirectoryWalks(a)
    /\ MembersValidated(a)

\* The end records that a reader could start from.
ConsistentEocds(a) ==
    {p \in DOMAIN a.sigs : p + EocdSize + a.sigs[p] = a.length}
=============================================================================
