------------------------------- MODULE Paths -------------------------------
(***************************************************************************)
(* Path names as the daemon sees them: C strings that it splits, extends   *)
(* and searches with strcmp() and strstr().                                *)
(*                                                                         *)
(* A path is the sequence of its components: <<c1, .., cn>> stands for the *)
(* string "/c1/../cn".  The empty component makes the odd strings of the   *)
(* code expressible: <<"">> is "/", <<"", "">> is "//", <<"foo", "">> is   *)
(* "/foo/", and <<>> is the empty string.                                  *)
(***************************************************************************)
EXTENDS Integers, Sequences, FiniteSets, SequencesExt

CONSTANTS
    \* the names of directory entries
    Name,
    \* the directories that can ever exist
    Path,
    \* names that end in ".~tmp~", the mark of rsync's scratch entries
    TmpNames

NoName      == ""
Slash       == <<NoName>>
DoubleSlash == <<NoName, NoName>>
NoPath      == <<>>

ASSUME PathAssumption ==
    /\ NoName \in Name
    /\ Path \subseteq Seq(Name)
    /\ IsFiniteSet(Path)
    /\ NoPath \notin Path
    /\ DoubleSlash \notin Path
    /\ TmpNames \subseteq Name

(* The file system's own view: where an entry hangs, and what is below it. *)
Parent(p) == IF Len(p) = 1 THEN Slash ELSE Front(p)

(* The string r "/" is a prefix of p.                                      *)
Below(p, r) == IsStrictPrefix(r, p)

(* strstr(p, r "/") # NULL: the match may start at any slash of p.         *)
Strstr(p, r) == \E s \in Suffixes(p) : IsStrictPrefix(r, s)

(* The absolute path of an event.  For the directory "/" the format "/%s"  *)
(* gets the directory where the name was meant: the result is "//".        *)
AbsPath(p, n) == IF p = Slash THEN DoubleSlash ELSE Append(p, n)

(* The directory that a string names when it is given to the kernel.       *)
Resolve(p) == IF p = DoubleSlash THEN Slash ELSE p

(* path[last] == '/' : the trailing slash is cut off.                      *)
StripSlash(p) == IF p # NoPath /\ Last(p) = NoName THEN Front(p) ELSE p

(* The first ".~tmp~" in the string p is at its end.                       *)
IsTmp(p) ==
    /\ p # NoPath
    /\ Last(p) \in TmpNames
    /\ \A i \in 1 .. Len(p) - 1 : p[i] \notin TmpNames

=============================================================================
