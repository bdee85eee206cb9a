---------------------------- MODULE ScratchArrays ----------------------------
(***************************************************************************)
(* How strings of any length come from GDAL to Java (GDALWarp.java and     *)
(* com_azavea_gdal_GDALWarp.c).  Java offers a scratch array; the native    *)
(* method copies the strings into it, or answers -CPLE_AppDefined when it   *)
(* is too small, and Java then makes one of twice the size and calls again. *)
(* An array is kept from call to call, with what earlier calls left in it:  *)
(* the end of a list is the first row that begins with a zero.              *)
(*                                                                         *)
(* The arrays are ThreadLocal, so one thread is the whole system.  A row is *)
(* the string it holds up to its zero; an array of `len` rows has rows of   *)
(* `len` bytes.  What GDAL has for a request does not change between the    *)
(* attempts: the datasets are only read.                                    *)
(***************************************************************************)
EXTENDS Integers, Sequences

CONSTANTS
    Strings,        \* the strings GDAL answers with, and what becomes of them
    Empty, Blank,   \* the string of no bytes, and the one written in its place
    Cut,            \* what is left of a string longer than its array
    StrLen,         \* strlen
    Trimmed,        \* String.trim()
    Lists,          \* the lists of strings that GDAL may have for a request
    Errors,         \* the CPLErrorNums an operation of the library may fail with
    InitialLen,     \* 1 << 8: the length of a thread's first arrays
    MaxLen,         \* bound: no array grows beyond this length
    MaxLost         \* bound: the successes answered with -ATTEMPTS_EXCEEDED

CPLE_AppDefined   == 1
ATTEMPTS_EXCEEDED == 100

ASSUME StringsAssumption ==
    /\ {Empty, Blank} \subseteq Strings /\ Empty # Blank /\ Cut \notin Strings
    /\ StrLen \in [Strings -> Nat] /\ \A s \in Strings : StrLen[s] = 0 <=> s = Empty
    /\ Trimmed \in [Strings -> Strings] /\ Trimmed[Empty] = Empty /\ Trimmed[Blank] = Empty
    /\ Lists \subseteq Seq(Strings)
ASSUME ArraysAssumption ==
    /\ InitialLen \in Nat /\ InitialLen >= 2 /\ MaxLen \in Nat /\ MaxLost \in Nat
    /\ Errors \subseteq Nat \ {0}

VARIABLES
    len2, rows,     \* scratch_2d: its length (0: null), and what its rows hold
    len1, line,     \* scratch_1d likewise, with one row
    pc,             \* where the call is
    op,             \* the method that was called ...
    wanted,         \* ... and the list, or the list of one string, GDAL has for it
    ret,            \* retval
    value,          \* what the caller is given
    owned,          \* the domain lists that are to be freed with CSLDestroy
    lost            \* History: the domain lists of successes answered as failures

arrays  == <<len2, rows, len1, line>>
scVars  == <<arrays, pc, op, wanted, ret, value, owned, lost>>

ListOps == {"domains", "metadata"}
OneOps  == {"item", "version"}

\* What a method of Java returns when it reads beyond the last row.
Thrown == <<Cut>>

Texts == Strings \cup {Cut}

ScTypeOK ==
    /\ len2 \in Nat /\ rows \in [1..len2 -> Strings]
    /\ len1 \in Nat /\ line \in Texts
    /\ pc \in {"idle", "native", "copy", "read", "done"}
    /\ op \in ListOps \cup OneOps
    /\ wanted \in Seq(Strings)
    /\ op \in OneOps => Len(wanted) = 1
    /\ ret \in Int
    /\ value \in Seq(Texts)
    /\ owned \in Nat /\ lost \in 0..MaxLost

\* A bug this code could have had: the rows are as many as there were before.
HalfTheRows(n) == [i \in 1..(n \div 2) |-> Empty]

\* new byte[len][len].
NewRows(n) == [i \in 1..n |-> Empty]

ScInit ==
    /\ len2 = 0 /\ rows = NewRows(0)
    /\ len1 = 0 /\ line = Empty
    /\ pc = "idle" /\ op = "domains" /\ wanted = <<>> /\ ret = 0 /\ value = <<>>
    /\ owned = 0 /\ lost = 0

-------------------------------------------------------------------------------
(* Bugs this code could have had, each before the definition it is a faulty  *)
(* form of; no action uses them.                                             *)

\* An entry of no bytes would end the list: a blank is written for it.
Row(s) == IF s = Empty THEN Blank ELSE s

\* The list that leaves no row free is accepted.
FullIsFine(list) == Len(list) <= len2

\* i == max_size after the loop: no row is left for the end of the list.
HasRoom(list) == Len(list) < len2

\* One byte more than the string and its zero and the byte to spare.
TightFit(s, len) == StrLen[s] < len - 2

\* len < array_size - 1: room for the zero, and a byte to spare.  (The blank
\* that is written for an entry of no bytes always fits.)
FitsIn(s, len) == StrLen[s] < len - 1

\* The row after the last entry is left as it was.
NoTerminator(list, i) == FALSE

\* The row after the last entry is terminated, if i < max_size - 1.
IsTerminator(list, i) == i = Len(list) + 1 /\ i < len2

\* Only the way out at the end of the function frees the list.
FreedUnlessTooLong(list) == \A i \in 1..Len(list) : i <= len2 => FitsIn(list[i], len2)

\* CSLDestroy on every way out after a success.
Freed(list) == TRUE

\* The array that was too small is offered again.
SameLen(n) == n

\* scratch_2d.get().length << 1.
Doubled(n) == n * 2

-------------------------------------------------------------------------------
(* GDALWarp.java. *)

\* A method is called; ensure_scratch makes the array if there is none.
JavaCall(o, w) ==
    /\ pc = "idle"
    /\ op' = o
    /\ wanted' = w
    /\ IF o \in ListOps
       THEN /\ len2' = IF len2 = 0 THEN InitialLen ELSE len2
            /\ rows' = IF len2 = 0 THEN NewRows(InitialLen) ELSE rows
            /\ UNCHANGED <<len1, line>>
       ELSE /\ len1' = IF len1 = 0 THEN InitialLen ELSE len1
            /\ UNCHANGED <<len2, rows, line>>
    /\ pc' = "native"
    /\ UNCHANGED <<ret, value, owned, lost>>

\* The empty rows, and the one the search for the end of the list stops at.
Ends     == {i \in 1..len2 : rows[i] = Empty}
FirstEnd == CHOOSE i \in Ends : \A j \in Ends : i <= j

\* retval >= 0: the rows up to the first empty one, each of them trimmed.
ReadList ==
    /\ pc = "read" /\ op \in ListOps /\ ret >= 0
    /\ value' = IF Ends = {} THEN Thrown
                ELSE [i \in 1..(FirstEnd - 1) |-> Trimmed[rows[i]]]
    /\ pc' = "done"
    /\ UNCHANGED <<arrays, op, wanted, ret, owned, lost>>

TrimmedText(s) == IF s = Cut THEN Cut ELSE Trimmed[s]

\* retval >= 0, or a version of `retval` bytes that fits: the string, trimmed.
ReadOne ==
    /\ pc = "read" /\ op \in OneOps /\ ret >= 0
    /\ op = "version" => ret < len1
    /\ value' = <<TrimmedText(line)>>
    /\ pc' = "done"
    /\ UNCHANGED <<arrays, op, wanted, ret, owned, lost>>

\* retval == -1: grow_scratch(0), and the method calls itself.
GrowList ==
    /\ pc = "read" /\ op \in ListOps /\ ret = -CPLE_AppDefined
    /\ Doubled(len2) <= MaxLen
    /\ len2' = Doubled(len2)
    /\ rows' = NewRows(Doubled(len2))
    /\ pc' = "native"
    /\ UNCHANGED <<len1, line, op, wanted, ret, value, owned, lost>>

GrowOne ==
    /\ pc = "read" /\ op = "item" /\ ret = -CPLE_AppDefined
    /\ Doubled(len1) <= MaxLen
    /\ len1' = Doubled(len1)
    /\ line' = Empty
    /\ pc' = "native"
    /\ UNCHANGED <<len2, rows, op, wanted, ret, value, owned, lost>>

\* get_version_info knows the length it needs.  (It does not look at the second
\* answer, which is the same.)
GrowVersion ==
    /\ pc = "read" /\ op = "version" /\ ret >= len1
    /\ len1' = ret + 1
    /\ line' = Empty
    /\ pc' = "native"
    /\ UNCHANGED <<len2, rows, op, wanted, ret, value, owned, lost>>

\* Any other code is returned as it is.
OtherError ==
    /\ pc = "read" /\ ret < 0 /\ ret # -CPLE_AppDefined
    /\ pc' = "done"
    /\ UNCHANGED <<arrays, op, wanted, ret, value, owned, lost>>

JavaReturns ==
    /\ pc = "done"
    /\ ret' = 0
    /\ value' = <<>>
    /\ wanted' = <<>>
    /\ op' = "domains"
    /\ pc' = "idle"
    /\ UNCHANGED <<arrays, owned, lost>>

-------------------------------------------------------------------------------
(* com_azavea_gdal_GDALWarp.c. *)

\* The operation of the library succeeds; a list of domains is the caller's.
LibrarySucceeds ==
    /\ pc = "native" /\ op # "version"
    /\ ret' = 1
    /\ owned' = IF op = "domains" THEN owned + 1 ELSE owned
    /\ pc' = "copy"
    /\ UNCHANGED <<arrays, op, wanted, value, lost>>

\* retval < 0: nothing is copied.
LibraryFails(e) ==
    /\ pc = "native" /\ op # "version"
    /\ ret' = -e
    /\ pc' = "read"
    /\ UNCHANGED <<arrays, op, wanted, value, owned, lost>>

\* So it is if the operation succeeded on its last attempt.
LibraryLosesSuccess ==
    /\ pc = "native" /\ op # "version"
    /\ ret' = -ATTEMPTS_EXCEEDED
    /\ IF op = "domains"
       THEN lost < MaxLost /\ owned' = owned + 1 /\ lost' = lost + 1
       ELSE UNCHANGED <<owned, lost>>
    /\ pc' = "read"
    /\ UNCHANGED <<arrays, op, wanted, value>>

\* The entries before the first one that is too long, or that has no row.
Copied(list) == {i \in 1..Len(list) : \A j \in 1..i : j <= len2 /\ FitsIn(list[j], len2)}

\* A list: the entries row by row, and the end of the list after them.
CopyList ==
    LET all == Copied(wanted) = 1..Len(wanted)
    IN  /\ pc = "copy" /\ op \in ListOps
        /\ rows' = [i \in 1..len2 |->
                        IF i \in Copied(wanted) THEN Row(wanted[i])
                        ELSE IF all /\ IsTerminator(wanted, i) THEN Empty
                        ELSE rows[i]]
        /\ ret' = IF all /\ HasRoom(wanted) THEN ret ELSE -CPLE_AppDefined
        /\ owned' = IF op = "domains" /\ Freed(wanted) THEN owned - 1 ELSE owned
        /\ pc' = "read"
        /\ UNCHANGED <<len2, len1, line, op, wanted, value, lost>>

CopyItem ==
    /\ pc = "copy" /\ op = "item"
    /\ IF FitsIn(wanted[1], len1)
       THEN line' = wanted[1] /\ UNCHANGED ret
       ELSE ret' = -CPLE_AppDefined /\ UNCHANGED line
    /\ pc' = "read"
    /\ UNCHANGED <<len2, rows, len1, op, wanted, value, owned, lost>>

\* GDALVersionInfo, and strncpy of no more than the array holds; the answer is
\* the length of the whole string.
CopyVersion ==
    /\ pc = "native" /\ op = "version"
    /\ line' = IF StrLen[wanted[1]] <= len1 THEN wanted[1] ELSE Cut
    /\ ret' = StrLen[wanted[1]]
    /\ pc' = "read"
    /\ UNCHANGED <<len2, rows, len1, op, wanted, value, owned, lost>>

-------------------------------------------------------------------------------

ScStep ==
    \/ ReadList \/ ReadOne \/ GrowList \/ GrowOne \/ GrowVersion \/ OtherError \/ JavaReturns
    \/ LibrarySucceeds \/ LibraryLosesSuccess \/ (\E e \in Errors : LibraryFails(e))
    \/ CopyList \/ CopyItem \/ CopyVersion

ScNext ==
    \/ \E o \in ListOps, w \in Lists : JavaCall(o, w)
    \/ \E o \in OneOps, s \in Strings : JavaCall(o, <<s>>)
    \/ ScStep

ScSpec == ScInit /\ [][ScNext]_scVars

\* The steps of a call are those of one thread that runs.
ScFairSpec == ScSpec /\ WF_scVars(ScStep)

-------------------------------------------------------------------------------
(* What makes the copying correct. *)

\* What the caller of get_metadata_domain_list, get_metadata, get_metadata_item
\* and get_version_info is given is what GDAL has, trimmed: neither a row that an
\* earlier call left in the array, nor a list or a string cut short.
AnswersAreGdals ==
    pc = "done" /\ ret >= 0 => value = [i \in 1..Len(wanted) |-> Trimmed[wanted[i]]]

\* When Java reads a list, and when it offers the array to the next call, the
\* last row is empty: the search for the end of the list finds one, though the
\* native method never writes the last row's end (`i < (max_size - 1)`).
LastRowEmpty ==
    len2 > 0 /\ ~(pc = "read" /\ ret = -CPLE_AppDefined) => rows[len2] = Empty

\* Every list of domains is freed, once, before Java sees the answer ("Must be
\* freed with CSLDestroy"), but for those of successes that the library answers
\* as failures: the native method returns at once for these.
DomainListsFreed ==
    owned = lost + IF pc = "copy" /\ op = "domains" THEN 1 ELSE 0

\* Whether what GDAL has fits into an array of n rows, or bytes, and whether it
\* fits into the one that was offered.
FitsInto(n) ==
    IF op \in ListOps
    THEN Len(wanted) < n /\ \A i \in 1..Len(wanted) : StrLen[wanted[i]] < n - 1
    ELSE StrLen[wanted[1]] < n - 1

Offered == IF op \in ListOps THEN len2 ELSE len1
Fits    == FitsInto(Offered)

\* "CPLE_AppDefined means array too small": Java makes a larger array only if
\* what GDAL has did not fit into the one it offered.
AppDefinedMeansTooSmall ==
    pc = "read" /\ ret = -CPLE_AppDefined => ~Fits

\* How far a method is from its end if an array of n rows would do: what is
\* missing to it, and the steps of this attempt.
Missing(n) == IF Offered < n THEN n - Offered ELSE 0

AttemptLeft ==
    CASE pc = "native" -> 3
      [] pc = "copy"   -> 2
      [] pc = "read"   -> 1
      [] OTHER         -> 0

MethodLeft(n) == 4 * Missing(n) + AttemptLeft

\* Every step of a method brings it nearer to its end, whatever earlier calls have
\* left: an array that is too small is replaced by a larger one, and one that would
\* do is not, so a method calls itself at most as often as the array must grow.
MethodNearsItsEnd ==
    [][\A n \in 0..MaxLen :
           pc \in {"native", "copy", "read"} /\ FitsInto(n) =>
               MethodLeft(n)' \in Nat /\ MethodLeft(n)' < MethodLeft(n)]_scVars

\* A method that was called returns, if the operations of the library do not fail
\* with CPLE_AppDefined: the arrays stop growing.
MethodReturns == pc # "idle" ~> pc = "done"
===============================================================================
