---------------------------- MODULE ScratchProofs ----------------------------
(***************************************************************************)
(* The arrays that carry strings to Java (ScratchArrays), for strings and   *)
(* lists of every length: what a caller is given is what GDAL has, and the  *)
(* search for the end of a list finds one.                                  *)
(***************************************************************************)
EXTENDS ScratchArrays, SequenceTheorems, TLAPS

-------------------------------------------------------------------------------
(* The invariant. *)

\* An array that a method offers is there.
LengthsInv ==
    /\ len2 = 0 \/ len2 >= 2
    /\ len1 = 0 \/ len1 >= 2
    /\ op \in ListOps /\ pc # "idle" => len2 # 0
    /\ op \in OneOps /\ pc # "idle" => len1 # 0

\* The last row of an array may be taken only if the array is about to be replaced.
LastRowInv ==
    len2 > 0 /\ ~(pc = "read" /\ op \in ListOps /\ ret = -CPLE_AppDefined) => rows[len2] = Empty

\* What the native method has left for Java to read.
ReadInv ==
    pc = "read" /\ ret >= 0 =>
        /\ op \in ListOps =>
               /\ Len(wanted) < len2
               /\ \A i \in 1..Len(wanted) : rows[i] = Row(wanted[i])
               /\ rows[Len(wanted) + 1] = Empty
        /\ op = "item" => line = wanted[1]
        /\ op = "version" => ret = StrLen[wanted[1]] /\ (ret < len1 => line = wanted[1])

\* Only an operation that succeeded is copied from.
RetInv == pc = "copy" => ret = 1 /\ op # "version"

AnswerInv ==
    pc = "done" /\ ret >= 0 => value = [i \in 1..Len(wanted) |-> Trimmed[wanted[i]]]

\* What JavaCall, or the method that calls itself, goes on from.
ScInv ==
    /\ ScTypeOK /\ LengthsInv /\ LastRowInv /\ ReadInv /\ RetInv /\ AnswerInv
    /\ DomainListsFreed

-------------------------------------------------------------------------------
(* What the operators do. *)

LEMMA RowIsNotEmpty ==
    ASSUME NEW s \in Strings
    PROVE  Row(s) \in Strings /\ Row(s) # Empty /\ Trimmed[Row(s)] = Trimmed[s]
  BY StringsAssumption DEF Row

LEMMA NewRowsAreEmpty ==
    ASSUME NEW n \in Nat
    PROVE  NewRows(n) \in [1..n -> Strings] /\ \A i \in 1..n : NewRows(n)[i] = Empty
  BY StringsAssumption DEF NewRows

LEMMA SeqFacts ==
    /\ \A s \in Seq(Strings) :
           /\ Len(s) \in Nat /\ s \in [1..Len(s) -> Strings]
           /\ \A i \in 1..Len(s) : s[i] \in Strings
    /\ \A s \in Strings : <<s>> \in Seq(Strings) /\ Len(<<s>>) = 1 /\ <<s>>[1] = s
    /\ <<>> \in Seq(Strings) /\ <<>> \in Seq(Texts)
  BY LenProperties DEF Texts

LEMMA OneIsWanted ==
    ASSUME ScTypeOK, op \in OneOps
    PROVE  wanted[1] \in Strings
<1>1. wanted \in Seq(Strings) /\ Len(wanted) = 1 BY DEF ScTypeOK
<1>2. 1 \in 1..Len(wanted) BY ONLY <1>1
<1> QED BY <1>1, <1>2, SeqFacts

\* A list that was copied whole is one Java reads whole: the first empty row is the
\* one after the last entry.
LEMMA EndIsFound ==
    ASSUME ScTypeOK, op \in ListOps, Len(wanted) < len2,
           \A i \in 1..Len(wanted) : rows[i] = Row(wanted[i]),
           rows[Len(wanted) + 1] = Empty
    PROVE  Ends # {} /\ FirstEnd = Len(wanted) + 1
<1>1. Len(wanted) \in Nat /\ len2 \in Nat /\ \A i \in 1..Len(wanted) : wanted[i] \in Strings
  BY SeqFacts DEF ScTypeOK
<1>2. Len(wanted) + 1 \in Ends BY <1>1 DEF Ends
<1>3. \A i \in Ends : Len(wanted) + 1 <= i
  <2> SUFFICES ASSUME NEW i \in Ends, i <= Len(wanted) PROVE FALSE
    BY <1>1 DEF Ends
  <2>1. i \in 1..Len(wanted) /\ rows[i] = Empty BY <1>1 DEF Ends
  <2> QED BY <1>1, <2>1, RowIsNotEmpty
<1>4. \A n \in Ends : (\A j \in Ends : n <= j) => n = Len(wanted) + 1
  BY <1>1, <1>2, <1>3 DEF Ends
<1>5. FirstEnd \in Ends /\ \A j \in Ends : FirstEnd <= j
  BY <1>2, <1>3 DEF FirstEnd
<1> QED BY <1>2, <1>4, <1>5

LEMMA ListIsRead ==
    ASSUME ScInv, ReadList
    PROVE  value' = [i \in 1..Len(wanted) |-> Trimmed[wanted[i]]] /\ value' \in Seq(Texts)
<1>1. /\ ScTypeOK /\ op \in ListOps /\ Len(wanted) < len2
      /\ \A i \in 1..Len(wanted) : rows[i] = Row(wanted[i])
      /\ rows[Len(wanted) + 1] = Empty
  BY DEF ScInv, ReadInv, ReadList
<1>2. Len(wanted) \in Nat /\ \A i \in 1..Len(wanted) : wanted[i] \in Strings
  BY <1>1, SeqFacts DEF ScTypeOK
<1>3. Ends # {} /\ FirstEnd = Len(wanted) + 1 BY <1>1, EndIsFound
<1>4. value' = [i \in 1..Len(wanted) |-> Trimmed[rows[i]]]
  <2>1. Len(wanted) + 1 - 1 = Len(wanted) BY <1>2
  <2>2. value' = [i \in 1..(FirstEnd - 1) |-> Trimmed[rows[i]]] BY <1>3 DEF ReadList
  <2> QED BY <1>3, <2>1, <2>2
<1>5. \A i \in 1..Len(wanted) : Trimmed[rows[i]] = Trimmed[wanted[i]]
  BY <1>1, <1>2, RowIsNotEmpty
<1>6. value' = [i \in 1..Len(wanted) |-> Trimmed[wanted[i]]] BY <1>4, <1>5
<1>7. value' \in [1..Len(wanted) -> Texts]
  BY <1>2, <1>6, StringsAssumption DEF Texts
<1> QED BY <1>2, <1>6, <1>7, SeqDef

LEMMA LineIsRead ==
    ASSUME ScInv, ReadOne
    PROVE  value' = [i \in 1..Len(wanted) |-> Trimmed[wanted[i]]] /\ value' \in Seq(Texts)
<1>1. /\ line = wanted[1] /\ Len(wanted) = 1 /\ wanted[1] \in Strings
  BY SeqFacts DEF ScInv, ScTypeOK, ReadInv, ReadOne, OneOps
<1>2. value' = <<Trimmed[wanted[1]]>>
  BY <1>1, StringsAssumption DEF ReadOne, TrimmedText
<1>3. Trimmed[wanted[1]] \in Texts BY <1>1, StringsAssumption DEF Texts
<1>4. value' \in Seq(Texts) BY <1>2, <1>3
<1>5. <<Trimmed[wanted[1]]>> = [i \in 1..1 |-> Trimmed[wanted[i]]] OBVIOUS
<1> QED BY <1>1, <1>2, <1>4, <1>5

LEMMA CopyListFacts ==
    ASSUME ScInv, CopyList
    PROVE  /\ rows' \in [1..len2 -> Strings]
           /\ ret' \in {1, -CPLE_AppDefined}
           /\ ret' = 1 =>
                 /\ Len(wanted) < len2
                 /\ \A i \in 1..Len(wanted) : rows'[i] = Row(wanted[i])
                 /\ rows'[Len(wanted) + 1] = Empty
                 /\ rows'[len2] = Empty
           /\ ret' # 1 => ~Fits
<1>1. /\ ScTypeOK /\ len2 \in Nat /\ len2 >= 2 /\ ret = 1 /\ rows[len2] = Empty
      /\ Len(wanted) \in Nat /\ \A i \in 1..Len(wanted) : wanted[i] \in Strings
  BY SeqFacts DEF ScInv, ScTypeOK, LengthsInv, LastRowInv, RetInv, CopyList
<1>2. rows' = [i \in 1..len2 |->
                  IF i \in Copied(wanted) THEN Row(wanted[i])
                  ELSE IF Copied(wanted) = 1..Len(wanted) /\ IsTerminator(wanted, i) THEN Empty
                  ELSE rows[i]]
  BY DEF CopyList
<1>3. rows' \in [1..len2 -> Strings]
  <2>1. \A i \in 1..len2 : rows[i] \in Strings BY <1>1 DEF ScTypeOK
  <2>2. \A i \in Copied(wanted) : Row(wanted[i]) \in Strings
    BY <1>1, RowIsNotEmpty DEF Copied
  <2> QED BY <1>2, <2>1, <2>2, StringsAssumption
<1>4. ret' = IF Copied(wanted) = 1..Len(wanted) /\ HasRoom(wanted) THEN 1 ELSE -CPLE_AppDefined
  BY <1>1 DEF CopyList
<1>5. ret' \in {1, -CPLE_AppDefined} BY <1>4
<1>6. ASSUME ret' = 1
      PROVE  /\ Len(wanted) < len2
             /\ \A i \in 1..Len(wanted) : rows'[i] = Row(wanted[i])
             /\ rows'[Len(wanted) + 1] = Empty
             /\ rows'[len2] = Empty
  <2>1. Copied(wanted) = 1..Len(wanted) /\ Len(wanted) < len2
    BY <1>4, <1>6 DEF HasRoom, CPLE_AppDefined
  <2>2. \A i \in 1..Len(wanted) : rows'[i] = Row(wanted[i]) BY <1>1, <1>2, <2>1
  <2>3. rows'[len2] = Empty BY <1>1, <1>2, <2>1 DEF IsTerminator
  <2>4. rows'[Len(wanted) + 1] = Empty
    <3>1. CASE Len(wanted) + 1 = len2 BY <2>3, <3>1
    <3>2. CASE Len(wanted) + 1 < len2 BY <1>1, <1>2, <2>1, <3>2 DEF IsTerminator
    <3> QED BY <1>1, <2>1, <3>1, <3>2
  <2> QED BY <2>1, <2>2, <2>3, <2>4
<1>7. ASSUME Fits PROVE ret' = 1
  <2>1. Len(wanted) < len2 /\ \A i \in 1..Len(wanted) : StrLen[wanted[i]] < len2 - 1
    BY <1>7 DEF Fits, FitsInto, Offered, CopyList
  <2>2. Copied(wanted) = 1..Len(wanted) BY <1>1, <2>1 DEF Copied, FitsIn
  <2> QED BY <1>4, <2>1, <2>2 DEF HasRoom
<1> QED BY <1>3, <1>5, <1>6, <1>7

-------------------------------------------------------------------------------
(* Every step preserves the invariant. *)

LEMMA InitHolds == ScInit => ScInv
<1> SUFFICES ASSUME ScInit PROVE ScInv OBVIOUS
<1>1. NewRows(0) \in [1..0 -> Strings] BY NewRowsAreEmpty
<1>2. ScTypeOK
  BY <1>1, SeqFacts, StringsAssumption, ArraysAssumption
     DEF ScInit, ScTypeOK, ListOps, OneOps, Texts
<1> QED BY <1>2 DEF ScInit, ScInv, LengthsInv, LastRowInv, ReadInv, RetInv, AnswerInv,
                DomainListsFreed

LEMMA FreedStep ==
    ASSUME ScTypeOK, DomainListsFreed, [ScNext]_scVars
    PROVE  DomainListsFreed'
<1>1. owned \in Nat /\ lost \in Nat BY DEF ScTypeOK
<1>2. CASE LibraryLosesSuccess BY <1>1, <1>2 DEF LibraryLosesSuccess, DomainListsFreed
<1>3. CASE LibrarySucceeds BY <1>1, <1>3 DEF LibrarySucceeds, DomainListsFreed
<1>4. CASE CopyList BY <1>1, <1>4 DEF CopyList, Freed, DomainListsFreed
<1>5. CASE CopyItem BY <1>5 DEF CopyItem, DomainListsFreed
<1>6. CASE UNCHANGED scVars BY <1>6 DEF scVars, DomainListsFreed
<1>7. ASSUME pc # "copy", pc' # "copy", UNCHANGED <<owned, lost>> PROVE DomainListsFreed'
  BY <1>7 DEF DomainListsFreed
<1> QED BY <1>2, <1>3, <1>4, <1>5, <1>6, <1>7
     DEF ScNext, ScStep, JavaCall, ReadList, ReadOne, GrowList, GrowOne, GrowVersion, OtherError,
         JavaReturns, LibraryFails, CopyVersion

LEMMA InvStep ==
    ASSUME ScInv, [ScNext]_scVars
    PROVE  ScInv'
<1> USE ArraysAssumption, StringsAssumption DEF ListOps, OneOps, CPLE_AppDefined
<1>0. /\ ScTypeOK /\ LengthsInv /\ LastRowInv /\ ReadInv /\ RetInv /\ AnswerInv
      /\ len1 \in Nat /\ len2 \in Nat
      /\ DomainListsFreed'
  BY FreedStep DEF ScInv, ScTypeOK
<1>1. ASSUME NEW o \in ListOps \cup OneOps, NEW w \in Seq(Strings), JavaCall(o, w),
             o \in OneOps => Len(w) = 1
      PROVE  ScInv'
  <2>1. /\ NewRows(InitialLen) \in [1..InitialLen -> Strings]
        /\ \A i \in 1..InitialLen : NewRows(InitialLen)[i] = Empty
    BY NewRowsAreEmpty
  <2>2. /\ len2' \in Nat /\ rows' \in [1..len2' -> Strings]
        /\ len2' > 0 => rows'[len2'] = Empty
        /\ len2' = 0 \/ len2' >= 2
        /\ o \in ListOps => len2' # 0
    <3>1. CASE o \in ListOps /\ len2 = 0 BY <1>1, <2>1, <3>1 DEF JavaCall
    <3>2. CASE ~(o \in ListOps /\ len2 = 0)
      <4>1. len2' = len2 /\ rows' = rows BY <1>1, <3>2 DEF JavaCall
      <4>2. len2 > 0 => rows[len2] = Empty BY <1>0, <1>1 DEF LastRowInv, JavaCall
      <4> QED BY <1>0, <3>2, <4>1, <4>2 DEF ScTypeOK, LengthsInv
    <3> QED BY <3>1, <3>2
  <2>3. /\ len1' \in Nat /\ line' \in Texts
        /\ len1' = 0 \/ len1' >= 2
        /\ o \in OneOps => len1' # 0
    BY <1>0, <1>1 DEF ScTypeOK, LengthsInv, JavaCall, Texts
  <2>4. ScTypeOK' BY <1>0, <1>1, <2>2, <2>3 DEF ScTypeOK, JavaCall
  <2>5. op' = o /\ pc' = "native" BY <1>1 DEF JavaCall
  <2>6. LengthsInv' /\ LastRowInv' BY <2>2, <2>3, <2>5 DEF LengthsInv, LastRowInv
  <2>7. ReadInv' /\ RetInv' /\ AnswerInv' BY <2>5 DEF ReadInv, RetInv, AnswerInv
  <2> QED BY <1>0, <2>4, <2>6, <2>7 DEF ScInv
<1>2. CASE ReadList
  <2>1. ScTypeOK' BY <1>0, <1>2, ListIsRead DEF ReadList, arrays, ScTypeOK
  <2>2. AnswerInv' BY <1>2, ListIsRead DEF ReadList, AnswerInv
  <2> QED BY <1>0, <1>2, <2>1, <2>2
          DEF ReadList, arrays, ScInv, LengthsInv, LastRowInv, ReadInv, RetInv
<1>3. CASE ReadOne
  <2>1. ScTypeOK' BY <1>0, <1>3, LineIsRead DEF ReadOne, arrays, ScTypeOK
  <2>2. AnswerInv' BY <1>3, LineIsRead DEF ReadOne, AnswerInv
  <2> QED BY <1>0, <1>3, <2>1, <2>2
          DEF ReadOne, arrays, ScInv, LengthsInv, LastRowInv, ReadInv, RetInv
<1>4. CASE GrowList
  <2>1. /\ len2 >= 2 /\ len2' = len2 * 2 /\ len2' \in Nat /\ len2' >= 2
        /\ rows' = NewRows(len2')
    BY <1>0, <1>4 DEF GrowList, Doubled, LengthsInv
  <2>2. /\ NewRows(len2') \in [1..len2' -> Strings]
        /\ \A i \in 1..len2' : NewRows(len2')[i] = Empty
    BY <2>1, NewRowsAreEmpty
  <2>3. rows' \in [1..len2' -> Strings] /\ rows'[len2'] = Empty BY <2>1, <2>2
  <2>4. ScTypeOK' BY <1>0, <1>4, <2>1, <2>3 DEF GrowList, ScTypeOK
  <2> QED BY <1>0, <1>4, <2>1, <2>3, <2>4
          DEF GrowList, ScInv, LengthsInv, LastRowInv, ReadInv, RetInv, AnswerInv
<1>5. CASE GrowOne \/ GrowVersion
  <2>1. len1' \in Nat /\ len1' >= 2 /\ line' = Empty
    BY <1>0, <1>5 DEF GrowOne, GrowVersion, Doubled, LengthsInv, ScTypeOK
  <2>2. ScTypeOK' BY <1>0, <1>5, <2>1 DEF GrowOne, GrowVersion, ScTypeOK, Texts
  <2> QED BY <1>0, <1>5, <2>1, <2>2
          DEF GrowOne, GrowVersion, ScInv, LengthsInv, LastRowInv, ReadInv, RetInv, AnswerInv
<1>6. CASE OtherError
  <2>1. ScTypeOK' BY <1>0, <1>6 DEF OtherError, arrays, ScTypeOK
  <2> QED BY <1>0, <1>6, <2>1
          DEF OtherError, arrays, ScInv, LengthsInv, LastRowInv, ReadInv, RetInv, AnswerInv, ScTypeOK
<1>7. CASE JavaReturns
  <2>1. ScTypeOK' BY <1>0, <1>7, SeqFacts DEF JavaReturns, arrays, ScTypeOK
  <2> QED BY <1>0, <1>7, <2>1
          DEF JavaReturns, arrays, ScInv, LengthsInv, LastRowInv, ReadInv, RetInv, AnswerInv
<1>8. CASE LibrarySucceeds
  <2>1. ScTypeOK' BY <1>0, <1>8 DEF LibrarySucceeds, arrays, ScTypeOK
  <2> QED BY <1>0, <1>8, <2>1
          DEF LibrarySucceeds, arrays, ScInv, LengthsInv, LastRowInv, ReadInv, RetInv, AnswerInv
<1>9. ASSUME NEW e \in Errors, LibraryFails(e) PROVE ScInv'
  <2>1. ScTypeOK' BY <1>0, <1>9 DEF LibraryFails, arrays, ScTypeOK
  <2>2. ret' < 0 BY <1>9 DEF LibraryFails
  <2> QED BY <1>0, <1>9, <2>1, <2>2
          DEF LibraryFails, arrays, ScInv, LengthsInv, LastRowInv, ReadInv, RetInv, AnswerInv
<1>10. CASE LibraryLosesSuccess
  <2>1. ScTypeOK' BY <1>0, <1>10 DEF LibraryLosesSuccess, arrays, ScTypeOK, ATTEMPTS_EXCEEDED
  <2>2. ret' < 0 BY <1>10 DEF LibraryLosesSuccess, ATTEMPTS_EXCEEDED
  <2> QED BY <1>0, <1>10, <2>1, <2>2
          DEF LibraryLosesSuccess, arrays, ScInv, LengthsInv, LastRowInv, ReadInv, RetInv, AnswerInv
<1>11. CASE CopyList
  <2>1. /\ rows' \in [1..len2 -> Strings] /\ ret' \in {1, -1}
        /\ ret' = 1 =>
              /\ Len(wanted) < len2
              /\ \A i \in 1..Len(wanted) : rows'[i] = Row(wanted[i])
              /\ rows'[Len(wanted) + 1] = Empty
              /\ rows'[len2] = Empty
    BY <1>11, CopyListFacts
  <2>2. owned' \in Nat
    BY <1>11 DEF CopyList, Freed, ScInv, ScTypeOK, DomainListsFreed
  <2>3. ScTypeOK' BY <1>0, <1>11, <2>1, <2>2 DEF CopyList, ScTypeOK
  <2> QED BY <1>0, <1>11, <2>1, <2>3
          DEF CopyList, Row, ScInv, LengthsInv, LastRowInv, ReadInv, RetInv, AnswerInv
<1>12. CASE CopyItem
  <2>1. wanted[1] \in Strings BY <1>0, <1>12, OneIsWanted DEF CopyItem
  <2>2. ScTypeOK' BY <1>0, <1>12, <2>1 DEF CopyItem, ScTypeOK, Texts
  <2> QED BY <1>0, <1>12, <2>2
          DEF CopyItem, ScInv, LengthsInv, LastRowInv, ReadInv, RetInv, AnswerInv
<1>13. CASE CopyVersion
  <2>1. wanted[1] \in Strings BY <1>0, <1>13, OneIsWanted DEF CopyVersion
  <2>2. ret' = StrLen[wanted[1]] /\ ret' \in Nat BY <1>13, <2>1 DEF CopyVersion
  <2>3. ScTypeOK' BY <1>0, <1>13, <2>1, <2>2 DEF CopyVersion, ScTypeOK, Texts
  <2> QED BY <1>0, <1>13, <2>2, <2>3
          DEF CopyVersion, ScInv, LengthsInv, LastRowInv, ReadInv, RetInv, AnswerInv
<1>14. CASE UNCHANGED scVars
  BY <1>0, <1>14 DEF scVars, arrays, Row, ScInv, ScTypeOK, LengthsInv, LastRowInv, ReadInv, RetInv,
                     AnswerInv
<1>15. ASSUME NEW o \in ListOps, NEW w \in Lists, JavaCall(o, w) PROVE ScInv'
  BY <1>1, <1>15
<1>16. ASSUME NEW o \in OneOps, NEW z \in Strings, JavaCall(o, <<z>>) PROVE ScInv'
  BY <1>1, <1>16, SeqFacts
<1> QED BY <1>2, <1>3, <1>4, <1>5, <1>6, <1>7, <1>8, <1>9, <1>10, <1>11, <1>12, <1>13, <1>14,
           <1>15, <1>16 DEF ScNext, ScStep

LEMMA ScratchInvariant == ScSpec => []ScInv
  BY InitHolds, InvStep, PTL DEF ScSpec

\* The arrays, and the indices of the two loops that read and write them, keep
\* their types: no row is read or written that the array does not have.
THEOREM ScratchTypeCorrect == ScSpec => []ScTypeOK
<1>1. ScInv => ScTypeOK BY DEF ScInv
<1> QED BY <1>1, ScratchInvariant, PTL

\* Whatever strings GDAL has, and whatever earlier calls left in the arrays: a
\* caller is given what GDAL has, whole and in order.
THEOREM AnswersArePassedOn == ScSpec => []AnswersAreGdals
<1>1. ScInv => AnswersAreGdals BY DEF ScInv, AnswerInv, AnswersAreGdals
<1> QED BY <1>1, ScratchInvariant, PTL

\* Java's search for the end of a list ends inside the array.
THEOREM SearchEnds == ScSpec => []LastRowEmpty
<1>1. ScInv => LastRowEmpty BY DEF ScInv, LastRowInv, LastRowEmpty
<1> QED BY <1>1, ScratchInvariant, PTL

\* Every list of domains is freed, or lost with a success that was answered as a
\* failure: in any sequence of calls.
THEOREM ListsAreFreed == ScSpec => []DomainListsFreed
<1>1. ScInv => DomainListsFreed BY DEF ScInv
<1> QED BY <1>1, ScratchInvariant, PTL

-------------------------------------------------------------------------------
(* What a failure of CPLE_AppDefined means. *)

\* If no operation of the library fails with it, CPLE_AppDefined comes from the copying.
LEMMA TooSmallStep ==
    ASSUME CPLE_AppDefined \notin Errors, ScInv, AppDefinedMeansTooSmall, [ScNext]_scVars
    PROVE  AppDefinedMeansTooSmall'
<1> DEFINE Inv == AppDefinedMeansTooSmall
<1> USE DEF CPLE_AppDefined
<1>1. CASE CopyList
  <2>1. ret' # 1 => ~Fits BY <1>1, CopyListFacts
  <2>2. Fits' <=> Fits BY <1>1 DEF CopyList, Fits, FitsInto, Offered
  <2> QED BY <2>1, <2>2 DEF AppDefinedMeansTooSmall
<1>2. CASE CopyItem
  <2>1. ret = 1 /\ op = "item" BY <1>2 DEF ScInv, RetInv, CopyItem
  <2>2. Fits' <=> StrLen[wanted[1]] < len1 - 1
    BY <1>2, <2>1 DEF CopyItem, Fits, FitsInto, Offered, ListOps
  <2> QED BY <1>2, <2>1, <2>2 DEF CopyItem, FitsIn, AppDefinedMeansTooSmall
<1>3. CASE CopyVersion
  <2>1. wanted[1] \in Strings BY <1>3, OneIsWanted DEF CopyVersion, ScInv, OneOps
  <2>2. ret' \in Nat BY <1>3, <2>1, StringsAssumption DEF CopyVersion
  <2> QED BY <2>2 DEF AppDefinedMeansTooSmall
<1>4. ASSUME NEW e \in Errors, LibraryFails(e) PROVE Inv'
  BY <1>4, ArraysAssumption DEF LibraryFails, AppDefinedMeansTooSmall
<1>5. CASE LibraryLosesSuccess
  BY <1>5 DEF LibraryLosesSuccess, AppDefinedMeansTooSmall, ATTEMPTS_EXCEEDED
<1>6. CASE UNCHANGED scVars
  BY <1>6 DEF scVars, arrays, Fits, FitsInto, Offered, AppDefinedMeansTooSmall
<1>7. CASE pc' # "read" BY <1>7 DEF AppDefinedMeansTooSmall
<1> QED BY <1>1, <1>2, <1>3, <1>4, <1>5, <1>6, <1>7
   DEF ScNext, ScStep, JavaCall, ReadList, ReadOne, GrowList, GrowOne, GrowVersion, OtherError,
       JavaReturns, LibrarySucceeds

\* If no operation of the library fails with it, CPLE_AppDefined means that the
\* array was too small.
THEOREM TooSmallIsTooSmall ==
    ASSUME CPLE_AppDefined \notin Errors
    PROVE  ScSpec => []AppDefinedMeansTooSmall
<1>1. ScInit => AppDefinedMeansTooSmall BY DEF ScInit, AppDefinedMeansTooSmall
<1>2. ScInv /\ AppDefinedMeansTooSmall /\ [ScNext]_scVars => AppDefinedMeansTooSmall'
  BY TooSmallStep
<1> QED BY <1>1, <1>2, ScratchInvariant, PTL DEF ScSpec

-------------------------------------------------------------------------------
(* Every method comes to its end. *)

\* An array that is no smaller than one that would do, would do.
LEMMA LargerFits ==
    ASSUME ScTypeOK, NEW n \in Nat, NEW m \in Nat, n <= m, FitsInto(n)
    PROVE  FitsInto(m)
<1>1. CASE op \in ListOps
  <2>1. Len(wanted) \in Nat /\ \A i \in 1..Len(wanted) : StrLen[wanted[i]] \in Nat
    BY SeqFacts, StringsAssumption DEF ScTypeOK
  <2> QED BY <1>1, <2>1 DEF FitsInto
<1>2. CASE op \notin ListOps
  <2>1. StrLen[wanted[1]] \in Nat
    BY <1>2, OneIsWanted, StringsAssumption DEF ScTypeOK
  <2> QED BY <1>2, <2>1 DEF FitsInto
<1> QED BY <1>1, <1>2

\* Only an array that is too small is replaced, and by a larger one.
LEMMA GrowthFacts ==
    ASSUME ScInv, AppDefinedMeansTooSmall, GrowList \/ GrowOne \/ GrowVersion
    PROVE  ~Fits /\ Offered \in Nat /\ Offered' \in Nat /\ Offered' > Offered
<1>1. ScTypeOK /\ len1 \in Nat /\ len2 \in Nat BY DEF ScInv, ScTypeOK
<1>2. CASE GrowList
  <2>1. op \in ListOps /\ op' = op /\ len2' = len2 * 2 /\ len2 > 0
    BY <1>1, <1>2 DEF GrowList, Doubled, ScInv, LengthsInv
  <2>2. ~Fits BY <1>2 DEF GrowList, AppDefinedMeansTooSmall
  <2> QED BY <1>1, <2>1, <2>2 DEF Offered
<1>3. CASE GrowOne
  <2>1. op \notin ListOps /\ op' = op /\ len1' = len1 * 2 /\ len1 > 0
    BY <1>1, <1>3 DEF GrowOne, Doubled, ScInv, LengthsInv, ListOps, OneOps
  <2>2. ~Fits BY <1>3 DEF GrowOne, AppDefinedMeansTooSmall
  <2> QED BY <1>1, <2>1, <2>2 DEF Offered
<1>4. CASE GrowVersion
  <2>1. op = "version" /\ pc = "read" /\ ret >= len1 /\ op' = op /\ len1' = ret + 1
    BY <1>4 DEF GrowVersion
  <2>2. ret \in Int /\ ret >= 0 /\ op \notin ListOps
    BY <1>1, <2>1 DEF ScTypeOK, ListOps
  <2>3. ret = StrLen[wanted[1]] BY <2>1, <2>2 DEF ScInv, ReadInv
  <2>4. Offered = len1 /\ Offered' = ret + 1 /\ (Fits <=> StrLen[wanted[1]] < len1 - 1)
    BY <2>1, <2>2 DEF Offered, Fits, FitsInto
  <2> QED BY <1>1, <2>1, <2>2, <2>3, <2>4
<1> QED BY <1>2, <1>3, <1>4

\* A step that keeps the array.
LEMMA SameArray ==
    ASSUME ScTypeOK, NEW n \in Nat, UNCHANGED <<op, len1, len2>>,
           AttemptLeft \in Nat, AttemptLeft' \in Nat, AttemptLeft' < AttemptLeft
    PROVE  MethodLeft(n)' \in Nat /\ MethodLeft(n)' < MethodLeft(n)
<1>1. Missing(n)' = Missing(n) /\ Missing(n) \in Nat BY DEF Missing, Offered, ScTypeOK
<1> QED BY <1>1 DEF MethodLeft

LEMMA LessMissing ==
    ASSUME NEW n \in Nat, NEW a \in Nat, NEW b \in Nat, a < n, b > a
    PROVE  /\ (IF a < n THEN n - a ELSE 0) \in Nat
           /\ (IF b < n THEN n - b ELSE 0) \in Nat
           /\ (IF b < n THEN n - b ELSE 0) < (IF a < n THEN n - a ELSE 0)
  OBVIOUS

LEMMA MethodStep ==
    ASSUME ScInv, AppDefinedMeansTooSmall, ScNext, NEW n \in Nat,
           pc \in {"native", "copy", "read"}, FitsInto(n)
    PROVE  MethodLeft(n)' \in Nat /\ MethodLeft(n)' < MethodLeft(n)
<1>0. ScTypeOK BY DEF ScInv
<1>1. CASE GrowList \/ GrowOne \/ GrowVersion
  <2>1. ~Fits /\ Offered \in Nat /\ Offered' \in Nat /\ Offered' > Offered
    BY <1>1, GrowthFacts
  <2>2. Offered < n BY <1>0, <2>1, LargerFits DEF Fits
  <2>3. Missing(n) \in Nat /\ Missing(n)' \in Nat /\ Missing(n)' < Missing(n)
    <3>1. Missing(n) = IF Offered < n THEN n - Offered ELSE 0 BY DEF Missing
    <3>2. Missing(n)' = IF Offered' < n THEN n - Offered' ELSE 0 BY DEF Missing
    <3>3. Offered \in Nat /\ Offered < n BY <2>1, <2>2
    <3>4. Offered' \in Nat /\ Offered' > Offered BY <2>1
    <3>5. /\ (IF Offered < n THEN n - Offered ELSE 0) \in Nat
          /\ (IF Offered' < n THEN n - Offered' ELSE 0) \in Nat
          /\ (IF Offered' < n THEN n - Offered' ELSE 0) < (IF Offered < n THEN n - Offered ELSE 0)
      BY <3>3, <3>4, LessMissing
    <3> QED BY ONLY <3>1, <3>2, <3>5
  <2>4. pc = "read" /\ pc' = "native" BY <1>1 DEF GrowList, GrowOne, GrowVersion
  <2>5. AttemptLeft = 1 /\ AttemptLeft' = 3 BY <2>4 DEF AttemptLeft
  <2> QED BY <2>3, <2>5 DEF MethodLeft
<1>2. CASE \/ ReadList \/ ReadOne \/ OtherError \/ LibrarySucceeds \/ LibraryLosesSuccess
           \/ (\E e \in Errors : LibraryFails(e)) \/ CopyList \/ CopyItem \/ CopyVersion
  <2>1. /\ UNCHANGED <<op, len1, len2>>
        /\ \/ pc = "read" /\ pc' = "done"
           \/ pc = "native" /\ pc' \in {"copy", "read"}
           \/ pc = "copy" /\ pc' = "read"
    BY <1>2 DEF ReadList, ReadOne, OtherError, LibrarySucceeds, LibraryLosesSuccess,
         LibraryFails, CopyList, CopyItem, CopyVersion, arrays
  <2>2. /\ AttemptLeft \in Nat /\ AttemptLeft' \in Nat
        /\ AttemptLeft' < AttemptLeft
    BY <2>1 DEF AttemptLeft
  <2> QED BY <1>0, <2>1, <2>2, SameArray
<1>3. ~JavaReturns /\ \A o, w : ~JavaCall(o, w) BY DEF JavaReturns, JavaCall
<1> QED BY <1>1, <1>2, <1>3 DEF ScNext, ScStep

\* A method is bounded, if no operation fails with CPLE_AppDefined: the array grows
\* until it does, whatever the strings are, and no further.
THEOREM MethodIsBounded ==
    ASSUME CPLE_AppDefined \notin Errors
    PROVE  ScSpec => MethodNearsItsEnd
<1>1. ScInit => AppDefinedMeansTooSmall BY DEF ScInit, AppDefinedMeansTooSmall
<1>2. ScInv /\ AppDefinedMeansTooSmall /\ [ScNext]_scVars => AppDefinedMeansTooSmall'
  BY TooSmallStep
<1>3. \A n \in 0..MaxLen : n \in Nat BY ArraysAssumption
<1>4. ScInv /\ AppDefinedMeansTooSmall /\ [ScNext]_scVars =>
          [\A n \in 0..MaxLen :
              pc \in {"native", "copy", "read"} /\ FitsInto(n) =>
                  MethodLeft(n)' \in Nat /\ MethodLeft(n)' < MethodLeft(n)]_scVars
  BY <1>3, MethodStep
<1> QED BY <1>1, <1>2, <1>4, ScratchInvariant, PTL DEF ScSpec, MethodNearsItsEnd
===============================================================================
