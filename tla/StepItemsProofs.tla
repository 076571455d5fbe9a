--------------------------- MODULE StepItemsProofs ---------------------------
(***************************************************************************)
(* The editor of steps for every number of rows: a row keeps depending on  *)
(* the row that was chosen for it, and the steps that are applied depend   *)
(* on the steps the editor showed.                                         *)
(***************************************************************************)
EXTENDS StepItems, SequenceTheorems, TLAPS

\* What the constants are.
Bounds == MaxItems \in Nat /\ MaxEdit \in Nat /\ MaxStart \in Nat

\* A row, with any number for a dependency.
Rec == [id : Id, dep : Nat]

\* The rows are distinct ones among those that have been added, and nothing is wanted
\* yet for those that have not.
Shaped ==
    /\ ui \in [rows : Seq(Rec), wants : [Id -> Nat]]
    /\ net \in [added : Nat, applied : {"no", "inline", "template"}]
    /\ db \in [start : Nat, steps : Seq(Rec)]
    /\ \A i \in Rows(ui.rows) : ui.rows[i].id <= net.added
    /\ \A i, j \in Rows(ui.rows) : ui.rows[i].id = ui.rows[j].id => i = j
    /\ \A k \in Id : k > net.added => ui.wants[k] = Null

ItemsInv == Shaped /\ DependencyFollowsItsRow /\ AppliedAsEdited

-----------------------------------------------------------------------------
(* Sequences.                                                              *)

\* A function on the first numbers is a sequence of that length.
LEMMA FunctionIsSequence ==
    ASSUME NEW S, NEW n \in Nat, NEW s \in [1 .. n -> S]
    PROVE  s \in Seq(S) /\ Len(s) = n
BY SeqDef, LenProperties

\* A sequence has a length and its elements.
LEMMA SequenceIsFunction ==
    ASSUME NEW S, NEW s \in Seq(S)
    PROVE  Len(s) \in Nat /\ \A i \in 1 .. Len(s) : s[i] \in S
BY LenProperties

-----------------------------------------------------------------------------
(* The editor's changes of the rows.                                       *)

\* The rows without the i-th: each of the others, renumbered.
LEMMA RemovalRenumbers ==
    ASSUME NEW rows \in Seq(Rec), NEW i \in Rows(rows)
    PROVE  /\ AfterRemoval(rows, i) \in Seq(Rec)
           /\ Len(AfterRemoval(rows, i)) = Len(rows) - 1
           /\ \A k \in 1 .. Len(rows) - 1 :
                 LET old == rows[IF k < i THEN k ELSE k + 1] IN
                 /\ AfterRemoval(rows, i)[k].id = old.id
                 /\ AfterRemoval(rows, i)[k].dep = Shifted(i, old.dep)
<1>1. Len(rows) \in Nat /\ (\A k \in 1 .. Len(rows) : rows[k] \in Rec) /\ i \in 1 .. Len(rows)
    BY SequenceIsFunction DEF Rows
<1>2. \A d \in Nat : Shifted(i, d) \in Nat
    BY <1>1 DEF Shifted, Null
<1>3. \A k \in 1 .. Len(rows) - 1 : (IF k < i THEN k ELSE k + 1) \in 1 .. Len(rows)
    BY <1>1
<1>4. AfterRemoval(rows, i) \in [1 .. Len(rows) - 1 -> Rec]
    BY <1>1, <1>2, <1>3 DEF AfterRemoval, Rec
<1>5. Len(rows) - 1 \in Nat
    BY <1>1
<1>6. AfterRemoval(rows, i) \in Seq(Rec) /\ Len(AfterRemoval(rows, i)) = Len(rows) - 1
    BY <1>4, <1>5, FunctionIsSequence
<1> QED
    BY <1>1, <1>3, <1>6 DEF AfterRemoval, Rec

\* The rows with two neighbours exchanged.
LEMMA MoveRenumbers ==
    ASSUME NEW rows \in Seq(Rec), NEW a \in Rows(rows), NEW b \in Rows(rows)
    PROVE  /\ AfterMove(rows, a, b) \in Seq(Rec)
           /\ Len(AfterMove(rows, a, b)) = Len(rows)
           /\ \A k \in Rows(rows) :
                 /\ Swapped(a, b, k) \in Rows(rows)
                 /\ AfterMove(rows, a, b)[k].id = rows[Swapped(a, b, k)].id
                 /\ AfterMove(rows, a, b)[k].dep = Swapped(a, b, rows[Swapped(a, b, k)].dep)
<1>1. Len(rows) \in Nat /\ (\A k \in 1 .. Len(rows) : rows[k] \in Rec)
      /\ a \in 1 .. Len(rows) /\ b \in 1 .. Len(rows)
    BY SequenceIsFunction DEF Rows
<1>2. \A d \in Nat : Swapped(a, b, d) \in Nat
    BY <1>1 DEF Swapped
<1>3. \A k \in 1 .. Len(rows) : Swapped(a, b, k) \in 1 .. Len(rows)
    BY <1>1 DEF Swapped
<1>4. AfterMove(rows, a, b) \in [1 .. Len(rows) -> Rec]
    BY <1>1, <1>2, <1>3 DEF AfterMove, Rec
<1>5. AfterMove(rows, a, b) \in Seq(Rec) /\ Len(AfterMove(rows, a, b)) = Len(rows)
    BY <1>1, <1>4, FunctionIsSequence
<1> QED
    BY <1>1, <1>3, <1>5 DEF AfterMove, Rows, Rec

\* What is known of every row of the editor.
LEMMA RowFacts ==
    ASSUME Shaped
    PROVE  /\ Len(ui.rows) \in Nat
           /\ \A i \in Rows(ui.rows) : /\ ui.rows[i] \in Rec /\ ui.rows[i].id \in Id
                                       /\ ui.rows[i].dep \in Nat
<1>1. ui.rows \in Seq(Rec)
    BY DEF Shaped
<1>2. Len(ui.rows) \in Nat /\ \A i \in Rows(ui.rows) : ui.rows[i] \in Rec
    BY <1>1, SequenceIsFunction DEF Rows
<1> QED
    BY <1>2 DEF Rec

-----------------------------------------------------------------------------
(* Every step of the editor keeps the shape and the dependencies.          *)

\* A row is added at the end; it depends on nothing, and nothing is wanted for it.
LEMMA AddKeeps ==
    ASSUME Bounds, Shaped, DependencyFollowsItsRow, AddRow
    PROVE  Shaped' /\ DependencyFollowsItsRow'
<1> DEFINE new == [id |-> net.added + 1, dep |-> Null]
<1>0. net.added \in Nat /\ net.added + 1 \in Id
    BY DEF Bounds, Shaped, AddRow, Id
<1>1. new \in Rec /\ new.id = net.added + 1 /\ new.dep = 0
    BY <1>0 DEF Rec, Null
<1>2. ui.rows \in Seq(Rec) /\ ui.wants \in [Id -> Nat] /\ Len(ui.rows) \in Nat
    BY RowFacts DEF Shaped
<1>11. ui' = [ui EXCEPT !.rows = Append(@, new)] /\ net' = [net EXCEPT !.added = @ + 1] /\ db' = db
    BY DEF AddRow
<1>12. /\ net'.added = net.added + 1 /\ net'.applied = net.applied
       /\ net' \in [added : Nat, applied : {"no", "inline", "template"}]
    <2>1. net \in [added : Nat, applied : {"no", "inline", "template"}] /\ net.added + 1 \in Nat
        BY <1>0 DEF Shaped
    <2> QED
        BY <1>11, <2>1
<1>13. ui'.rows = Append(ui.rows, new) /\ ui'.wants = ui.wants
    BY <1>11 DEF Shaped
<1>3. /\ ui'.rows = Append(ui.rows, new) /\ ui'.wants = ui.wants
      /\ net'.added = net.added + 1 /\ net'.applied = net.applied /\ db' = db
      /\ net' \in [added : Nat, applied : {"no", "inline", "template"}]
    BY <1>11, <1>12, <1>13
<1>4. /\ ui'.rows \in Seq(Rec) /\ Len(ui'.rows) = Len(ui.rows) + 1
      /\ \A i \in 1 .. Len(ui.rows) : ui'.rows[i] = ui.rows[i]
      /\ ui'.rows[Len(ui.rows) + 1] = new
    BY <1>1, <1>2, <1>3, AppendProperties
<1>5. ui' \in [rows : Seq(Rec), wants : [Id -> Nat]]
    BY <1>1, <1>2, <1>4 DEF AddRow, Shaped
<1>6. \A i \in Rows(ui.rows)' : \/ i \in Rows(ui.rows) /\ ui'.rows[i] = ui.rows[i]
                                \/ i = Len(ui.rows) + 1 /\ ui'.rows[i] = new
    BY <1>2, <1>4 DEF Rows
<1>14. \A i \in Rows(ui.rows) : ui.rows[i].id \in Nat /\ ui.rows[i].id <= net.added
    BY RowFacts DEF Shaped, Id
<1>7. \A i, j \in Rows(ui.rows)' : ui'.rows[i].id = ui'.rows[j].id => i = j
    <2> SUFFICES ASSUME NEW i \in Rows(ui.rows)', NEW j \in Rows(ui.rows)', ui'.rows[i].id = ui'.rows[j].id
                 PROVE  i = j
        OBVIOUS
    <2>1. CASE ui'.rows[i] = new
        <3>1. ui'.rows[j].id = net.added + 1
            BY <1>1, <2>1
        <3>2. ~(j \in Rows(ui.rows) /\ ui'.rows[j] = ui.rows[j])
            BY <1>0, <1>14, <3>1
        <3>3. ~(i \in Rows(ui.rows) /\ ui'.rows[i] = ui.rows[i])
            BY <1>0, <1>1, <1>14, <2>1
        <3> QED
            BY <1>6, <3>2, <3>3
    <2>2. CASE i \in Rows(ui.rows) /\ ui'.rows[i] = ui.rows[i]
        <3>1. ui'.rows[j].id # net.added + 1
            BY <1>0, <1>14, <2>2
        <3>2. j \in Rows(ui.rows) /\ ui'.rows[j] = ui.rows[j]
            BY <1>1, <1>6, <3>1
        <3> QED
            BY <2>2, <3>2 DEF Shaped
    <2> QED
        BY <1>6, <2>1, <2>2
<1>8. \A i \in Rows(ui.rows)' : ui'.rows[i].id <= net'.added
    <2> SUFFICES ASSUME NEW i \in Rows(ui.rows)'
                 PROVE  ui'.rows[i].id <= net.added + 1
        BY <1>3
    <2>1. ui'.rows[i].id = net.added + 1 \/ (ui'.rows[i].id \in Nat /\ ui'.rows[i].id <= net.added)
        BY <1>1, <1>6, <1>14
    <2> QED
        BY <1>0, <2>1
<1>9. \A k \in Id : k > net'.added => ui'.wants[k] = Null
    BY <1>0, <1>3 DEF Shaped, Id
<1>10. DependencyFollowsItsRow'
    <2> SUFFICES ASSUME NEW i \in Rows(ui.rows)'
                 PROVE  IF ui'.rows[i].dep = Null THEN ui'.wants[ui'.rows[i].id] = Null
                        ELSE ui'.rows[i].dep \in Rows(ui.rows)'
                             /\ ui'.rows[ui'.rows[i].dep].id = ui'.wants[ui'.rows[i].id]
        BY DEF DependencyFollowsItsRow
    <2>1. CASE i \in Rows(ui.rows) /\ ui'.rows[i] = ui.rows[i]
        <3>1. Rows(ui.rows) \subseteq Rows(ui.rows)' /\ \A k \in Rows(ui.rows) : ui'.rows[k] = ui.rows[k]
            BY <1>2, <1>4 DEF Rows
        <3> QED
            BY <1>3, <2>1, <3>1 DEF DependencyFollowsItsRow
    <2>2. CASE ui'.rows[i] = new
        <3>1. ui.wants[net.added + 1] = Null
            BY <1>0 DEF Shaped
        <3> QED
            BY <1>1, <1>3, <2>2, <3>1 DEF Null
    <2> QED
        BY <1>6, <2>1, <2>2
<1> QED
    BY <1>3, <1>5, <1>7, <1>8, <1>9, <1>10 DEF Shaped

\* The user chooses a row above, or none.
LEMMA SelectKeeps ==
    ASSUME Shaped, DependencyFollowsItsRow, NEW i \in Rows(ui.rows), NEW j \in {Null} \cup Rows(ui.rows),
           SelectDependency(i, j)
    PROVE  Shaped' /\ DependencyFollowsItsRow'
<1>0. /\ ui.rows \in Seq(Rec) /\ ui.wants \in [Id -> Nat] /\ Len(ui.rows) \in Nat
      /\ ui.rows[i] \in Rec /\ ui.rows[i].id \in Id
    BY RowFacts DEF Shaped
<1>1. i \in 1 .. Len(ui.rows) /\ j \in Nat
    BY <1>0 DEF Rows, Null
<1> DEFINE changed == [ui.rows[i] EXCEPT !.dep = j]
           chosen == IF j = Null THEN Null ELSE ui.rows[j].id
<1>2. changed \in Rec /\ changed.id = ui.rows[i].id /\ changed.dep = j
    BY <1>0, <1>1 DEF Rec
<1>3. chosen \in Nat /\ (j # Null => chosen \in Id)
    <2>1. CASE j = Null
        BY <2>1 DEF Null
    <2>2. CASE j # Null
        BY <2>2, RowFacts DEF Id
    <2> QED
        BY <2>1, <2>2
<1>4. /\ ui'.rows = [ui.rows EXCEPT ![i] = changed]
      /\ ui'.wants = [ui.wants EXCEPT ![ui.rows[i].id] = chosen]
      /\ ui' = [rows |-> ui'.rows, wants |-> ui'.wants]
      /\ UNCHANGED <<net, db>>
    BY DEF SelectDependency
<1>5. /\ ui'.rows \in Seq(Rec) /\ Len(ui'.rows) = Len(ui.rows)
      /\ \A k \in 1 .. Len(ui.rows) : ui'.rows[k] = IF k = i THEN changed ELSE ui.rows[k]
    <2> HIDE DEF changed
    <2> QED
        BY <1>0, <1>1, <1>2, <1>4, ExceptSeq
<1>6. /\ ui'.wants \in [Id -> Nat]
      /\ \A k \in Id : ui'.wants[k] = IF k = ui.rows[i].id THEN chosen ELSE ui.wants[k]
    BY <1>0, <1>3, <1>4
<1>7. ui' \in [rows : Seq(Rec), wants : [Id -> Nat]]
    BY <1>4, <1>5, <1>6
<1>8. Rows(ui.rows)' = Rows(ui.rows) /\ \A k \in Rows(ui.rows) : ui'.rows[k].id = ui.rows[k].id
    BY <1>2, <1>5 DEF Rows
<1>9. \A k \in Id : k > net'.added => ui'.wants[k] = Null
    BY <1>0, <1>4, <1>6 DEF Shaped, Id
<1>10. DependencyFollowsItsRow'
    <2> SUFFICES ASSUME NEW k \in Rows(ui.rows)
                 PROVE  IF ui'.rows[k].dep = Null THEN ui'.wants[ui'.rows[k].id] = Null
                        ELSE ui'.rows[k].dep \in Rows(ui.rows)
                             /\ ui'.rows[ui'.rows[k].dep].id = ui'.wants[ui'.rows[k].id]
        BY <1>8 DEF DependencyFollowsItsRow
    <2>0. ui.rows[k].id \in Id
        BY RowFacts
    <2>1. CASE k = i
        <3>1. ui'.rows[k].dep = j /\ ui'.rows[k].id = ui.rows[i].id /\ ui'.wants[ui.rows[i].id] = chosen
            BY <1>0, <1>1, <1>2, <1>5, <1>6, <2>1
        <3>2. CASE j = Null
            BY <3>1, <3>2
        <3>3. CASE j # Null
            BY <1>8, <3>1, <3>3
        <3> QED
            BY <3>2, <3>3
    <2>2. CASE k # i
        <3>1. ui'.rows[k] = ui.rows[k]
            BY <1>5, <2>2 DEF Rows
        <3>2. ui.rows[k].id # ui.rows[i].id
            BY <2>2 DEF Shaped
        <3>3. ui'.wants[ui.rows[k].id] = ui.wants[ui.rows[k].id]
            BY <1>6, <2>0, <3>2
        <3> QED
            BY <1>8, <3>1, <3>3 DEF DependencyFollowsItsRow
    <2> QED
        BY <2>1, <2>2
<1> QED
    BY <1>4, <1>7, <1>8, <1>9, <1>10 DEF Shaped

\* A removed row is no longer chosen by any other; those that named a later row follow it.
LEMMA RemoveKeeps ==
    ASSUME Shaped, DependencyFollowsItsRow, NEW i \in Rows(ui.rows), RemoveRow(i)
    PROVE  Shaped' /\ DependencyFollowsItsRow'
<1> DEFINE Old(k) == IF k < i THEN k ELSE k + 1
           gone == ui.rows[i].id
<1>0. /\ ui.rows \in Seq(Rec) /\ ui.wants \in [Id -> Nat] /\ Len(ui.rows) \in Nat
      /\ i \in 1 .. Len(ui.rows)
    BY RowFacts DEF Shaped, Rows
<1>1. /\ ui' = [rows |-> ui'.rows, wants |-> ui'.wants]
      /\ ui'.rows = AfterRemoval(ui.rows, i)
      /\ ui'.wants = [k \in Id |-> IF ui.wants[k] = gone THEN Null ELSE ui.wants[k]]
      /\ UNCHANGED <<net, db>>
    BY DEF RemoveRow
<1>2. /\ ui'.rows \in Seq(Rec) /\ Len(ui'.rows) = Len(ui.rows) - 1
      /\ \A k \in 1 .. Len(ui.rows) - 1 : /\ ui'.rows[k].id = ui.rows[Old(k)].id
                                           /\ ui'.rows[k].dep = Shifted(i, ui.rows[Old(k)].dep)
    BY <1>0, <1>1, RemovalRenumbers
<1>3. \A k \in Rows(ui.rows)' :
          /\ Old(k) \in Rows(ui.rows) /\ Old(k) # i /\ k \in Nat
          /\ ui'.rows[k].id = ui.rows[Old(k)].id
          /\ ui'.rows[k].dep = Shifted(i, ui.rows[Old(k)].dep)
    <2> SUFFICES ASSUME NEW k \in 1 .. Len(ui.rows) - 1
                 PROVE  /\ Old(k) \in Rows(ui.rows) /\ Old(k) # i /\ k \in Nat
                        /\ ui'.rows[k].id = ui.rows[Old(k)].id
                        /\ ui'.rows[k].dep = Shifted(i, ui.rows[Old(k)].dep)
        BY <1>2 DEF Rows
    <2>1. Old(k) \in 1 .. Len(ui.rows) /\ Old(k) # i /\ k \in Nat
        BY <1>0
    <2> HIDE DEF Old
    <2> QED
        BY <1>2, <2>1 DEF Rows
<1>4. \A d \in Rows(ui.rows) \ {i} : /\ Shifted(i, d) \in Rows(ui.rows)' /\ Shifted(i, d) # Null
                                     /\ Old(Shifted(i, d)) = d
    BY <1>0, <1>2 DEF Rows, Shifted, Null
<1>5. ui'.wants \in [Id -> Nat] /\ \A k \in Id : ui'.wants[k] = IF ui.wants[k] = gone THEN Null ELSE ui.wants[k]
    BY <1>0, <1>1 DEF Null
<1>6. ui' \in [rows : Seq(Rec), wants : [Id -> Nat]]
    BY <1>1, <1>2, <1>5
<1>7. \A k, l \in Rows(ui.rows)' : ui'.rows[k].id = ui'.rows[l].id => k = l
    <2> SUFFICES ASSUME NEW k \in Rows(ui.rows)', NEW l \in Rows(ui.rows)', ui'.rows[k].id = ui'.rows[l].id
                 PROVE  k = l
        OBVIOUS
    <2>1. Old(k) = Old(l)
        <3> HIDE DEF Old
        <3> QED
            BY <1>3 DEF Shaped
    <2> QED
        BY <1>0, <1>3, <2>1
<1>8. \A k \in Rows(ui.rows)' : ui'.rows[k].id <= net'.added
    <2> HIDE DEF Old
    <2> QED
        BY <1>1, <1>3 DEF Shaped
<1>9. \A k \in Id : k > net'.added => ui'.wants[k] = Null
    BY <1>1, <1>5 DEF Shaped
<1>10. DependencyFollowsItsRow'
    <2> SUFFICES ASSUME NEW k \in Rows(ui.rows)'
                 PROVE  IF ui'.rows[k].dep = Null THEN ui'.wants[ui'.rows[k].id] = Null
                        ELSE ui'.rows[k].dep \in Rows(ui.rows)'
                             /\ ui'.rows[ui'.rows[k].dep].id = ui'.wants[ui'.rows[k].id]
        BY DEF DependencyFollowsItsRow
    <2> DEFINE o == Old(k)
               d == ui.rows[o].dep
               want == ui.wants[ui.rows[o].id]
    <2>1. /\ o \in Rows(ui.rows) /\ ui'.rows[k].id = ui.rows[o].id
          /\ ui'.rows[k].dep = Shifted(i, d)
          /\ ui.rows[o].id \in Id
        BY <1>3, RowFacts
    <2>2. ui'.wants[ui'.rows[k].id] = IF want = gone THEN Null ELSE want
        BY <1>5, <2>1
    <2>3. IF d = Null THEN want = Null ELSE d \in Rows(ui.rows) /\ ui.rows[d].id = want
        BY <2>1 DEF DependencyFollowsItsRow
    <2> HIDE DEF o, Old, d, want
    <2>4. CASE d = Null
        <3>1. Shifted(i, d) = Null /\ want = Null
            BY <1>0, <2>3, <2>4 DEF Shifted, Null
        <3> QED
            BY <2>1, <2>2, <3>1
    <2>5. CASE d = i /\ d # Null
        <3>1. Shifted(i, d) = Null /\ want = gone
            BY <2>3, <2>5 DEF Shifted
        <3> QED
            BY <2>1, <2>2, <3>1
    <2>6. CASE d # i /\ d # Null
        <3>1. d \in Rows(ui.rows) \ {i} /\ ui.rows[d].id = want
            BY <2>3, <2>6
        <3>2. want # gone
            BY <3>1 DEF Shaped
        <3>3. /\ Shifted(i, d) \in Rows(ui.rows)' /\ Shifted(i, d) # Null
              /\ Old(Shifted(i, d)) = d
            BY <1>4, <3>1
        <3>4. ui'.rows[Shifted(i, d)].id = ui.rows[d].id
            BY <1>3, <3>3
        <3> QED
            BY <2>1, <2>2, <3>1, <3>2, <3>3, <3>4
    <2> QED
        BY <2>4, <2>5, <2>6
<1> QED
    BY <1>1, <1>6, <1>7, <1>8, <1>9, <1>10 DEF Shaped

\* Two rows change places, and the others go on naming the row they named.
LEMMA MoveKeeps ==
    ASSUME Shaped, DependencyFollowsItsRow, NEW a \in Rows(ui.rows), NEW b \in Rows(ui.rows), Move(a, b)
    PROVE  Shaped' /\ DependencyFollowsItsRow'
<1>0. /\ ui.rows \in Seq(Rec) /\ ui.wants \in [Id -> Nat] /\ Len(ui.rows) \in Nat
      /\ a \in 1 .. Len(ui.rows) /\ b \in 1 .. Len(ui.rows)
      /\ ui \in [rows : Seq(Rec), wants : [Id -> Nat]]
    BY RowFacts DEF Shaped, Rows
<1>1. ui' = [ui EXCEPT !.rows = AfterMove(@, a, b)] /\ UNCHANGED <<net, db>>
    BY DEF Move
<1>2. /\ ui'.rows = AfterMove(ui.rows, a, b) /\ ui'.wants = ui.wants
      /\ ui' = [rows |-> ui'.rows, wants |-> ui'.wants]
    BY <1>0, <1>1
<1>3. /\ ui'.rows \in Seq(Rec) /\ Len(ui'.rows) = Len(ui.rows)
      /\ \A k \in Rows(ui.rows) : /\ Swapped(a, b, k) \in Rows(ui.rows)
                                  /\ ui'.rows[k].id = ui.rows[Swapped(a, b, k)].id
                                  /\ ui'.rows[k].dep = Swapped(a, b, ui.rows[Swapped(a, b, k)].dep)
    <2>1. /\ AfterMove(ui.rows, a, b) \in Seq(Rec) /\ Len(AfterMove(ui.rows, a, b)) = Len(ui.rows)
          /\ \A k \in Rows(ui.rows) :
                /\ Swapped(a, b, k) \in Rows(ui.rows)
                /\ AfterMove(ui.rows, a, b)[k].id = ui.rows[Swapped(a, b, k)].id
                /\ AfterMove(ui.rows, a, b)[k].dep = Swapped(a, b, ui.rows[Swapped(a, b, k)].dep)
        BY <1>0, MoveRenumbers
    <2> QED
        BY <1>2, <2>1
<1>4. Rows(ui.rows)' = Rows(ui.rows)
    BY <1>3 DEF Rows
<1>5. ui' \in [rows : Seq(Rec), wants : [Id -> Nat]]
    BY <1>0, <1>2, <1>3
<1>6. \A k : Swapped(a, b, Swapped(a, b, k)) = k
    BY DEF Swapped
<1>7. \A k, l \in Rows(ui.rows)' : ui'.rows[k].id = ui'.rows[l].id => k = l
    <2> SUFFICES ASSUME NEW k \in Rows(ui.rows), NEW l \in Rows(ui.rows), ui'.rows[k].id = ui'.rows[l].id
                 PROVE  k = l
        BY <1>4
    <2>1. Swapped(a, b, k) = Swapped(a, b, l)
        BY <1>3 DEF Shaped
    <2> QED
        BY <1>6, <2>1
<1>8. \A k \in Rows(ui.rows)' : ui'.rows[k].id <= net'.added
    <2>1. \A l \in Rows(ui.rows) : ui.rows[l].id <= net.added
        BY DEF Shaped
    <2> QED
        BY <1>1, <1>3, <1>4, <2>1
<1>9. \A k \in Id : k > net'.added => ui'.wants[k] = Null
    BY <1>1, <1>2 DEF Shaped
<1>10. DependencyFollowsItsRow'
    <2> SUFFICES ASSUME NEW k \in Rows(ui.rows)
                 PROVE  IF ui'.rows[k].dep = Null THEN ui'.wants[ui'.rows[k].id] = Null
                        ELSE ui'.rows[k].dep \in Rows(ui.rows)
                             /\ ui'.rows[ui'.rows[k].dep].id = ui'.wants[ui'.rows[k].id]
        BY <1>4 DEF DependencyFollowsItsRow
    <2> DEFINE o == Swapped(a, b, k)
               d == ui.rows[o].dep
               want == ui.wants[ui.rows[o].id]
    <2>1. /\ o \in Rows(ui.rows) /\ ui'.rows[k].id = ui.rows[o].id
          /\ ui'.rows[k].dep = Swapped(a, b, d) /\ ui'.wants[ui'.rows[k].id] = want
        BY <1>2, <1>3
    <2>2. IF d = Null THEN want = Null ELSE d \in Rows(ui.rows) /\ ui.rows[d].id = want
        BY <2>1 DEF DependencyFollowsItsRow
    <2>3. Swapped(a, b, Null) = Null
        BY <1>0 DEF Swapped, Null
    <2> HIDE DEF o, d, want
    <2>4. CASE d = Null
        BY <2>1, <2>2, <2>3, <2>4
    <2>5. CASE d # Null
        <3>1. Swapped(a, b, d) # Null
            BY <1>6, <2>3, <2>5
        <3>2. Swapped(a, b, d) \in Rows(ui.rows) /\ ui'.rows[Swapped(a, b, d)].id = ui.rows[d].id
            BY <1>3, <1>6, <2>2, <2>5
        <3> QED
            BY <2>1, <2>2, <2>5, <3>1, <3>2
    <2> QED
        BY <2>4, <2>5
<1> QED
    BY <1>1, <1>5, <1>7, <1>8, <1>9, <1>10 DEF Shaped

-----------------------------------------------------------------------------
(* The server.                                                             *)

\* The steps that are created are the rows, in their order, after those there are.
LEMMA CreatedSteps ==
    ASSUME NEW rows \in Seq(Rec), NEW start \in Nat
    PROVE  /\ Created(rows, start) \in Seq(Rec) /\ Len(Created(rows, start)) = Len(rows)
           /\ \A k \in Rows(rows) :
                 /\ Created(rows, start)[k].id = rows[k].id
                 /\ Created(rows, start)[k].dep =
                       IF rows[k].dep # Null /\ rows[k].dep < k THEN start + rows[k].dep ELSE Null
<1>1. Len(rows) \in Nat /\ \A k \in 1 .. Len(rows) : rows[k] \in Rec
    BY SequenceIsFunction
<1>2. \A k \in 1 .. Len(rows) :
          (IF KnownBefore(k, rows[k].dep) THEN start + rows[k].dep ELSE Null) \in Nat
    BY <1>1 DEF Rec, Null
<1>3. Created(rows, start) \in [1 .. Len(rows) -> Rec]
    BY <1>1, <1>2 DEF Created, Rows, Rec
<1>4. Created(rows, start) \in Seq(Rec) /\ Len(Created(rows, start)) = Len(rows)
    BY <1>1, <1>3, FunctionIsSequence
<1> QED
    BY <1>4 DEF Created, KnownBefore, Rows

\* What is applied is what the editor shows.
LEMMA ApplyKeeps ==
    ASSUME Shaped, DependencyFollowsItsRow,
           ApplyInline \/ SaveAndApply
    PROVE  Shaped' /\ DependencyFollowsItsRow' /\ AppliedAsEdited'
<1>0. /\ ui.rows \in Seq(Rec) /\ Len(ui.rows) \in Nat
      /\ db \in [start : Nat, steps : Seq(Rec)] /\ db.start \in Nat
      /\ net \in [added : Nat, applied : {"no", "inline", "template"}]
    BY RowFacts DEF Shaped, Rec
<1>1. PICK how \in {"inline", "template"} :
          Apply(how) /\ (how = "template" => Valid(ui.rows))
    BY DEF ApplyInline, SaveAndApply
<1>2. /\ ui' = ui /\ net' = [net EXCEPT !.applied = how]
      /\ db' = [db EXCEPT !.steps = Created(ui.rows, db.start)]
    BY <1>1 DEF Apply
<1>3. net' \in [added : Nat, applied : {"no", "inline", "template"}] /\ net'.added = net.added /\ net'.applied = how
    BY <1>0, <1>2
<1>4. /\ Created(ui.rows, db.start) \in Seq(Rec) /\ Len(Created(ui.rows, db.start)) = Len(ui.rows)
      /\ \A k \in Rows(ui.rows) :
            /\ Created(ui.rows, db.start)[k].id = ui.rows[k].id
            /\ Created(ui.rows, db.start)[k].dep =
                  IF ui.rows[k].dep # Null /\ ui.rows[k].dep < k THEN db.start + ui.rows[k].dep ELSE Null
    BY <1>0, CreatedSteps
<1>5. db' \in [start : Nat, steps : Seq(Rec)] /\ db'.start = db.start /\ db'.steps = Created(ui.rows, db.start)
    BY <1>0, <1>2, <1>4
<1>6. Shaped'
    BY <1>2, <1>3, <1>5 DEF Shaped, Rec
<1>7. DependencyFollowsItsRow'
    BY <1>2 DEF DependencyFollowsItsRow
<1>8. Rows(db'.steps) = Rows(ui.rows)
    BY <1>4, <1>5 DEF Rows
<1>9. ASSUME NEW k \in Rows(ui.rows)
      PROVE  LET step == db'.steps[k]  d == ui.rows[k].dep IN
             /\ step.id = ui.rows[k].id
             /\ d = Null => step.dep = Null
             /\ d # Null /\ (how = "template" \/ d < k) =>
                    /\ step.dep - db.start \in Rows(db'.steps)
                    /\ db'.steps[step.dep - db.start].id = ui.wants[step.id]
    <2>1. /\ db'.steps[k].id = ui.rows[k].id
          /\ db'.steps[k].dep = IF ui.rows[k].dep # Null /\ ui.rows[k].dep < k THEN db.start + ui.rows[k].dep ELSE Null
        BY <1>4, <1>5
    <2>2. how = "template" => ui.rows[k].dep < k
        BY <1>1 DEF Valid
    <2>3. ASSUME ui.rows[k].dep # Null, ui.rows[k].dep < k
          PROVE  /\ db'.steps[k].dep - db.start \in Rows(ui.rows)
                 /\ db'.steps[db'.steps[k].dep - db.start].id = ui.wants[ui.rows[k].id]
        <3>1. db'.steps[k].dep = db.start + ui.rows[k].dep /\ ui.rows[k].dep \in Nat
            BY <2>1, <2>3, RowFacts
        <3>2. db'.steps[k].dep - db.start = ui.rows[k].dep
            BY <1>0, <3>1
        <3>3. ui.rows[k].dep \in Rows(ui.rows) /\ ui.rows[ui.rows[k].dep].id = ui.wants[ui.rows[k].id]
            BY <2>3 DEF DependencyFollowsItsRow
        <3>4. db'.steps[ui.rows[k].dep].id = ui.rows[ui.rows[k].dep].id
            BY <1>4, <1>5, <3>3
        <3> QED
            BY <3>2, <3>3, <3>4
    <2> QED
        BY <1>8, <2>1, <2>2, <2>3
<1>10. AppliedAsEdited'
    BY <1>2, <1>3, <1>4, <1>5, <1>9 DEF AppliedAsEdited
<1> QED
    BY <1>6, <1>7, <1>10

-----------------------------------------------------------------------------
(* The theorems.                                                           *)

\* The dialog opens with one row that depends on nothing.
LEMMA ItemsInit == Bounds /\ MaxEdit >= 1 /\ Init => ItemsInv
<1> SUFFICES ASSUME Bounds, MaxEdit >= 1, Init PROVE ItemsInv
    OBVIOUS
<1> DEFINE first == [id |-> 1, dep |-> Null]
<1>1. 1 \in Id /\ first \in Rec /\ first.id = 1 /\ first.dep = 0
    BY DEF Bounds, Id, Rec, Null
<1>2. /\ ui = [rows |-> <<first>>, wants |-> [k \in Id |-> Null]]
      /\ net = [added |-> 1, applied |-> "no"]
      /\ db \in [start : 0 .. MaxStart, steps : {<<>>}]
    BY DEF Init
<1>3. <<first>> \in Seq(Rec) /\ Len(<<first>>) = 1 /\ <<first>>[1] = first
    BY <1>1
<1>4. db \in [start : Nat, steps : Seq(Rec)]
    <2>1. <<>> \in Seq(Rec) /\ db = [start |-> db.start, steps |-> <<>>] /\ db.start \in 0 .. MaxStart
        BY <1>2
    <2>2. db.start \in Nat
        BY <2>1 DEF Bounds
    <2> DEFINE fresh == [start |-> db.start, steps |-> <<>>]
    <2>3. fresh \in [start : Nat, steps : Seq(Rec)]
        BY <2>1, <2>2
    <2> HIDE DEF fresh
    <2>4. db = fresh
        BY <2>1 DEF fresh
    <2> QED
        BY <2>3, <2>4
<1>5. Rows(ui.rows) = {1} /\ ui.rows[1] = first /\ \A k \in Id : ui.wants[k] = Null
    BY <1>2, <1>3 DEF Rows
<1>6. ui \in [rows : Seq(Rec), wants : [Id -> Nat]]
    BY <1>2, <1>3 DEF Null
<1>7. Shaped
    BY <1>1, <1>2, <1>4, <1>5, <1>6 DEF Shaped, Rec
<1>8. DependencyFollowsItsRow
    BY <1>1, <1>5 DEF DependencyFollowsItsRow, Null
<1>9. AppliedAsEdited
    BY <1>2 DEF AppliedAsEdited
<1> QED
    BY <1>7, <1>8, <1>9 DEF ItemsInv

\* Every step keeps the invariant; after the rows have been applied nothing changes them.
LEMMA ItemsStep == Bounds /\ ItemsInv /\ [Next]_vars => ItemsInv'
<1> SUFFICES ASSUME Bounds, ItemsInv, [Next]_vars PROVE ItemsInv'
    OBVIOUS
<1>1. Shaped /\ DependencyFollowsItsRow /\ AppliedAsEdited
    BY DEF ItemsInv
<1>2. CASE net.applied = "no" /\ Edit
    <2>1. Shaped' /\ DependencyFollowsItsRow'
        BY <1>1, <1>2, AddKeeps, SelectKeeps, RemoveKeeps, MoveKeeps DEF Edit
    <2>2. net'.applied = "no"
        BY <1>1, <1>2 DEF Edit, AddRow, SelectDependency, RemoveRow, Move, Shaped
    <2> QED
        BY <2>1, <2>2 DEF ItemsInv, AppliedAsEdited
<1>3. CASE ApplyInline \/ SaveAndApply
    BY <1>1, <1>3, ApplyKeeps DEF ItemsInv
<1>4. CASE UNCHANGED vars
    BY <1>1, <1>4 DEF vars, ItemsInv, Shaped, DependencyFollowsItsRow, AppliedAsEdited
<1> QED
    BY <1>2, <1>3, <1>4 DEF Next

\* However many rows there are and however they are added, moved and removed, the
\* position a row names is that of the row the user chose for it (the renumbering of
\* removeItem and moveItem), and the steps that are applied depend on those the editor
\* or the saved template shows (CreateMany).
THEOREM DependenciesKept ==
    Bounds /\ MaxEdit >= 1 /\ Spec => [](DependencyFollowsItsRow /\ AppliedAsEdited)
<1> SUFFICES ASSUME Bounds, MaxEdit >= 1 PROVE Spec => [](DependencyFollowsItsRow /\ AppliedAsEdited)
    OBVIOUS
<1>1. Init => ItemsInv
    BY ItemsInit
<1>2. ItemsInv /\ [Next]_vars => ItemsInv'
    BY ItemsStep
<1>3. ItemsInv => DependencyFollowsItsRow /\ AppliedAsEdited
    BY DEF ItemsInv
<1> QED
    BY <1>1, <1>2, <1>3, PTL DEF Spec

-----------------------------------------------------------------------------
(* Types.                                                                  *)

\* The limits of the editor: never more rows than may be sent, and only rows that have been
\* added are wanted.
WithinLimits ==
    /\ Len(ui.rows) <= MaxItems /\ Len(db.steps) <= MaxItems
    /\ ui.wants \in [Id -> Id \cup {Null}]
    /\ net.added \in Id /\ db.start \in 0 .. MaxStart

LEMMA TypesHold ==
    ASSUME Bounds, ItemsInv, WithinLimits
    PROVE  TypeOK
<1>1. ui.rows \in Seq(Rec) /\ Len(ui.rows) \in Nat /\ Len(ui.rows) <= MaxItems
    BY RowFacts DEF ItemsInv, Shaped, WithinLimits
<1>2. ASSUME NEW i \in 1 .. Len(ui.rows)
      PROVE  ui.rows[i] \in Row
    <2>1. ui.rows[i] \in Rec /\ ui.rows[i].dep \in Nat
        BY RowFacts DEF ItemsInv, Rows
    <2>2. ui.rows[i].dep = Null \/ ui.rows[i].dep \in Rows(ui.rows)
        BY DEF ItemsInv, DependencyFollowsItsRow, Rows
    <2>3. ui.rows[i].dep \in 0 .. MaxItems
        BY <1>1, <2>1, <2>2 DEF Bounds, Null, Rows
    <2> QED
        BY <2>1, <2>3 DEF Rec, Row
<1>3. ui.rows \in [1 .. Len(ui.rows) -> Row]
    <2>1. ui.rows \in [1 .. Len(ui.rows) -> Rec]
        BY <1>1, LenProperties
    <2> QED
        BY <1>2, <2>1
<1>4. ui.rows \in Seq(Row)
    BY <1>1, <1>3, FunctionIsSequence
<1> QED
    BY <1>1, <1>4 DEF TypeOK, WithinLimits, ItemsInv, Shaped

LEMMA TypesInit == Bounds /\ MaxEdit >= 1 /\ MaxItems >= 1 /\ Init => WithinLimits
<1> SUFFICES ASSUME Bounds, MaxEdit >= 1, MaxItems >= 1, Init PROVE WithinLimits
    OBVIOUS
<1>1. /\ Len(ui.rows) = 1 /\ ui.wants = [k \in Id |-> Null] /\ net.added = 1
      /\ db.start \in 0 .. MaxStart /\ db.steps = <<>>
    BY DEF Init
<1>2. Len(db.steps) = 0
    BY <1>1
<1>3. 1 \in Id
    BY DEF Bounds, Id
<1> QED
    BY <1>1, <1>2, <1>3 DEF WithinLimits, Bounds

LEMMA TypesStep ==
    ASSUME Bounds, ItemsInv, WithinLimits, [Next]_vars
    PROVE  WithinLimits'
<1>0. /\ ui.rows \in Seq(Rec) /\ Len(ui.rows) \in Nat
      /\ ui \in [rows : Seq(Rec), wants : [Id -> Nat]]
      /\ net \in [added : Nat, applied : {"no", "inline", "template"}]
      /\ db \in [start : Nat, steps : Seq(Rec)]
      /\ \A i \in Rows(ui.rows) : ui.rows[i] \in Rec /\ ui.rows[i].id \in Id
    BY RowFacts DEF ItemsInv, Shaped
<1>1. CASE AddRow
    <2>1. net'.added = net.added + 1 /\ ui'.wants = ui.wants /\ db' = db
        BY <1>0, <1>1 DEF AddRow
    <2>2. net.added + 1 \in Id
        BY <1>0, <1>1 DEF AddRow, Id, Bounds
    <2>3. ui'.rows = Append(ui.rows, [id |-> net.added + 1, dep |-> Null])
        BY <1>0, <1>1 DEF AddRow
    <2>4. Len(ui'.rows) = Len(ui.rows) + 1
        <3>1. [id |-> net.added + 1, dep |-> Null] \in Rec
            BY <2>2 DEF Rec, Null
        <3> HIDE DEF Rec
        <3> QED
            BY <1>0, <2>3, <3>1, AppendProperties
    <2>5. Len(ui'.rows) <= MaxItems
        BY <1>0, <1>1, <2>4 DEF AddRow, Bounds
    <2> QED
        BY <2>1, <2>2, <2>5 DEF WithinLimits
<1>2. ASSUME NEW i \in Rows(ui.rows), NEW j \in {Null} \cup Rows(ui.rows), SelectDependency(i, j)
      PROVE  WithinLimits'
    <2> DEFINE w == IF j = Null THEN Null ELSE ui.rows[j].id
    <2>1. w \in Id \cup {Null}
        BY <1>0
    <2>2. /\ ui'.rows = [ui.rows EXCEPT ![i].dep = j]
          /\ ui'.wants = [ui.wants EXCEPT ![ui.rows[i].id] = w]
          /\ net' = net /\ db' = db
        BY <1>2 DEF SelectDependency
    <2>3. ui'.wants \in [Id -> Id \cup {Null}]
        BY <2>1, <2>2 DEF WithinLimits
    <2>4. Len(ui'.rows) = Len(ui.rows)
        <3>1. ui.rows \in [1 .. Len(ui.rows) -> Rec]
            BY <1>0, LenProperties
        <3>2. DOMAIN ui'.rows = 1 .. Len(ui.rows)
            BY <2>2, <3>1
        <3>3. ui'.rows \in [1 .. Len(ui.rows) -> Rec]
            <4>1. j \in Nat
                BY <1>0 DEF Null, Rows
            <4> DEFINE new == [ui.rows[i] EXCEPT !.dep = j]
            <4>2. new \in Rec
                BY <1>0, <4>1 DEF Rec
            <4> HIDE DEF new, Rec
            <4>3. ui'.rows = [ui.rows EXCEPT ![i] = new]
                BY <2>2 DEF new
            <4> QED
                BY <3>1, <4>2, <4>3
        <3> QED
            BY <1>0, <3>3, FunctionIsSequence
    <2> QED
        BY <2>2, <2>3, <2>4 DEF WithinLimits
<1>3. ASSUME NEW i \in Rows(ui.rows), RemoveRow(i)
      PROVE  WithinLimits'
    <2>1. /\ ui'.rows = AfterRemoval(ui.rows, i) /\ net' = net /\ db' = db
          /\ ui'.wants = [k \in Id |-> IF ui.wants[k] = ui.rows[i].id THEN Null ELSE ui.wants[k]]
        BY <1>3 DEF RemoveRow
    <2>2. ui'.wants \in [Id -> Id \cup {Null}]
        BY <2>1 DEF WithinLimits
    <2>3. Len(ui'.rows) = Len(ui.rows) - 1
        BY <1>0, <2>1, RemovalRenumbers
    <2> QED
        BY <1>0, <2>1, <2>2, <2>3 DEF WithinLimits, Bounds
<1>4. ASSUME NEW i \in Rows(ui.rows), NEW j \in Rows(ui.rows), Move(i, j)
      PROVE  WithinLimits'
    <2>1. ui'.rows = AfterMove(ui.rows, i, j) /\ ui'.wants = ui.wants /\ net' = net /\ db' = db
        BY <1>0, <1>4 DEF Move
    <2>2. Len(ui'.rows) = Len(ui.rows)
        BY <1>0, <2>1, MoveRenumbers
    <2> QED
        BY <2>1, <2>2 DEF WithinLimits
<1>5. CASE ApplyInline \/ SaveAndApply
    <2>1. PICK how \in {"inline", "template"} : Apply(how)
        BY <1>5 DEF ApplyInline, SaveAndApply
    <2>2. /\ ui' = ui /\ net'.added = net.added /\ db'.start = db.start
          /\ db'.steps = Created(ui.rows, db.start)
        BY <1>0, <2>1 DEF Apply
    <2>3. db.start \in Nat
        BY <1>0
    <2>4. Len(db'.steps) = Len(ui.rows)
        BY <1>0, <2>2, <2>3, CreatedSteps
    <2> QED
        BY <2>2, <2>4 DEF WithinLimits
<1>6. CASE UNCHANGED vars
    BY <1>6 DEF vars, WithinLimits
<1> QED
    BY <1>1, <1>2, <1>3, <1>4, <1>5, <1>6 DEF Next, Edit

\* The editor never holds more rows than the server takes, each naming a row there is or
\* none, and no more steps than that are created at once: MAX_ITEMS of StepItemsEditor.vue
\* and of the server, whatever is added, moved and removed.
THEOREM ItemsTyped ==
    Bounds /\ MaxEdit >= 1 /\ MaxItems >= 1 /\ Spec => []TypeOK
<1> SUFFICES ASSUME Bounds, MaxEdit >= 1, MaxItems >= 1 PROVE Spec => []TypeOK
    OBVIOUS
<1>1. Init => ItemsInv /\ WithinLimits
    BY ItemsInit, TypesInit
<1>2. ItemsInv /\ WithinLimits /\ [Next]_vars => ItemsInv' /\ WithinLimits'
    BY ItemsStep, TypesStep
<1>3. ItemsInv /\ WithinLimits => TypeOK
    BY TypesHold
<1> QED
    BY <1>1, <1>2, <1>3, PTL DEF Spec
=============================================================================
