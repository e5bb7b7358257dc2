----------------------- MODULE ProjectPublicationProofs -----------------------
(***************************************************************************)
(* Proofs about ProjectPublication, for any number of operations of each   *)
(* kind, revisions and crashes: committed revisions are on disk, a start   *)
(* restores order, and the library keeps the promises of RevisionStore.    *)
(***************************************************************************)
EXTENDS ProjectPublication, TLAPS

--------------------------------------------------------------------------------
(* The inductive invariant. *)

Workers == Generations \cup Saves \cup Migrations
Holding == Places \ (Ended \cup {"open", "inspected"})

\* A process that is not up runs no operation.
Stopped == process # "up" => \A o \in Ops : at[o] \in Ended \cup {"open"}

\* Where the operations of each kind may be.
MayBe(o, place) ==
  /\ place \in {"deleting", "moved"} => o \in Deletions
  /\ place = "removed" => o \in Deletions \cup SongImports
  /\ place = "cleaning" => o \in SongImports
  /\ place \in {"undoing", "activating", "inspected"} => o \in Packages
  /\ place = "open" => o \in Saves
  /\ place = "claimed" => o \in Workers \cup Packages
  /\ place \in {"staged", "published"} => o \in Writers
  /\ place = "undone" => o \in Packages \cup SongImports \cup Deletions
Kinds == \A o \in Ops : MayBe(o, at[o])

\* Whoever is between its claim and its end has the song.
Owners == \A o \in Ops \ SongImports : at[o] \in Holding => owner = o

\* The import of a song claims nothing: until its rows are committed nobody
\* else knows the song.
Made == {"idle", "done", "committed"}
Making == \A i \in SongImports : at[i] \notin Made =>
            ~Song /\ \A o \in Ops \ {i} : at[o] = "idle"

\* Whoever may leave something half done has its entry in the journal.
Entry(o) == [op |-> o, revision |-> draft[o].target]
IsLogged(o) ==
  /\ at[o] \in {"staged", "published", "undoing", "cleaning"} => Entry(o) \in journal
  /\ at[o] \in {"deleting", "moved", "removed"} => \E e \in journal : e.op = o
Logged == \A o \in Ops : IsLogged(o)

\* And an entry names what its operation publishes.
IsEntry(e) ==
  /\ at[e.op] \notin {"idle", "open", "inspected", "claimed", "activating"}
  /\ e.op \in Writers => e.revision # 0
  /\ e.op \in SongImports => e.revision = 1
  /\ e.op \in Writers /\ at[e.op] \in Holding => e.revision = draft[e.op].target
Entries == \A e \in journal : IsEntry(e)

\* What an operation publishes is a revision of its own making.
Drafted(o) == draft[o].target \in Revisions /\ draft[o].content # Nothing
HasDraft(o) ==
  /\ at[o] \in {"staged", "published", "undoing"} => Drafted(o) /\ ~draft[o].same
  /\ at[o] \in {"idle", "open", "claimed"} => ~draft[o].same
  /\ at[o] \in {"inspected", "claimed", "activating"} /\ o \in Packages => Drafted(o)
  /\ at[o] \in {"staged", "published"} /\ o \in SongImports => draft[o].target = 1
  /\ at[o] \in {"staged", "published"} /\ o \notin Packages => draft[o].content.by = o
  /\ at[o] \in {"inspected", "claimed", "staged", "published"} /\ o \in Packages
        /\ ~draft[o].same => draft[o].content.by = o
Drafts == \A o \in Ops : HasDraft(o)

\* What the rows and the directories hold while an operation is at a place.
Stands(o) ==
  /\ at[o] \in {"published", "undoing"} => rows[draft[o].target] = Nothing
  /\ at[o] = "published" => dirs[draft[o].target] = draft[o].content
  /\ at[o] = "undone" /\ o \in Packages =>
       rows[draft[o].target] = Nothing /\ dirs[draft[o].target] = Nothing
  /\ at[o] = "undone" /\ o \in SongImports => dirs = Empty
  /\ at[o] \in {"moved", "removed"} => dirs = Empty
  /\ at[o] \in {"deleting", "moved"} => Song
  /\ at[o] = "removed" => ~Song
  /\ at[o] = "activating" => rows[draft[o].target] # Nothing
  /\ at[o] = "committed" /\ o \in Workers \cup Packages => rows[draft[o].target] # Nothing
  /\ at[o] = "inspected" => /\ \A d \in Deletions : at[d] \in Ended
                            /\ draft[o].same => rows[draft[o].target] # Nothing
Standing == \A o \in Ops : Stands(o)

\* What a claim protects: the base of the work stays the active revision, and a
\* generation has seen that its lyrics are not edited.
IsBased(o) ==
  /\ at[o] \in {"claimed", "staged", "published"} => Song /\ draft[o].base = active
  /\ at[o] \in {"staged", "published"} => draft[o].target > draft[o].base
  /\ at[o] \in {"staged", "published"} /\ o \in Generations => rows[active].lyrics # "edited"
Based == \A o \in Workers : IsBased(o)

\* A song in the quarantine is there for a deletion or an import that the
\* journal knows, and while the process is up one of them is at work.
Quarantined == trash # Empty =>
  /\ dirs = Empty
  /\ \E e \in journal : e.op \in Deletions \/ (e.op \in SongImports /\ ~Song)
  /\ process = "up" => \E o \in Ops : at[o] \in {"moved", "removed"}

SongRows == IF Song THEN rows[active] # Nothing ELSE rows = Empty

\* Where the files of a song are, and how they may differ from its rows: by a
\* revision that is published and not committed.  The journal knows it, or the
\* recovery has read its entry while the song was in the quarantine, where the
\* directory still is or from where the recovery has put it back.
Disk(r) == IF Song /\ trash # Empty THEN trash[r] ELSE dirs[r]
Pending(r) == \E e \in journal : /\ e.revision = r /\ e.op \in Writers
                                 /\ e.op \in SongImports => at[e.op] \notin {"done", "committed"}
Away == process # "up" /\ Song /\ trash # Empty
Known(r) == Pending(r) \/ r \in returned \/ Away
IsOnDisk(r) == Disk(r) = rows[r] \/ (rows[r] = Nothing /\ Known(r))
OnDisk == \A r \in Revisions : IsOnDisk(r)

PublicationInv ==
  /\ TypeOK /\ Stopped /\ Kinds /\ Owners /\ Making /\ Logged /\ Entries /\ Drafts /\ Standing
  /\ Based /\ Quarantined /\ SongRows /\ OnDisk

--------------------------------------------------------------------------------
(* Types *)

\* Revisions are numbers.
LEMMA Numbers ==
  /\ 0 \in 0..MaxRevision /\ 1 \in Revisions
  /\ \A r \in Revisions : r \in 0..MaxRevision /\ r # 0
  /\ \A r \in 0..MaxRevision : r # 0 => r \in Revisions
  BY BoundsAssumption DEF Revisions

\* Drafts and revisions are records of their types.
LEMMA Records ==
  /\ NoDraft \in Draft
  /\ \A o \in Ops, l \in Lyrics, old \in BOOLEAN : [by |-> o, lyrics |-> l, old |-> old] \in Content
  /\ \A d \in Draft, r \in 0..MaxRevision, c \in Content \cup {Nothing} :
       [d EXCEPT !.target = r, !.content = c] \in Draft
  /\ \A d \in Draft, r \in 0..MaxRevision : [d EXCEPT !.base = r] \in Draft
<1>1. NoDraft \in Draft
  BY Numbers DEF NoDraft, Draft
<1>2. \A o \in Ops, l \in Lyrics, old \in BOOLEAN : [by |-> o, lyrics |-> l, old |-> old] \in Content
  BY DEF Content
<1>3. \A d \in Draft, r \in 0..MaxRevision, c \in Content \cup {Nothing} :
       [d EXCEPT !.target = r, !.content = c] \in Draft
  BY DEF Draft
<1>4. \A d \in Draft, r \in 0..MaxRevision : [d EXCEPT !.base = r] \in Draft
  BY DEF Draft
<1> QED
  BY <1>1, <1>2, <1>3, <1>4

\* The type invariant holds at first.
LEMMA TypeInit == Init => TypeOK
<1> SUFFICES ASSUME Init PROVE TypeOK
  OBVIOUS
<1>1. rows \in Tree
  <2>1. Empty \in Tree
    BY DEF Empty, Tree
  <2>2. \A l \in {"none", "baseline"}, old \in BOOLEAN :
          [Empty EXCEPT ![1] = [by |-> NoOp, lyrics |-> l, old |-> old]] \in Tree
    BY <2>1, Numbers DEF Tree, Content, Lyrics
  <2> QED
    BY <2>1, <2>2 DEF Init
<1>2. Empty \in Tree
  BY DEF Empty, Tree
<1>3. active \in 0..MaxRevision /\ crashes \in 0..MaxCrashes
  BY Numbers, BoundsAssumption DEF Init, Revisions
<1>4. at \in [Ops -> Places] /\ draft \in [Ops -> Draft]
  BY Records DEF Init, Places, Ended
<1> QED
  BY <1>1, <1>2, <1>3, <1>4 DEF Init, TypeOK

\* Every step leaves every operation at a place.
LEMMA AtType ==
  ASSUME TypeOK, [Next]_vars
  PROVE  at' \in [Ops -> Places]
<1> USE DEF TypeOK, Goto
<1>1. ASSUME NEW o \in Ops, NEW q \in Places PROVE [at EXCEPT ![o] = q] \in [Ops -> Places]
  BY <1>1
<1>2. ASSUME NEW o \in Ops, NEW q \in Ended, End(o, q) PROVE at' \in [Ops -> Places]
  BY <1>2, <1>1 DEF End, Place, Places, Ended
<1>3. ASSUME NEW o \in Saves, OpenEditor(o) \/ BeginSave(o) PROVE at' \in [Ops -> Places]
  BY <1>3, <1>1, <1>2 DEF OpenEditor, BeginSave, Places, Ended, Ops, Writers
<1>4. ASSUME NEW o \in Generations \cup Migrations, BeginWork(o) PROVE at' \in [Ops -> Places]
  BY <1>4, <1>1 DEF BeginWork, Places, Ops, Writers
<1>5. ASSUME NEW o \in Packages, Inspect(o) \/ BeginPackage(o) PROVE at' \in [Ops -> Places]
  BY <1>5, <1>1, <1>2 DEF Inspect, BeginPackage, Places, Ended, Ops, Writers
<1>6. ASSUME NEW o \in SongImports, BeginImport(o) PROVE at' \in [Ops -> Places]
  BY <1>6, <1>1 DEF BeginImport, Places, Ops, Writers
<1>7. ASSUME NEW o \in Deletions, BeginDelete(o) PROVE at' \in [Ops -> Places]
  BY <1>7, <1>1 DEF BeginDelete, Places, Ops
<1>8. ASSUME NEW o \in Ops, Step(o) PROVE at' \in [Ops -> Places]
  <2>1. CASE StageGeneration(o) \/ StageSave(o) \/ StageMigration(o) \/ StagePackage(o)
    BY <2>1, <1>1 DEF StageGeneration, StageSave, StageMigration, StagePackage, Stage, Places
  <2>2. CASE NothingToMigrate(o) \/ StageFails(o) \/ ActivateFails(o)
    BY <2>2, <1>2 DEF NothingToMigrate, StageFails, ActivateFails, Ended
  <2>3. CASE PublishRevision(o) \/ PublishFails(o)
    BY <2>3, <1>1, <1>2 DEF PublishRevision, PublishFails, Places, Ended
  <2>4. CASE Commit(o) \/ CommitFails(o) \/ RemoveRevision(o)
    BY <2>4, <1>1, <1>2 DEF Commit, CommitFails, RemoveRevision, Places, Ended
  <2>5. CASE Activate(o)
    BY <2>5, <1>1, <1>2 DEF Activate, Places, Ended
  <2>6. CASE Quarantine(o) \/ QuarantineFails(o)
    BY <2>6, <1>1, <1>2 DEF Quarantine, QuarantineFails, Places, Ended
  <2>7. CASE DeleteRows(o) \/ DeleteFails(o) \/ FinalizeQuarantine(o)
    BY <2>7, <1>1 DEF DeleteRows, DeleteFails, FinalizeQuarantine, Places
  <2>8. CASE Complete(o) \/ CompleteFails(o)
    BY <2>8, <1>2 DEF Complete, CompleteFails, Ended
  <2> QED
    BY <1>8, <2>1, <2>2, <2>3, <2>4, <2>5, <2>6, <2>7, <2>8 DEF Step
<1>9. CASE Crash
  BY <1>9 DEF Crash, Place, Places, Ended
<1>10. CASE Restart \/ Ready \/ (\E e \in journal, kept \in BOOLEAN : RecoverEntry(e, kept))
  BY <1>10 DEF Restart, Ready, RecoverEntry
<1>11. CASE UNCHANGED vars
  BY <1>11 DEF vars
<1> QED
  BY <1>3, <1>4, <1>5, <1>6, <1>7, <1>8, <1>9, <1>10, <1>11 DEF Next, Acts, EndsAndStarts

\* Every step leaves every operation a draft; what it stages has a base or a package.
LEMMA DraftType ==
  ASSUME TypeOK, Kinds, Drafts, Based, [Next]_vars
  PROVE  draft' \in [Ops -> Draft]
<1> USE DEF TypeOK
<1>1. ASSUME NEW o \in Ops, NEW d \in Draft PROVE [draft EXCEPT ![o] = d] \in [Ops -> Draft]
  BY <1>1
<1>2. ASSUME NEW o \in Ops, NEW q, End(o, q) PROVE draft' \in [Ops -> Draft]
  BY <1>2, <1>1, Records DEF End
<1>3. ASSUME NEW o \in Ops, NEW r \in Revisions, NEW c \in Content, Stage(o, r, c)
      PROVE  draft' \in [Ops -> Draft]
  <2>1. draft[o] \in Draft
    OBVIOUS
  <2>2. [draft[o] EXCEPT !.target = r, !.content = c] \in Draft
    BY <2>1, Records, Numbers
  <2> QED
    BY <1>3, <1>1, <2>2 DEF Stage
<1>4. ASSUME NEW o \in Ops, draft' = [draft EXCEPT ![o].base = active] PROVE draft' \in [Ops -> Draft]
  <2>1. draft[o] \in Draft
    OBVIOUS
  <2>2. [draft[o] EXCEPT !.base = active] \in Draft
    BY <2>1, Records
  <2> QED
    BY <1>1, <1>4, <2>2
<1>5. ASSUME NEW o \in Saves, OpenEditor(o) \/ BeginSave(o) PROVE draft' \in [Ops -> Draft]
  BY <1>5, <1>2, <1>4 DEF OpenEditor, BeginSave, Ops, Writers
<1>6. ASSUME NEW o \in Generations \cup Migrations, BeginWork(o) PROVE draft' \in [Ops -> Draft]
  BY <1>6, <1>4 DEF BeginWork, Ops, Writers
<1>7. ASSUME NEW o \in Packages, Inspect(o) PROVE draft' \in [Ops -> Draft]
  <2> SUFFICES ASSUME NEW p \in Archived(o), NEW accepted \in BOOLEAN,
                      draft' = [draft EXCEPT ![o] =
                           [base |-> 0, target |-> p.revision,
                            content |-> [p.content EXCEPT !.old = FALSE],
                            same |-> Conflict(p) = "SameRevision", accepted |-> accepted]]
               PROVE  draft' \in [Ops -> Draft]
    BY <1>7, <1>2 DEF Inspect, Ops, Writers
  <2>1. p.revision \in Revisions /\ p.content \in Content
    BY DEF Archived, Tree, Ops, Writers, Content, Lyrics
  <2>2. [p.content EXCEPT !.old = FALSE] \in Content
    BY <2>1 DEF Content
  <2>3. [base |-> 0, target |-> p.revision, content |-> [p.content EXCEPT !.old = FALSE],
         same |-> Conflict(p) = "SameRevision", accepted |-> accepted] \in Draft
    BY <2>1, <2>2, Numbers DEF Draft
  <2> QED
    BY <1>1, <2>3 DEF Ops, Writers
<1>8. ASSUME NEW o \in SongImports, BeginImport(o) PROVE draft' \in [Ops -> Draft]
  <2>1. [by |-> o, lyrics |-> "none", old |-> FALSE] \in Content
    BY Records DEF Ops, Writers, Lyrics
  <2>2. [NoDraft EXCEPT !.target = 1,
                        !.content = [by |-> o, lyrics |-> "none", old |-> FALSE]] \in Draft
    BY <2>1, Records, Numbers
  <2> QED
    BY <1>8, <1>1, <2>2 DEF BeginImport, Ops, Writers
<1>9. ASSUME NEW o \in Ops, Step(o) PROVE draft' \in [Ops -> Draft]
  <2>1. CASE StageGeneration(o)
    BY <2>1, <1>3, Records DEF StageGeneration, Lyrics
  <2>2. CASE StageSave(o)
    BY <2>2, <1>3, Records DEF StageSave, Lyrics
  <2>3. CASE StageMigration(o)
    <3>1. draft[o] \in Draft
      OBVIOUS
    <3>2. draft[o].base \in Revisions
      BY <2>3, <3>1, Numbers DEF StageMigration, Based, IsBased, Workers, Song, Draft, Drafts
    <3>3. Base(o) \in Content
      BY <2>3, <3>2 DEF StageMigration, Base, Tree
    <3>4. Base(o).lyrics \in Lyrics
      BY <3>3 DEF Content
    <3> QED
      BY <2>3, <3>4, <1>3, Records DEF StageMigration
  <2>4. CASE StagePackage(o)
    <3>1. Drafted(o)
      BY <2>4 DEF StagePackage, Drafts, HasDraft
    <3> QED
      BY <2>4, <3>1, <1>3 DEF StagePackage, Drafted, Draft
  <2>5. CASE NothingToMigrate(o) \/ StageFails(o) \/ PublishFails(o) \/ CommitFails(o)
             \/ ActivateFails(o) \/ QuarantineFails(o) \/ Complete(o) \/ CompleteFails(o)
    BY <2>5, <1>2 DEF NothingToMigrate, StageFails, PublishFails, CommitFails, ActivateFails,
         QuarantineFails, Complete, CompleteFails
  <2>6. CASE PublishRevision(o) \/ Commit(o) \/ RemoveRevision(o) \/ Quarantine(o)
             \/ DeleteRows(o) \/ DeleteFails(o) \/ FinalizeQuarantine(o)
    BY <2>6 DEF PublishRevision, Commit, RemoveRevision, Quarantine, DeleteRows, DeleteFails,
         FinalizeQuarantine
  <2>7. CASE Activate(o)
    BY <2>7, <1>2 DEF Activate
  <2> QED
    BY <1>9, <2>1, <2>2, <2>3, <2>4, <2>5, <2>6, <2>7 DEF Step
<1>10. CASE Crash
  BY <1>10, Records DEF Crash
<1>11. ASSUME NEW o \in Packages, BeginPackage(o) PROVE draft' \in [Ops -> Draft]
  BY <1>11, <1>2 DEF BeginPackage, Ops, Writers
<1>12. ASSUME NEW o \in Deletions, BeginDelete(o) PROVE draft' \in [Ops -> Draft]
  BY <1>12 DEF BeginDelete
<1>13. CASE Restart \/ Ready \/ (\E e \in journal, kept \in BOOLEAN : RecoverEntry(e, kept))
  BY <1>13 DEF Restart, Ready, RecoverEntry
<1>14. CASE UNCHANGED vars
  BY <1>14 DEF vars
<1> QED
  BY <1>5, <1>6, <1>7, <1>8, <1>9, <1>10, <1>11, <1>12, <1>13, <1>14 DEF Next, Acts, EndsAndStarts

\* Rows, directories and quarantine hold revisions.
LEMMA TreeTypes ==
  ASSUME TypeOK, [Next]_vars
  PROVE  rows' \in Tree /\ dirs' \in Tree /\ trash' \in Tree
<1> USE DEF TypeOK
<1>0. Empty \in Tree
  BY DEF Empty, Tree
<1>1. ASSUME NEW t \in Tree, NEW r, NEW c \in Content \cup {Nothing}
      PROVE  [t EXCEPT ![r] = c] \in Tree
  BY <1>1 DEF Tree
<1>2. ASSUME NEW o \in Ops, Step(o) PROVE rows' \in Tree /\ dirs' \in Tree /\ trash' \in Tree
  <2>1. draft[o] \in Draft
    OBVIOUS
  <2>2. draft[o].content \in Content \cup {Nothing}
    BY <2>1 DEF Draft
  <2>3. CASE PublishRevision(o)
    BY <2>3, <2>2, <1>1 DEF PublishRevision
  <2>6. CASE Commit(o)
    BY <2>6, <2>2, <1>1 DEF Commit
  <2>5. CASE RemoveRevision(o)
    BY <2>5, <1>1 DEF RemoveRevision
  <2>4. CASE Quarantine(o) \/ DeleteRows(o) \/ DeleteFails(o) \/ FinalizeQuarantine(o)
    BY <2>4, <1>0 DEF Quarantine, DeleteRows, DeleteFails, FinalizeQuarantine
  <2> QED
    BY <1>2, <2>3, <2>4, <2>5, <2>6 DEF Step, StageGeneration, StageSave, StageMigration,
         StagePackage, Stage,
       NothingToMigrate, StageFails, PublishFails, CommitFails, Activate, ActivateFails,
       QuarantineFails, Complete, CompleteFails, disk
<1>3. ASSUME NEW e \in journal, NEW kept \in BOOLEAN, RecoverEntry(e, kept)
      PROVE  rows' \in Tree /\ dirs' \in Tree /\ trash' \in Tree
  <2>1. [dirs EXCEPT ![e.revision] = Nothing] \in Tree
    BY <1>1
  <2>2. Recovered(e)[1] \in Tree /\ Recovered(e)[2] \in Tree
    BY <2>1, <1>0 DEF Recovered
  <2> QED
    BY <1>3, <2>2 DEF RecoverEntry
<1>4. ASSUME NEW o, OpenEditor(o) \/ BeginSave(o) \/ BeginWork(o) \/ Inspect(o) \/ BeginPackage(o)
             \/ BeginImport(o) \/ BeginDelete(o)
      PROVE  rows' \in Tree /\ dirs' \in Tree /\ trash' \in Tree
  BY <1>4 DEF OpenEditor, BeginSave, BeginWork, Inspect, BeginPackage, BeginImport,
       BeginDelete, disk
<1> QED
  BY <1>2, <1>3, <1>4 DEF Next, Acts, EndsAndStarts, Crash, Restart, Ready, vars, disk

\* The journal holds entries.
LEMMA JournalType ==
  ASSUME TypeOK, Drafts, [Next]_vars
  PROVE  journal' \subseteq [op : Ops, revision : 0..MaxRevision]
<1> USE DEF TypeOK
<1>1. ASSUME NEW o \in Ops, NEW r \in 0..MaxRevision
      PROVE  journal \cup {[op |-> o, revision |-> r]} \subseteq [op : Ops, revision : 0..MaxRevision]
  OBVIOUS
<1>2. ASSUME NEW o \in Ops, Step(o)
      PROVE  journal' \subseteq [op : Ops, revision : 0..MaxRevision]
  <2>1. CASE StageGeneration(o) \/ StageSave(o) \/ StageMigration(o)
    BY <2>1, <1>1, Numbers DEF StageGeneration, StageSave, StageMigration, Stage
  <2>2. CASE StagePackage(o)
    BY <2>2, <1>1, Numbers DEF StagePackage, Stage, Drafts, HasDraft, Drafted
  <2> QED
    BY <1>2, <2>1, <2>2 DEF Step, NothingToMigrate, StageFails, PublishRevision, PublishFails,
         Commit,
       CommitFails, RemoveRevision, Activate, ActivateFails, Quarantine, QuarantineFails,
       DeleteRows,
       DeleteFails, FinalizeQuarantine, Complete, CompleteFails, disk
<1>3. ASSUME NEW o, OpenEditor(o) \/ BeginSave(o) \/ BeginWork(o) \/ Inspect(o) \/ BeginPackage(o)
      PROVE  journal' \subseteq [op : Ops, revision : 0..MaxRevision]
  BY <1>3 DEF OpenEditor, BeginSave, BeginWork, Inspect, BeginPackage, disk
<1>4. ASSUME NEW o \in SongImports \cup Deletions, BeginImport(o) \/ BeginDelete(o)
      PROVE  journal' \subseteq [op : Ops, revision : 0..MaxRevision]
  BY <1>4, <1>1, Numbers DEF BeginImport, BeginDelete, Ops, Writers
<1> QED
  BY <1>2, <1>3, <1>4 DEF Next, Acts, EndsAndStarts, Crash, Restart, Ready, RecoverEntry, vars, disk

\* The other variables keep their types.
LEMMA OtherTypes ==
  ASSUME TypeOK, [Next]_vars
  PROVE  /\ active' \in 0..MaxRevision /\ owner' \in Ops \cup {NoOp}
         /\ process' \in {"up", "down", "recovering"} /\ crashes' \in 0..MaxCrashes
         /\ overtaken' \subseteq Packages /\ returned' \subseteq Revisions
<1> USE DEF TypeOK
<1>1. ASSUME NEW o \in Ops, NEW q, End(o, q) PROVE owner' \in Ops \cup {NoOp}
  BY <1>1 DEF End
<1>2. ASSUME NEW o \in Ops, Claim(o) PROVE owner' \in Ops \cup {NoOp}
  BY <1>2 DEF Claim
<1>3. ASSUME NEW o \in Ops, Step(o)
      PROVE  owner' \in Ops \cup {NoOp} /\ UNCHANGED <<process, crashes>>
  BY <1>3, <1>1 DEF Step, StageGeneration, StageSave, StageMigration, StagePackage, Stage,
       NothingToMigrate, StageFails, PublishRevision, PublishFails, Commit,
       CommitFails, RemoveRevision, Activate, ActivateFails, Quarantine, QuarantineFails,
       DeleteRows,
       DeleteFails, FinalizeQuarantine, Complete, CompleteFails
<1>4. ASSUME NEW o \in Ops, Step(o) PROVE active' \in 0..MaxRevision
  <2>1. CASE Commit(o) \/ Activate(o)
    <3>1. draft[o] \in Draft
      OBVIOUS
    <3> QED
      BY <2>1, <3>1 DEF Commit, Activate, Draft
  <2>2. CASE DeleteRows(o)
    BY <2>2, Numbers DEF DeleteRows
  <2> QED
    BY <1>4, <2>1, <2>2 DEF Step, StageGeneration, StageSave, StageMigration, StagePackage,
         Stage,
       NothingToMigrate, StageFails, PublishRevision, PublishFails,
       CommitFails, RemoveRevision, ActivateFails, Quarantine, QuarantineFails,
       DeleteFails, FinalizeQuarantine, Complete, CompleteFails, disk
<1>5. ASSUME NEW o \in Ops, OpenEditor(o) \/ BeginSave(o) \/ BeginWork(o) \/ Inspect(o)
             \/ BeginPackage(o) \/ BeginImport(o) \/ BeginDelete(o)
      PROVE  owner' \in Ops \cup {NoOp} /\ UNCHANGED <<active, process, crashes>>
  BY <1>5, <1>1, <1>2 DEF OpenEditor, BeginSave, BeginWork, Inspect, BeginPackage, BeginImport,
       BeginDelete, disk
<1>6. ASSUME crashes < MaxCrashes PROVE crashes + 1 \in 0..MaxCrashes
  BY <1>6, BoundsAssumption
<1>7. overtaken' \subseteq Packages /\ returned' \subseteq Revisions
  <2>1. ASSUME NEW o \in Ops, Step(o) PROVE overtaken' \subseteq Packages /\ UNCHANGED returned
    BY <2>1 DEF Step, StageGeneration, StageSave, StageMigration, StagePackage, Stage,
         NothingToMigrate, StageFails, PublishRevision, PublishFails, Commit, CommitFails,
         RemoveRevision, Activate, ActivateFails, Quarantine, QuarantineFails, DeleteRows,
         DeleteFails, FinalizeQuarantine, Complete, CompleteFails, Overtake, history
  <2>2. ASSUME NEW o, OpenEditor(o) \/ BeginSave(o) \/ BeginWork(o) \/ Inspect(o)
               \/ BeginPackage(o) \/ BeginImport(o) \/ BeginDelete(o)
        PROVE  UNCHANGED history
    BY <2>2 DEF OpenEditor, BeginSave, BeginWork, Inspect, BeginPackage, BeginImport, BeginDelete,
         history
  <2> QED
    BY <2>1, <2>2 DEF Next, Acts, EndsAndStarts, Crash, Restart, Ready, RecoverEntry, vars, history
<1> QED
  BY <1>3, <1>4, <1>5, <1>6, <1>7 DEF Next, Acts, EndsAndStarts, Crash, Restart, Ready, RecoverEntry, vars,
       disk, Ops, Writers


--------------------------------------------------------------------------------
(* Acts *)

\* A step is an act of an operation, or of the process.
LEMMA NextIsAnAct ==
  ASSUME [Next]_vars
  PROVE  \/ \E o \in Ops : Acts(o)
         \/ Crash \/ Restart \/ Ready
         \/ \E e \in journal, kept \in BOOLEAN : RecoverEntry(e, kept)
         \/ UNCHANGED vars
  BY DEF Next, EndsAndStarts

\* An act moves its operation and leaves the others where they are.
Others(o) == \A p \in Ops \ {o} : at'[p] = at[p] /\ draft'[p] = draft[p]

\* An act moves nobody else.
LEMMA ActsAlone ==
  ASSUME TypeOK, NEW o \in Ops, Acts(o)
  PROVE  Others(o) /\ UNCHANGED <<process, crashes, returned>>
<1> USE DEF TypeOK, Others, Goto
<1>1. ASSUME NEW q, End(o, q) PROVE Others(o)
  BY <1>1 DEF End
<1>2. CASE Step(o)
  BY <1>2, <1>1 DEF Step, StageGeneration, StageSave, StageMigration, StagePackage, Stage,
       NothingToMigrate, StageFails, PublishRevision, PublishFails, Commit, CommitFails,
       RemoveRevision, Activate, ActivateFails, Quarantine, QuarantineFails, DeleteRows,
       DeleteFails, FinalizeQuarantine, Complete, CompleteFails, history
<1>3. CASE ~Step(o)
  BY <1>3, <1>1 DEF Acts, OpenEditor, BeginSave, BeginWork, Inspect, BeginPackage, BeginImport,
       BeginDelete, history
<1> QED
  BY <1>2, <1>3

\* Operations act while the process is up.
LEMMA ActsUp ==
  ASSUME Stopped, NEW o \in Ops, Acts(o)
  PROVE  process = "up"
<1>1. CASE Step(o)
  <2>1. at[o] \notin Ended \cup {"open"}
    BY <1>1 DEF Ended, Step, StageGeneration, StageSave, StageMigration, StagePackage, Stage,
         NothingToMigrate, StageFails, PublishRevision, PublishFails, Commit, CommitFails,
         RemoveRevision, Activate, ActivateFails, Quarantine, QuarantineFails, DeleteRows,
         DeleteFails, FinalizeQuarantine, Complete, CompleteFails
  <2> QED
    BY <2>1 DEF Stopped
<1>2. CASE ~Step(o)
  BY <1>2 DEF Stopped, Ended, Acts, OpenEditor, BeginSave, BeginWork, Inspect, BeginPackage,
       BeginImport, BeginDelete
<1> QED
  BY <1>1, <1>2

\* Where the act of an operation takes it.
LEMMA ActsKind ==
  ASSUME TypeOK, Kinds, NEW o \in Ops, Acts(o)
  PROVE  MayBe(o, at'[o])
<1> USE DEF TypeOK, Goto, MayBe
<1>1. ASSUME NEW q \in Ended, End(o, q) PROVE MayBe(o, at'[o])
  BY <1>1 DEF End, Place, Ended
<1>2. MayBe(o, at[o])
  BY DEF Kinds
<1>3. CASE ~Step(o)
  BY <1>3, <1>1, <1>2 DEF Acts, Workers, Ops, Writers, Ended, OpenEditor, BeginSave, BeginWork,
       Inspect, BeginPackage, BeginImport, BeginDelete
<1>4. CASE Step(o)
  <2>1. CASE NothingToMigrate(o) \/ StageFails(o) \/ ActivateFails(o) \/ Complete(o) \/ CompleteFails(o)
    BY <2>1, <1>1 DEF NothingToMigrate, StageFails, ActivateFails, Complete, CompleteFails,
         Ended
  <2>2. CASE StageGeneration(o) \/ StageSave(o) \/ StageMigration(o) \/ StagePackage(o)
    BY <2>2 DEF StageGeneration, StageSave, StageMigration, StagePackage, Stage, Writers
  <2>3. CASE PublishRevision(o) \/ PublishFails(o) \/ Commit(o) \/ CommitFails(o) \/ Activate(o)
    BY <2>3, <1>1, <1>2 DEF PublishRevision, PublishFails, Commit, CommitFails, Activate, Ended
  <2>4. CASE RemoveRevision(o) \/ Quarantine(o) \/ QuarantineFails(o) \/ DeleteRows(o)
             \/ DeleteFails(o) \/ FinalizeQuarantine(o)
    BY <2>4, <1>1, <1>2 DEF RemoveRevision, Quarantine, QuarantineFails, DeleteRows,
         DeleteFails,
       FinalizeQuarantine, Ended
  <2> QED
    BY <1>4, <2>1, <2>2, <2>3, <2>4 DEF Step
<1> QED
  BY <1>3, <1>4

\* A crash ends every operation; the client of the editor keeps its document.
LEMMA CrashEnds ==
  ASSUME TypeOK, Crash
  PROVE  /\ process' = "down" /\ owner' = NoOp /\ UNCHANGED disk
         /\ \A o \in Ops : /\ at'[o] \in Ended \cup {"open"}
                           /\ at'[o] # "done" => at'[o] \in {at[o], "failed"}
                           /\ at'[o] = "failed" => o \in SongImports \/ at[o] = "failed"
                           /\ at'[o] \in {"idle", "open"} <=> at[o] \in {"idle", "open"}
                           /\ at'[o] = "open" => draft'[o] = draft[o]
                           /\ at'[o] # "open" => draft'[o] = NoDraft
                           /\ o \in SongImports /\ at[o] \in {"done", "committed"} => at'[o] = "done"
                           /\ o \in SongImports /\ at[o] \notin {"idle", "open", "done", "committed"}
                                => at'[o] = "failed"
  BY DEF TypeOK, Crash, Place, Ended

\* Nothing runs in a process that is not up, and places are kept to their kinds.
LEMMA StoppedStep ==
  ASSUME TypeOK, Stopped, Kinds, [Next]_vars
  PROVE  Stopped' /\ Kinds'
<1>1. ASSUME NEW o \in Ops, Acts(o) PROVE Stopped' /\ Kinds'
  BY <1>1, ActsAlone, ActsUp, ActsKind DEF Stopped, Kinds, Others
<1>2. CASE Crash
  BY <1>2, CrashEnds DEF Stopped, Kinds, MayBe, Ended
<1>3. CASE Restart \/ Ready \/ \E e \in journal, kept \in BOOLEAN : RecoverEntry(e, kept)
  BY <1>3 DEF Stopped, Kinds, Restart, Ready, RecoverEntry
<1>4. CASE UNCHANGED vars
  BY <1>4 DEF vars, Stopped, Kinds
<1> QED
  BY <1>1, <1>2, <1>3, <1>4, NextIsAnAct

\* Whoever holds the song has the claim, and keeps it.
LEMMA OwnersStep ==
  ASSUME TypeOK, Owners, [Next]_vars
  PROVE  Owners'
<1>1. ASSUME NEW o \in Ops, Acts(o) PROVE Owners'
  <2> USE DEF Goto, TypeOK, Holding
  <2> SUFFICES ASSUME NEW p \in Ops \ SongImports, at'[p] \in Holding PROVE owner' = p
    BY DEF Owners
  <2>1. ASSUME NEW q \in Ended, End(o, q) PROVE owner' = p
    BY <2>1, OpsAssumption DEF End, Place, Owners, Ended
  <2>2. ASSUME Claim(o), Others(o) PROVE owner' = p
    BY <2>2, OpsAssumption DEF Claim, Owners, Others
  <2>3. ASSUME UNCHANGED owner, Others(o), at[o] \in Holding PROVE owner' = p
    BY <2>3 DEF Owners, Others
  <2>4. Others(o)
    BY <1>1, ActsAlone
  <2>5. CASE Step(o)
    BY <2>5, <2>1, <2>3, <2>4 DEF Ended, Places, Step, StageGeneration, StageSave,
         StageMigration, StagePackage, Stage, NothingToMigrate, StageFails, PublishRevision,
         PublishFails, Commit, CommitFails, RemoveRevision, Activate, ActivateFails,
         Quarantine, QuarantineFails, DeleteRows, DeleteFails, FinalizeQuarantine, Complete,
         CompleteFails
  <2>6. CASE BeginSave(o) \/ BeginWork(o) \/ BeginDelete(o) \/ BeginPackage(o)
    BY <2>6, <2>1, <2>2, <2>4 DEF Ended, BeginSave, BeginWork, BeginPackage, BeginDelete
  <2>7. CASE o \in SongImports /\ BeginImport(o)
    BY <2>7, <2>4 DEF BeginImport, Owners, Others
  <2>8. CASE OpenEditor(o) \/ Inspect(o)
    BY <2>8, <2>1, <2>4 DEF OpenEditor, Inspect, Owners, Others, Ended, Places
  <2> QED
    BY <1>1, <2>5, <2>6, <2>7, <2>8 DEF Acts
<1>2. CASE Crash
  BY <1>2, CrashEnds DEF Owners, Holding
<1>3. CASE Restart \/ Ready \/ \E e \in journal, kept \in BOOLEAN : RecoverEntry(e, kept)
  BY <1>3 DEF Owners, Restart, Ready, RecoverEntry
<1>4. CASE UNCHANGED vars
  BY <1>4 DEF vars, Owners
<1> QED
  BY <1>1, <1>2, <1>3, <1>4, NextIsAnAct

\* A song in the making stays unknown.
LEMMA MakingStep ==
  ASSUME TypeOK, Kinds, Making, [Next]_vars
  PROVE  Making'
<1>1. ASSUME NEW o \in Ops, Acts(o) PROVE Making'
  <2> USE DEF Goto, TypeOK, Made
  <2> SUFFICES ASSUME NEW i \in SongImports, at'[i] \notin Made
               PROVE  ~Song' /\ \A p \in Ops \ {i} : at'[p] = "idle"
    BY DEF Making
  <2>1. Others(o)
    BY <1>1, ActsAlone
  <2>2. CASE o = i
    <3>1. UNCHANGED active
      BY <1>1, <2>2, OpsAssumption DEF Acts, Kinds, MayBe, Workers, Ops, Writers, OpenEditor,
           BeginSave, BeginWork, Inspect, BeginPackage, BeginImport, BeginDelete, Step, disk,
           StageGeneration, StageSave, StageMigration, StagePackage, Stage, NothingToMigrate,
           StageFails, PublishRevision, PublishFails, Commit, CommitFails, RemoveRevision,
           Activate, ActivateFails, Quarantine, QuarantineFails, DeleteRows, DeleteFails,
           FinalizeQuarantine, Complete, CompleteFails
    <3>2. CASE at[i] = "idle"
      <4>1. BeginImport(i)
        BY <1>1, <2>2, <3>2, OpsAssumption DEF Acts, Ops, Writers, Step, StageGeneration,
             StageSave, StageMigration, StagePackage, Stage, NothingToMigrate, StageFails,
             PublishRevision, PublishFails, Commit, CommitFails, RemoveRevision, Activate,
             ActivateFails, Quarantine, QuarantineFails, DeleteRows, DeleteFails,
             FinalizeQuarantine, Complete, CompleteFails
      <4> QED
        BY <2>1, <2>2, <4>1, <3>1 DEF BeginImport, Others, Song, Ops, Writers
    <3>3. CASE at[i] \in {"done", "committed"}
      <4>1. at'[i] = "done"
        BY <1>1, <2>2, <3>3, OpsAssumption DEF Acts, Ops, Writers, Step, End, Place,
             OpenEditor, BeginSave, BeginWork, Inspect, BeginPackage, BeginImport, BeginDelete,
             StageGeneration, StageSave, StageMigration, StagePackage, Stage, NothingToMigrate,
             StageFails, PublishRevision, PublishFails, Commit, CommitFails, RemoveRevision,
             Activate, ActivateFails, Quarantine, QuarantineFails, DeleteRows, DeleteFails,
             FinalizeQuarantine, Complete, CompleteFails
      <4> QED
        BY <4>1
    <3> QED
      BY <2>1, <2>2, <3>1, <3>2, <3>3 DEF Making, Others, Song
  <2>3. CASE o # i
    <3>1. at[i] = at'[i] /\ ~Song /\ at[o] = "idle"
      BY <2>1, <2>3 DEF Making, Others, Ops, Writers
    <3> QED
      BY <1>1, <2>3, <3>1 DEF Acts, OpenEditor, BeginSave, BeginWork, Inspect, BeginPackage,
           BeginImport, BeginDelete, IdKnown, Song, Ops, Writers, Step, StageGeneration,
           StageSave, StageMigration, StagePackage, Stage, NothingToMigrate, StageFails,
           PublishRevision, PublishFails, Commit, CommitFails, RemoveRevision, Activate,
           ActivateFails, Quarantine, QuarantineFails, DeleteRows, DeleteFails,
           FinalizeQuarantine, Complete, CompleteFails
  <2> QED
    BY <2>2, <2>3
<1>2. CASE Crash
  BY <1>2, CrashEnds DEF Making, Made, Song, disk, Ended, Ops, Writers
<1>3. CASE Restart \/ Ready \/ \E e \in journal, kept \in BOOLEAN : RecoverEntry(e, kept)
  BY <1>3 DEF Making, Song, Restart, Ready, RecoverEntry, disk
<1>4. CASE UNCHANGED vars
  BY <1>4 DEF vars, Making, Song
<1> QED
  BY <1>1, <1>2, <1>3, <1>4, NextIsAnAct

\* An operation between its claim and its end, or the import of a song before
\* its rows are committed.
Busy(o) == IF o \in SongImports THEN at[o] \notin Made ELSE at[o] \in Holding

\* Two operations are never busy at the same time.
LEMMA Alone ==
  ASSUME Owners, Making, NEW o \in Ops, NEW p \in Ops, Busy(o), Busy(p)
  PROVE  o = p
  BY DEF Owners, Making, Busy, Made, Holding, Places, Ended

\* While an operation is busy with anything but a deletion of its own nothing
\* is in the quarantine, and the directories are what is on disk.
LEMMA TrashIsEmpty ==
  ASSUME Quarantined, Owners, Making, Kinds, process = "up",
         NEW o \in Ops, Busy(o), at[o] \notin {"moved", "removed"}
  PROVE  trash = Empty
<1> SUFFICES ASSUME trash # Empty PROVE FALSE
  OBVIOUS
<1>1. PICK p \in Ops : at[p] \in {"moved", "removed"}
  BY DEF Quarantined
<1>2. Busy(p)
  BY <1>1 DEF Busy, Made, Holding, Places, Ended
<1> QED
  BY <1>1, <1>2, Alone

\* Nor is anything in the quarantine while the song is free.
LEMMA FreeIsEmpty ==
  ASSUME Quarantined, Owners, Making, Kinds, process = "up", owner = NoOp,
         NEW o \in Ops \ SongImports, at[o] # "idle"
  PROVE  trash = Empty
<1> SUFFICES ASSUME trash # Empty PROVE FALSE
  OBVIOUS
<1>1. PICK p \in Ops : at[p] \in {"moved", "removed"}
  BY DEF Quarantined
<1>2. CASE p \in SongImports
  BY <1>1, <1>2 DEF Making, Made
<1>3. CASE p \notin SongImports
  BY <1>1, <1>3, OpsAssumption DEF Owners, Holding, Places, Ended
<1> QED
  BY <1>2, <1>3

\* What staging does to a draft and the journal.
LEMMA Staging ==
  ASSUME TypeOK, NEW o \in Ops, NEW r \in 0..MaxRevision, NEW c \in Content \cup {Nothing},
           Stage(o, r, c)
  PROVE  /\ at'[o] = "staged" /\ at[o] = "claimed"
         /\ draft'[o].target = r /\ draft'[o].content = c
         /\ draft'[o].base = draft[o].base /\ draft'[o].same = draft[o].same
         /\ journal' = journal \cup {[op |-> o, revision |-> r]}
         /\ UNCHANGED <<active, rows, dirs, trash, owner>>
<1>1. draft[o] \in Draft
  BY DEF TypeOK
<1>2. draft'[o] = [draft[o] EXCEPT !.target = r, !.content = c]
  BY DEF TypeOK, Stage
<1>3. /\ draft'[o].target = r /\ draft'[o].content = c
      /\ draft'[o].base = draft[o].base /\ draft'[o].same = draft[o].same
  BY <1>1, <1>2 DEF Draft
<1> QED
  BY <1>3 DEF Stage, TypeOK, Goto

\* What the operations stage.
LEMMA Stages ==
  ASSUME TypeOK, Drafts, Kinds, Based, NEW o \in Ops,
         StageGeneration(o) \/ StageSave(o) \/ StageMigration(o) \/ StagePackage(o)
  PROVE  \E r \in Revisions, c \in Content :
           /\ Stage(o, r, c)
           /\ o \in Workers \cup Packages
           /\ o \in Workers => c.by = o /\ r > draft[o].base
           /\ o \in Packages => r = draft[o].target /\ c = draft[o].content
           /\ o \in Generations => Base(o).lyrics # "edited"
<1>0. draft[o] \in Draft
  BY DEF TypeOK
<1>1. CASE StageGeneration(o)
  <2>1. PICK r \in Revisions : Stage(o, r, [by |-> o, lyrics |-> "baseline", old |-> FALSE])
                              /\ o \in Generations /\ r > draft[o].base /\ Base(o).lyrics # "edited"
    BY <1>1 DEF StageGeneration, NextFree, Unedited
  <2>2. [by |-> o, lyrics |-> "baseline", old |-> FALSE] \in Content
    BY Records DEF Lyrics
  <2> QED
    BY <2>1, <2>2, OpsAssumption DEF Workers
<1>2. CASE StageSave(o)
  <2>1. PICK r \in Revisions, l \in {"baseline", "edited"} :
               /\ Stage(o, r, [by |-> o, lyrics |-> l, old |-> FALSE])
               /\ o \in Saves /\ r = draft[o].base + 1
    BY <1>2 DEF StageSave
  <2>2. [by |-> o, lyrics |-> l, old |-> FALSE] \in Content
    BY Records DEF Lyrics
  <2>3. r > draft[o].base
    BY <2>1, <1>0, BoundsAssumption DEF Draft, Revisions
  <2> QED
    BY <2>1, <2>2, <2>3, OpsAssumption DEF Workers
<1>3. CASE StageMigration(o)
  <2>1. PICK r \in Revisions : Stage(o, r, [by |-> o, lyrics |-> Base(o).lyrics, old |-> FALSE])
                              /\ o \in Migrations /\ r = draft[o].base + 1 /\ Base(o) # Nothing
    BY <1>3 DEF StageMigration
  <2>2. draft[o].base \in Revisions
    BY <1>0, <1>3, Numbers DEF StageMigration, Based, IsBased, Workers, Song, Draft
  <2>3. Base(o) \in Content
    BY <2>1, <2>2 DEF Base, Tree, TypeOK
  <2>4. [by |-> o, lyrics |-> Base(o).lyrics, old |-> FALSE] \in Content
    BY <2>3, Records DEF Content
  <2>5. r > draft[o].base
    BY <2>1, <1>0, BoundsAssumption DEF Draft, Revisions
  <2> QED
    BY <2>1, <2>4, <2>5, OpsAssumption DEF Workers
<1>4. CASE StagePackage(o)
  <2>1. Drafted(o)
    BY <1>4 DEF StagePackage, Drafts, HasDraft
  <2> QED
    BY <2>1, <1>0, <1>4, OpsAssumption DEF StagePackage, Drafted, Draft, Workers
<1> QED
  BY <1>1, <1>2, <1>3, <1>4

\* The acts that do not stage either keep their draft, begin one, or end.
KeepsDraft(o) == draft'[o] = draft[o]
IsStaging(o) == StageGeneration(o) \/ StageSave(o) \/ StageMigration(o) \/ StagePackage(o)

\* A step that stages nothing keeps the draft of its operation or ends it.
LEMMA StepDrafts ==
  ASSUME TypeOK, NEW o \in Ops, Step(o), ~IsStaging(o)
  PROVE  \/ KeepsDraft(o)
         \/ at'[o] \in Ended /\ draft'[o] = NoDraft
<1> USE DEF TypeOK, Goto, KeepsDraft
<1>1. ASSUME NEW q \in Ended, End(o, q) PROVE at'[o] \in Ended /\ draft'[o] = NoDraft
  BY <1>1 DEF End, Place, Ended
<1> QED
  BY <1>1 DEF Step, IsStaging, StageGeneration, StageSave, StageMigration, StagePackage, Stage,
       NothingToMigrate, StageFails, PublishRevision, PublishFails, Commit, CommitFails,
       RemoveRevision, Activate, ActivateFails, Quarantine, QuarantineFails, DeleteRows,
       DeleteFails, FinalizeQuarantine, Complete, CompleteFails, Ended

\* Where a step takes its operation.
LEMMA StepPlaces ==
  ASSUME TypeOK, NEW o \in Ops, Step(o), ~IsStaging(o), at'[o] \notin Ended
  PROVE  \/ at[o] = "staged" /\ at'[o] \in {"published", "cleaning"}
         \/ at[o] = "published" /\ at'[o] \in {"committed", "undoing", "cleaning"}
         \/ at[o] = "undoing" /\ at'[o] = "undone"
         \/ at[o] \in {"deleting", "moved"} /\ at'[o] \in {"moved", "undone", "removed"}
         \/ at[o] = "cleaning" /\ at'[o] \in {"removed", "moved"}
         \/ at[o] = "removed" /\ at'[o] \in {"committed", "undone"}
<1> USE DEF TypeOK, Goto
<1>1. ASSUME NEW q \in Ended, End(o, q) PROVE FALSE
  BY <1>1 DEF End, Place, Ended
<1> QED
  BY <1>1 DEF Step, IsStaging, StageGeneration, StageSave, StageMigration, StagePackage, Stage,
       NothingToMigrate, StageFails, PublishRevision, PublishFails, Commit, CommitFails,
       RemoveRevision, Activate, ActivateFails, Quarantine, QuarantineFails, DeleteRows,
       DeleteFails, FinalizeQuarantine, Complete, CompleteFails, Ended

\* Such a step adds no entry.
LEMMA StepJournal ==
  ASSUME TypeOK, NEW o \in Ops, Step(o), ~IsStaging(o)
  PROVE  \/ journal' = journal
         \/ at'[o] \in Ended /\ journal' = {e \in journal : e.op # o}
<1> USE DEF TypeOK, Goto
<1>1. ASSUME NEW q \in Ended, End(o, q) PROVE at'[o] \in Ended
  BY <1>1 DEF End, Place, Ended
<1> QED
  BY <1>1 DEF Step, IsStaging, StageGeneration, StageSave, StageMigration, StagePackage, Stage,
       NothingToMigrate, StageFails, PublishRevision, PublishFails, Commit, CommitFails,
       RemoveRevision, Activate, ActivateFails, Quarantine, QuarantineFails, DeleteRows,
       DeleteFails, FinalizeQuarantine, Complete, CompleteFails, Ended, disk

\* Every step keeps the entries of what may be half done.
LEMMA LoggedStep ==
  ASSUME TypeOK, Kinds, Drafts, Based, Logged, [Next]_vars, Stopped', Stopped
  PROVE  Logged'
<1>1. ASSUME NEW o \in Ops, Acts(o) PROVE Logged'
  <2> USE DEF Goto, TypeOK
  <2>1. Others(o)
    BY <1>1, ActsAlone
  <2> SUFFICES ASSUME NEW p \in Ops
               PROVE  IsLogged(p)'
    BY DEF Logged
  <2>2. CASE Step(o) /\ ~IsStaging(o)
    <3>1. \A e \in journal : e.op # o => e \in journal'
      BY <2>2, StepJournal
    <3>2. CASE p # o
      BY <2>1, <3>1, <3>2 DEF Others, Logged, IsLogged, Entry
    <3>3. CASE p = o
      <4> SUFFICES ASSUME at'[o] \notin Ended PROVE IsLogged(p)'
        BY <3>3 DEF Ended, IsLogged
      <4>1. journal' = journal /\ draft'[o] = draft[o]
        BY <2>2, StepJournal, StepDrafts DEF KeepsDraft
      <4>2. CASE at[o] \in {"staged", "published", "undoing", "cleaning"}
        <5>1. Entry(o) \in journal /\ Entry(o).op = o
          BY <4>2 DEF Logged, IsLogged, Entry
        <5> QED
          BY <3>3, <4>1, <5>1 DEF Entry, IsLogged
      <4>3. CASE at[o] \in {"deleting", "moved", "removed"}
        BY <2>2, <3>3, <4>1, <4>3, StepPlaces DEF Logged, IsLogged
      <4> QED
        BY <2>2, <4>2, <4>3, StepPlaces DEF IsLogged
    <3> QED
      BY <3>2, <3>3
  <2>3. CASE IsStaging(o)
    <3>1. PICK r \in Revisions, c \in Content : Stage(o, r, c)
      BY <2>3, Stages DEF IsStaging
    <3>2. /\ at'[o] = "staged" /\ draft'[o].target = r
          /\ journal' = journal \cup {[op |-> o, revision |-> r]}
      BY <3>1, Staging, Numbers
    <3> QED
      BY <2>1, <3>2 DEF Others, Logged, IsLogged, Entry
  <2>4. CASE o \in SongImports /\ BeginImport(o)
    <3>1. /\ draft'[o].target = 1 /\ at'[o] = "staged"
          /\ journal' = journal \cup {[op |-> o, revision |-> 1]}
      BY <2>4 DEF BeginImport, NoDraft
    <3> QED
      BY <2>1, <3>1 DEF Others, Logged, IsLogged, Entry
  <2>5. CASE o \in Deletions /\ BeginDelete(o)
    <3>1. at'[o] = "deleting" /\ journal' = journal \cup {[op |-> o, revision |-> 0]}
      BY <2>5 DEF BeginDelete
    <3>2. [op |-> o, revision |-> 0].op = o
      OBVIOUS
    <3>3. CASE p = o
      BY <3>1, <3>2, <3>3 DEF IsLogged
    <3> QED
      BY <2>1, <3>1, <3>3 DEF Others, Logged, IsLogged, Entry
  <2>6. CASE OpenEditor(o) \/ BeginSave(o) \/ BeginWork(o) \/ Inspect(o) \/ BeginPackage(o)
    <3>1. journal' = journal /\ at'[o] \in Ended \cup {"open", "claimed", "inspected", "activating"}
      BY <2>6 DEF OpenEditor, BeginSave, BeginWork, Inspect, BeginPackage, disk, End, Place,
           Ended
    <3> QED
      BY <2>1, <3>1 DEF Others, Logged, IsLogged, Entry, Ended
  <2> QED
    BY <1>1, <2>2, <2>3, <2>4, <2>5, <2>6 DEF Acts
<1>2. CASE process' # "up"
  BY <1>2 DEF Stopped, Logged, IsLogged, Ended
<1>3. CASE Ready
  BY <1>3 DEF Stopped, Logged, IsLogged, Ended, Ready, disk
<1>4. CASE UNCHANGED vars
  BY <1>4 DEF vars, Logged, IsLogged, Entry
<1> QED
  BY <1>1, <1>2, <1>3, <1>4, NextIsAnAct DEF Crash, Restart, RecoverEntry, vars

\* Every step keeps to the entries what they name.
LEMMA EntriesStep ==
  ASSUME TypeOK, Kinds, Drafts, Based, Entries, Logged, [Next]_vars
  PROVE  Entries'
<1>1. ASSUME NEW o \in Ops, Acts(o) PROVE Entries'
  <2> USE DEF Goto, TypeOK
  <2>1. Others(o)
    BY <1>1, ActsAlone
  <2> SUFFICES ASSUME NEW e \in journal'
               PROVE  IsEntry(e)'
    BY DEF Entries
  <2>0. ASSUME e \in journal, e.op # o
        PROVE  IsEntry(e)'
    BY <2>0, <2>1 DEF Others, Entries, IsEntry
  <2>2. CASE Step(o) /\ ~IsStaging(o)
    <3>1. e \in journal
      BY <2>2, StepJournal
    <3>2. CASE e.op = o
      <4>1. at'[o] \notin {"idle", "open", "inspected", "claimed", "activating"}
        BY <2>2 DEF Step, IsStaging, StageGeneration, StageSave, StageMigration, StagePackage,
             Stage, NothingToMigrate, StageFails, PublishRevision, PublishFails, Commit,
             CommitFails, RemoveRevision, Activate, ActivateFails, Quarantine, QuarantineFails,
             DeleteRows, DeleteFails, FinalizeQuarantine, Complete, CompleteFails, End, Place
      <4>2. at'[o] \in Holding => at[o] \in Holding /\ draft'[o] = draft[o]
        BY <2>2, StepPlaces, StepDrafts DEF KeepsDraft, Holding, Places, Ended
      <4> QED
        BY <3>1, <3>2, <4>1, <4>2 DEF Entries, IsEntry
    <3> QED
      BY <2>0, <3>1, <3>2
  <2>3. CASE IsStaging(o)
    <3>1. PICK r \in Revisions, c \in Content : Stage(o, r, c) /\ o \in Workers \cup Packages
      BY <2>3, Stages DEF IsStaging
    <3>2. /\ at[o] = "claimed" /\ at'[o] = "staged" /\ draft'[o].target = r
          /\ journal' = journal \cup {[op |-> o, revision |-> r]}
      BY <3>1, Staging, Numbers
    <3>3. e \in journal => e.op # o
      BY <3>2 DEF Entries, IsEntry
    <3>4. CASE e = [op |-> o, revision |-> r]
      BY <3>1, <3>2, <3>4, Numbers, OpsAssumption DEF Workers, IsEntry
    <3> QED
      BY <2>0, <3>2, <3>3, <3>4
  <2>4. CASE o \in SongImports /\ BeginImport(o)
    <3>1. /\ draft'[o].target = 1 /\ at'[o] = "staged" /\ at[o] = "idle"
          /\ journal' = journal \cup {[op |-> o, revision |-> 1]}
      BY <2>4 DEF BeginImport, NoDraft
    <3>2. e \in journal => e.op # o
      BY <3>1 DEF Entries, IsEntry
    <3>3. CASE e = [op |-> o, revision |-> 1]
      BY <3>1, <3>3 DEF IsEntry
    <3> QED
      BY <2>0, <3>1, <3>2, <3>3
  <2>5. CASE o \in Deletions /\ BeginDelete(o)
    <3>1. at'[o] = "deleting" /\ at[o] = "idle" /\ journal' = journal \cup {[op |-> o, revision |-> 0]}
      BY <2>5 DEF BeginDelete
    <3>2. e \in journal => e.op # o
      BY <3>1 DEF Entries, IsEntry
    <3>3. CASE e = [op |-> o, revision |-> 0]
      BY <2>5, <3>1, <3>3, OpsAssumption DEF Writers, IsEntry
    <3> QED
      BY <2>0, <3>1, <3>2, <3>3
  <2>6. CASE OpenEditor(o) \/ BeginSave(o) \/ BeginWork(o) \/ Inspect(o) \/ BeginPackage(o)
    <3>1. journal' = journal /\ at[o] \in {"idle", "open", "inspected"}
      BY <2>6 DEF OpenEditor, BeginSave, BeginWork, Inspect, BeginPackage, disk
    <3>2. e.op # o
      BY <3>1 DEF Entries, IsEntry
    <3> QED
      BY <2>0, <3>1, <3>2
  <2> QED
    BY <1>1, <2>2, <2>3, <2>4, <2>5, <2>6 DEF Acts
<1>2. CASE Crash
  <2>1. \A o \in Ops : at'[o] \notin Holding
    BY <1>2, CrashEnds DEF Holding
  <2> QED
    BY <1>2, <2>1, CrashEnds DEF Entries, IsEntry, disk, TypeOK, Ended
<1>3. CASE Restart \/ Ready \/ \E e \in journal, kept \in BOOLEAN : RecoverEntry(e, kept)
  BY <1>3 DEF Entries, IsEntry, Restart, Ready, RecoverEntry, disk
<1>4. CASE UNCHANGED vars
  BY <1>4 DEF vars, Entries, IsEntry
<1> QED
  BY <1>1, <1>2, <1>3, <1>4, NextIsAnAct

\* Every step keeps what operations publish.
LEMMA DraftsStep ==
  ASSUME TypeOK, Stopped, Kinds, Owners, Making, Drafts, Based, Standing, Quarantined, OnDisk,
           [Next]_vars
  PROVE  Drafts'
<1>1. ASSUME NEW o \in Ops, Acts(o) PROVE Drafts'
  <2> USE DEF Goto, TypeOK
  <2>1. Others(o)
    BY <1>1, ActsAlone
  <2>2. SUFFICES HasDraft(o)'
    BY <2>1 DEF Others, Drafts, HasDraft, Drafted
  <2>13. at'[o] # "idle"
    BY <1>1 DEF Acts, OpenEditor, BeginSave, BeginWork, Inspect, BeginPackage, BeginImport,
         BeginDelete, Step, StageGeneration, StageSave, StageMigration, StagePackage, Stage,
         NothingToMigrate, StageFails, PublishRevision, PublishFails, Commit, CommitFails,
         RemoveRevision, Activate, ActivateFails, Quarantine, QuarantineFails, DeleteRows,
         DeleteFails, FinalizeQuarantine, Complete, CompleteFails, End, Place
  <2>4. CASE at'[o] \in Ended
    BY <2>4, <2>13 DEF HasDraft, Ended
  <2>5. CASE Step(o) /\ ~IsStaging(o) /\ at'[o] \notin Ended
    <3>1. draft'[o] = draft[o]
      BY <2>5, StepDrafts DEF KeepsDraft
    <3> QED
      BY <2>5, <3>1, StepPlaces DEF Drafts, HasDraft, Drafted
  <2>6. CASE IsStaging(o)
    <3>1. PICK r \in Revisions, c \in Content :
              /\ Stage(o, r, c)
              /\ o \in Workers \cup Packages
              /\ o \in Workers => c.by = o /\ r > draft[o].base
              /\ o \in Packages => r = draft[o].target /\ c = draft[o].content
      BY <2>6, Stages DEF IsStaging
    <3>2. /\ at'[o] = "staged" /\ at[o] = "claimed"
          /\ draft'[o].target = r /\ draft'[o].content = c /\ draft'[o].same = draft[o].same
      BY <3>1, Staging, Numbers
    <3>3. c # Nothing
      BY ContentAssumption
    <3> QED
      BY <3>1, <3>2, <3>3, OpsAssumption DEF HasDraft, Drafted, Drafts, Workers
  <2>7. CASE o \in SongImports /\ BeginImport(o)
    <3>1. [by |-> o, lyrics |-> "none", old |-> FALSE] \in Content
      BY Records DEF Lyrics
    <3>2. /\ at'[o] = "staged" /\ draft'[o].target = 1 /\ draft'[o].same = FALSE
          /\ draft'[o].content = [by |-> o, lyrics |-> "none", old |-> FALSE]
      BY <2>7 DEF BeginImport, NoDraft
    <3>3. draft'[o].content.by = o
      BY <3>2
    <3>4. Drafted(o)'
      BY <3>1, <3>2, ContentAssumption, Numbers DEF Drafted
    <3> QED
      BY <2>7, <3>2, <3>3, <3>4, OpsAssumption DEF HasDraft
  <2>8. CASE o \in Deletions /\ BeginDelete(o)
    BY <2>8 DEF BeginDelete, HasDraft
  <2>9. CASE o \in Workers /\ (OpenEditor(o) \/ BeginWork(o))
    <3>1. /\ at[o] = "idle" /\ at'[o] \in {"open", "claimed"}
          /\ draft'[o] = [draft[o] EXCEPT !.base = active]
      BY <2>9 DEF OpenEditor, BeginWork
    <3>2. draft'[o].same = draft[o].same /\ draft'[o].target = draft[o].target
      BY <3>1 DEF Draft
    <3>3. o \notin Packages
      BY <2>9, OpsAssumption DEF Workers
    <3> QED
      BY <3>1, <3>2, <3>3 DEF HasDraft, Drafts
  <2>10. CASE o \in Saves /\ BeginSave(o)
    BY <2>4, <2>10, OpsAssumption DEF BeginSave, HasDraft, Drafts, End, Place, Ended
  <2>11. CASE o \in Packages /\ Inspect(o)
    <3> SUFFICES ASSUME NEW p \in Archived(o), NEW accepted \in BOOLEAN, Goto(o, "inspected"),
                        draft' = [draft EXCEPT ![o] =
                           [base |-> 0, target |-> p.revision,
                            content |-> [p.content EXCEPT !.old = FALSE],
                            same |-> Conflict(p) = "SameRevision", accepted |-> accepted]]
                 PROVE  HasDraft(o)'
      BY <2>4, <2>11 DEF Inspect, End, Place, Ended
    <3>1. p.revision \in Revisions /\ p.content \in Content
      BY DEF Archived, Tree, Content, Lyrics
    <3>2. /\ [p.content EXCEPT !.old = FALSE] \in Content
          /\ [p.content EXCEPT !.old = FALSE].by = p.content.by
      BY <3>1 DEF Content
    <3>3. rows[p.revision] = p.content \/ p.content.by = o
      BY DEF Archived
    <3>4. rows[p.revision] = p.content => Conflict(p) = "SameRevision"
      BY <3>1, ContentAssumption DEF Conflict
    <3>5. /\ draft'[o].target = p.revision /\ draft'[o].content = [p.content EXCEPT !.old = FALSE]
          /\ draft'[o].same = (Conflict(p) = "SameRevision") /\ at'[o] = "inspected"
      OBVIOUS
    <3> QED
      BY <3>1, <3>2, <3>3, <3>4, <3>5, <2>11, ContentAssumption DEF HasDraft, Drafted
  <2>12. CASE o \in Packages /\ BeginPackage(o)
    <3> SUFFICES ASSUME ~End(o, "failed") PROVE HasDraft(o)'
      BY <2>4 DEF End, Place, Ended
    <3>1. owner = NoOp /\ at[o] = "inspected" /\ process = "up" /\ draft'[o] = draft[o]
      BY <1>1, <2>12, ActsUp DEF BeginPackage, Claim
    <3>2. trash = Empty
      BY <2>12, <3>1, FreeIsEmpty, OpsAssumption
    <3>3. draft[o].target \in Revisions /\ (draft[o].same => rows[draft[o].target] # Nothing)
      BY <2>12, <3>1 DEF Drafts, HasDraft, Drafted, Standing, Stands
    <3>4. draft[o].same => dirs[draft[o].target] # Nothing
      BY <3>2, <3>3 DEF OnDisk, IsOnDisk, Disk
    <3>5. at'[o] = "activating" \/ (at'[o] = "claimed" /\ ~draft[o].same)
      BY <2>12, <3>4 DEF BeginPackage
    <3> QED
      BY <2>12, <3>1, <3>5 DEF Drafts, HasDraft, Drafted
  <2> QED
    BY <1>1, <2>4, <2>5, <2>6, <2>7, <2>8, <2>9, <2>10, <2>11, <2>12 DEF Acts, Workers
<1>2. CASE Crash
  BY <1>2, CrashEnds DEF Drafts, HasDraft, Ended, NoDraft
<1>3. CASE Restart \/ Ready \/ \E e \in journal, kept \in BOOLEAN : RecoverEntry(e, kept)
  BY <1>3 DEF Drafts, HasDraft, Drafted, Restart, Ready, RecoverEntry
<1>4. CASE UNCHANGED vars
  BY <1>4 DEF vars, Drafts, HasDraft, Drafted
<1> QED
  BY <1>1, <1>2, <1>3, <1>4, NextIsAnAct

--------------------------------------------------------------------------------
(* Rows and directories *)

\* Only the operation that is alone at work changes the rows, the directories
\* and the quarantine.
LEMMA OnlyBusyWrites ==
  ASSUME TypeOK, Kinds, NEW o \in Ops, Acts(o), ~Busy(o)
  PROVE  UNCHANGED <<active, rows, dirs, trash>>
<1> USE DEF Busy, Made, Holding, Places, Ended
<1>1. CASE ~Step(o)
  BY <1>1 DEF Acts, OpenEditor, BeginSave, BeginWork, Inspect, BeginPackage, BeginImport,
       BeginDelete, disk
<1>2. CASE Step(o)
  BY <1>2 DEF Step, StageGeneration, StageSave, StageMigration, StagePackage, Stage,
       NothingToMigrate, StageFails, PublishRevision, PublishFails, Commit, CommitFails,
       RemoveRevision, Activate, ActivateFails, Quarantine, QuarantineFails, DeleteRows,
       DeleteFails, FinalizeQuarantine, Complete, CompleteFails, disk, Kinds, MayBe
<1> QED
  BY <1>1, <1>2

\* With an empty quarantine committed revisions are in the directories.
LEMMA DiskIsDirs ==
  ASSUME OnDisk, trash = Empty, NEW r \in Revisions
  PROVE  rows[r] \in {dirs[r], Nothing}
  BY DEF OnDisk, IsOnDisk, Disk

\* What an inspection found stays true until the claim: no deletion runs meanwhile.
LEMMA InspectedStands ==
  ASSUME TypeOK, Stopped, Kinds, Drafts, Standing, NEW o \in Ops, Acts(o),
         NEW p \in Ops, p # o, at[p] = "inspected", p \in Packages
  PROVE  Stands(p)'
<1>1. Others(o) /\ process = "up"
  BY ActsAlone, ActsUp
<1>2. at'[p] = "inspected" /\ draft'[p] = draft[p]
  BY <1>1 DEF Others
<1>3. at[p] \notin Ended
  BY DEF Ended
<1>4. o \notin Deletions
  BY <1>3, OpsAssumption DEF Standing, Stands, Ended, Acts, Step, StageGeneration, StageSave,
       StageMigration, StagePackage, Stage, NothingToMigrate, StageFails, PublishRevision,
       PublishFails, Commit, CommitFails, RemoveRevision, Activate, ActivateFails, Quarantine,
       QuarantineFails, DeleteRows, DeleteFails, FinalizeQuarantine, Complete, CompleteFails,
       BeginDelete, Ops, Writers
<1>5. draft[p].target \in Revisions
  BY DEF Drafts, HasDraft, Drafted
<1>6. rows[draft[p].target] # Nothing => rows'[draft[p].target] # Nothing
  <2>1. CASE Commit(o)
    <3>1. draft[o].content # Nothing
      BY <2>1 DEF Commit, Drafts, HasDraft, Drafted
    <3> QED
      BY <2>1, <3>1, <1>5 DEF Commit, TypeOK, Tree
  <2>2. CASE ~Commit(o)
    <3>1. UNCHANGED rows
      BY <2>2, <1>4 DEF Kinds, MayBe, Acts, OpenEditor, BeginSave, BeginWork, Inspect,
           BeginPackage,
           BeginImport, BeginDelete, disk, Step, StageGeneration, StageSave, StageMigration,
           StagePackage, Stage, NothingToMigrate, StageFails, PublishRevision, PublishFails,
           Commit, CommitFails, RemoveRevision, Activate, ActivateFails, Quarantine,
           QuarantineFails, DeleteRows, DeleteFails, FinalizeQuarantine, Complete, CompleteFails
    <3> QED
      BY <3>1
  <2> QED
    BY <2>1, <2>2
<1> QED
  BY <1>1, <1>2, <1>4, <1>6 DEF Standing, Stands, Others, Ops

\* What the act of an operation leaves of its own place.
LEMMA ActorStands ==
  ASSUME TypeOK, Stopped, Kinds, Owners, Making, Drafts, Standing, Quarantined, OnDisk,
         NEW o \in Ops, Acts(o)
  PROVE  Stands(o)'
<1> USE DEF TypeOK, Goto
<1>1. CASE at'[o] \in Ended \cup {"open", "claimed", "staged", "cleaning"}
  BY <1>1 DEF Stands, Ended
<1>2. ASSUME NEW q \in Ended, End(o, q) PROVE Stands(o)'
  BY <1>1, <1>2 DEF End, Place, Ended
<1>3. CASE ~Step(o)
  <2>1. CASE BeginDelete(o)
    BY <2>1 DEF BeginDelete, Stands, Song
  <2>2. CASE o \in Packages /\ Inspect(o)
    <3> SUFFICES ASSUME NEW p \in Archived(o), NEW accepted \in BOOLEAN, Goto(o, "inspected"),
                        draft' = [draft EXCEPT ![o] =
                           [base |-> 0, target |-> p.revision,
                            content |-> [p.content EXCEPT !.old = FALSE],
                            same |-> Conflict(p) = "SameRevision", accepted |-> accepted]]
                 PROVE  Stands(o)'
      BY <1>2, <2>2 DEF Inspect, Ended
    <3>1. p.content \in Content
      BY DEF Archived, Tree, Content, Lyrics
    <3>2. Conflict(p) = "SameRevision" => rows[p.revision] = p.content
      BY <3>1, ContentAssumption DEF Conflict
    <3>3. /\ draft'[o].target = p.revision /\ at'[o] = "inspected" /\ rows' = rows
          /\ draft'[o].same = (Conflict(p) = "SameRevision")
      BY <2>2 DEF Inspect, disk
    <3>4. \A d \in Deletions : at'[d] \in Ended
      BY <2>2, OpsAssumption DEF Inspect, Ops, Writers
    <3> QED
      BY <3>1, <3>2, <3>3, <3>4, ContentAssumption DEF Stands
  <2>3. CASE o \in Packages /\ BeginPackage(o)
    <3>1. CASE End(o, "failed")
      BY <3>1, <1>2 DEF Ended
    <3>2. CASE ~End(o, "failed")
      BY <2>3, <3>2 DEF BeginPackage, Stands, Standing, disk
    <3> QED
      BY <3>1, <3>2
  <2> QED
    BY <1>1, <1>3, <2>1, <2>2, <2>3, <1>2 DEF Acts, OpenEditor, BeginSave, BeginWork,
         BeginImport, Ended
<1>4. CASE Step(o)
  <2>1. CASE IsStaging(o)
    BY <1>1, <2>1 DEF IsStaging, StageGeneration, StageSave, StageMigration, StagePackage, Stage
  <2>2. CASE NothingToMigrate(o) \/ StageFails(o) \/ ActivateFails(o) \/ Complete(o) \/ CompleteFails(o)
    BY <1>2, <2>2 DEF NothingToMigrate, StageFails, ActivateFails, Complete, CompleteFails,
         Ended
  <2>3. CASE PublishRevision(o)
    <3>1. Busy(o) /\ process = "up"
      BY <1>4, <2>3, ActsUp DEF PublishRevision, Busy, Made, Holding, Places, Ended, Acts
    <3>2. trash = Empty
      BY <2>3, <3>1, TrashIsEmpty DEF PublishRevision
    <3>3. draft[o].target \in Revisions
      BY <2>3 DEF PublishRevision, Drafts, HasDraft, Drafted
    <3>4. rows[draft[o].target] = Nothing
      BY <2>3, <3>2, <3>3, DiskIsDirs DEF PublishRevision
    <3> QED
      BY <2>3, <3>3, <3>4 DEF PublishRevision, Stands, Tree
  <2>4. CASE Commit(o)
    <3>1. draft[o].target \in Revisions /\ draft[o].content # Nothing
      BY <2>4 DEF Commit, Drafts, HasDraft, Drafted
    <3> QED
      BY <2>4, <3>1 DEF Commit, Stands, Tree
  <2>5. CASE PublishFails(o) \/ CommitFails(o)
    BY <1>1, <1>2, <2>5 DEF PublishFails, CommitFails, Stands, Standing, Ended, disk
  <2>6. CASE RemoveRevision(o)
    <3>1. draft[o].target \in Revisions
      BY <2>6 DEF RemoveRevision, Drafts, HasDraft, Drafted
    <3> QED
      BY <2>6, <3>1, OpsAssumption DEF RemoveRevision, Stands, Standing, Tree, Kinds, MayBe
  <2>7. CASE Activate(o)
    BY <1>2, <2>7 DEF Activate, Drafts, HasDraft, Ended
  <2>8. CASE Quarantine(o)
    BY <2>8, OpsAssumption DEF Quarantine, Stands, Standing, Song, Kinds, MayBe, Making, Made,
         Writers
  <2>9. CASE QuarantineFails(o)
    BY <1>2, <2>9, OpsAssumption DEF QuarantineFails, Stands, Kinds, MayBe, Ended, Writers
  <2>10. CASE DeleteRows(o)
    BY <2>10 DEF DeleteRows, Stands, Standing, Song
  <2>11. CASE DeleteFails(o)
    BY <2>11, OpsAssumption DEF DeleteFails, Stands, Kinds, MayBe, Writers
  <2>12. CASE FinalizeQuarantine(o)
    BY <2>12, OpsAssumption DEF FinalizeQuarantine, Stands, Standing, Kinds, MayBe, Writers,
         Workers
  <2> QED
    BY <1>4, <2>1, <2>2, <2>3, <2>4, <2>5, <2>6, <2>7, <2>8, <2>9, <2>10, <2>11,
         <2>12 DEF Step, IsStaging
<1> QED
  BY <1>3, <1>4

\* Every step keeps what rows and directories hold at each place.
LEMMA StandingStep ==
  ASSUME TypeOK, Stopped, Kinds, Owners, Making, Drafts, Standing, Quarantined, OnDisk,
           [Next]_vars,
         Stopped'
  PROVE  Standing'
<1>1. ASSUME NEW o \in Ops, Acts(o) PROVE Standing'
  <2> SUFFICES ASSUME NEW p \in Ops, p # o PROVE Stands(p)'
    BY <1>1, ActorStands DEF Standing
  <2>1. at'[p] = at[p] /\ draft'[p] = draft[p]
    BY <1>1, ActsAlone DEF Others
  <2>2. CASE Busy(p)
    <3>1. UNCHANGED <<active, rows, dirs, trash>>
      BY <1>1, <2>2, Alone, OnlyBusyWrites
    <3>2. at[p] # "inspected"
      BY <2>2, OpsAssumption DEF Busy, Made, Holding, Kinds, MayBe
    <3> QED
      BY <2>1, <3>1, <3>2 DEF Stands, Standing, Song
  <2>3. CASE at[p] = "inspected"
    BY <1>1, <2>3, InspectedStands DEF Kinds, MayBe
  <2>4. CASE ~Busy(p) /\ at[p] # "inspected"
    BY <2>1, <2>4, OpsAssumption DEF Stands, Busy, Made, Holding, Places, Ended, Workers,
         Kinds, MayBe
  <2> QED
    BY <2>2, <2>3, <2>4
<1>2. CASE process' # "up"
  BY <1>2 DEF Stopped, Standing, Stands, Ended
<1>3. CASE Ready
  BY <1>3 DEF Stopped, Standing, Stands, Ended, Ready
<1>4. CASE UNCHANGED vars
  BY <1>4 DEF vars, Standing, Stands, Song
<1> QED
  BY <1>1, <1>2, <1>3, <1>4, NextIsAnAct DEF Crash, Restart, RecoverEntry

\* Every step keeps the base of the work.
LEMMA BasedStep ==
  ASSUME TypeOK, Stopped, Kinds, Owners, Making, Drafts, Standing, Based, SongRows, Quarantined,
           OnDisk, [Next]_vars
  PROVE  Based'
<1>1. ASSUME NEW o \in Ops, Acts(o) PROVE Based'
  <2> USE DEF Goto, TypeOK
  <2>0. Others(o) /\ process = "up"
    BY <1>1, ActsAlone, ActsUp
  <2> SUFFICES ASSUME NEW p \in Workers, at'[p] \in {"claimed", "staged", "published"} PROVE IsBased(p)'
    BY DEF Based, IsBased
  <2>1. p \in Ops /\ p \notin SongImports
    BY OpsAssumption DEF Workers, Ops, Writers
  <2>2. CASE p # o
    <3>1. at'[p] = at[p] /\ draft'[p] = draft[p]
      BY <2>0, <2>1, <2>2 DEF Others
    <3>2. Busy(p)
      BY <2>1, <3>1 DEF Busy, Holding, Places, Ended
    <3>3. UNCHANGED <<active, rows, dirs, trash>>
      BY <1>1, <2>1, <2>2, <3>2, Alone, OnlyBusyWrites
    <3> QED
      BY <3>1, <3>3 DEF Based, IsBased, Song
  <2>3. CASE p = o /\ IsStaging(o)
    <3>1. PICK r \in Revisions, c \in Content :
              /\ Stage(o, r, c)
              /\ o \in Workers => c.by = o /\ r > draft[o].base
              /\ o \in Generations => Base(o).lyrics # "edited"
      BY <2>3, Stages DEF IsStaging
    <3>2. /\ at'[o] = "staged" /\ at[o] = "claimed" /\ draft'[o].target = r
          /\ draft'[o].base = draft[o].base /\ UNCHANGED <<active, rows, dirs, trash>>
      BY <3>1, Staging, Numbers
    <3>3. Song /\ draft[o].base = active
      BY <2>3, <3>2 DEF Based, IsBased
    <3>4. trash = Empty
      BY <2>0, <2>1, <2>3, <3>2, TrashIsEmpty DEF Busy, Holding, Places, Ended
    <3>5. active \in Revisions /\ rows[active] # Nothing
      BY <3>3, Numbers DEF Song, SongRows
    <3>6. rows[active] = Base(o)
      BY <3>3, <3>4, <3>5, DiskIsDirs DEF Base
    <3> QED
      BY <2>3, <3>1, <3>2, <3>3, <3>6 DEF IsBased, Song
  <2>4. CASE p = o /\ Step(o) /\ ~IsStaging(o)
    <3>1. at'[o] = "published" /\ PublishRevision(o)
      BY <2>4 DEF Step, IsStaging, StageGeneration, StageSave, StageMigration, StagePackage,
           Stage, NothingToMigrate, StageFails, PublishRevision, PublishFails, Commit,
           CommitFails, RemoveRevision, Activate, ActivateFails, Quarantine, QuarantineFails,
           DeleteRows, DeleteFails, FinalizeQuarantine, Complete, CompleteFails, End, Place
    <3> QED
      BY <2>4, <3>1 DEF PublishRevision, Based, IsBased, Song
  <2>5. CASE p = o /\ BeginSave(o)
    BY <2>5 DEF BeginSave, StillBased, End, Place, IsBased, disk, Song
  <2>6. CASE p = o /\ BeginWork(o)
    BY <2>6 DEF BeginWork, IsBased, disk, Song
  <2>7. CASE p = o /\ OpenEditor(o)
    BY <2>7 DEF OpenEditor
  <2>8. p \notin Packages /\ p \notin Deletions
    BY OpsAssumption DEF Workers, Writers
  <2> QED
    BY <1>1, <2>1, <2>2, <2>3, <2>4, <2>5, <2>6, <2>7, <2>8 DEF Acts
<1>2. CASE Crash
  BY <1>2, CrashEnds DEF Based, IsBased, Ended, Workers, Ops, Writers
<1>3. CASE Restart \/ Ready \/ \E e \in journal, kept \in BOOLEAN : RecoverEntry(e, kept)
  BY <1>3 DEF Based, IsBased, Restart, Ready, RecoverEntry, disk, Song
<1>4. CASE UNCHANGED vars
  BY <1>4 DEF vars, Based, IsBased, Song
<1> QED
  BY <1>1, <1>2, <1>3, <1>4, NextIsAnAct

\* An act removes no journal entry but its own.
LEMMA JournalKeeps ==
  ASSUME TypeOK, NEW o \in Ops, Acts(o)
  PROVE  /\ \A e \in journal : e.op # o => e \in journal'
         /\ ~Complete(o) => journal \subseteq journal'
<1>1. CASE ~Step(o)
  BY <1>1 DEF Acts, OpenEditor, BeginSave, BeginWork, Inspect, BeginPackage, BeginImport,
       BeginDelete, disk
<1>2. CASE Step(o)
  BY <1>2 DEF Step, StageGeneration, StageSave, StageMigration, StagePackage, Stage,
       NothingToMigrate, StageFails, PublishRevision, PublishFails, Commit, CommitFails,
       RemoveRevision, Activate, ActivateFails, Quarantine, QuarantineFails, DeleteRows,
       DeleteFails, FinalizeQuarantine, Complete, CompleteFails, disk
<1> QED
  BY <1>1, <1>2

\* Whoever has the song in the quarantine has an entry for it.
LEMMA MoversAreLogged ==
  ASSUME Kinds, Making, Logged, Standing, NEW p \in Ops, at[p] \in {"moved", "removed"}
  PROVE  \E e \in journal : e.op = p /\ (p \in Deletions \/ (p \in SongImports /\ ~Song))
<1>1. PICK e \in journal : e.op = p
  BY DEF Logged, IsLogged
<1>2. p \in Deletions \/ (p \in SongImports /\ ~Song)
  BY DEF Kinds, MayBe, Making, Made
<1> QED
  BY <1>1, <1>2

\* An act keeps to the quarantine its entry.
LEMMA TrashAct ==
  ASSUME TypeOK, Stopped, Kinds, Owners, Making, Logged, Standing, Quarantined,
         NEW o \in Ops, Acts(o)
  PROVE  Quarantined'
<1> USE DEF TypeOK, Goto
<1>0. Others(o) /\ process = "up"
  BY ActsAlone, ActsUp
<1>1. CASE Quarantine(o)
  <2>1. \E e \in journal : e.op = o /\ (o \in Deletions \/ (o \in SongImports /\ ~Song))
    <3>1. \E e \in journal : e.op = o
      <4>1. Entry(o).op = o
        BY DEF Entry
      <4> QED
        BY <1>1, <4>1 DEF Quarantine, Logged, IsLogged
    <3>2. o \in Deletions \/ (o \in SongImports /\ ~Song)
      BY <1>1 DEF Quarantine, Kinds, MayBe, Making, Made
    <3> QED
      BY <3>1, <3>2
  <2>2. at'[o] \in {"moved", "removed"} /\ journal' = journal /\ dirs' = Empty /\ active' = active
    BY <1>1 DEF Quarantine
  <2> QED
    BY <2>1, <2>2 DEF Quarantined, Song
<1>2. CASE DeleteFails(o) \/ FinalizeQuarantine(o)
  BY <1>2 DEF DeleteFails, FinalizeQuarantine, Quarantined
<1>3. CASE DeleteRows(o)
  <2>1. o \in Deletions /\ \E e \in journal : e.op = o
    BY <1>3 DEF DeleteRows, Kinds, MayBe, Logged, IsLogged
  <2>2. at'[o] = "removed" /\ journal' = journal /\ dirs' = dirs /\ trash' = trash
    BY <1>3 DEF DeleteRows
  <2> QED
    BY <2>1, <2>2 DEF Quarantined
<1>4. CASE ~(Quarantine(o) \/ DeleteFails(o) \/ FinalizeQuarantine(o) \/ DeleteRows(o))
  <2>1. trash' = trash
    <3>1. CASE Step(o)
      BY <1>4, <3>1 DEF Step, StageGeneration, StageSave, StageMigration, StagePackage, Stage,
           NothingToMigrate, StageFails, PublishRevision, PublishFails, Commit, CommitFails,
           RemoveRevision, Activate, ActivateFails, Quarantine, QuarantineFails, DeleteRows,
           DeleteFails, FinalizeQuarantine, Complete, CompleteFails, disk
    <3>2. CASE ~Step(o)
      BY <3>2 DEF Acts, OpenEditor, BeginSave, BeginWork, Inspect, BeginPackage, BeginImport,
           BeginDelete, disk
    <3> QED
      BY <3>1, <3>2
  <2> SUFFICES ASSUME trash # Empty PROVE Quarantined'
    BY <2>1 DEF Quarantined
  <2>2. PICK p \in Ops : at[p] \in {"moved", "removed"}
    BY <1>0 DEF Quarantined
  <2>3. p # o
    <3>1. CASE Step(o)
      BY <1>4, <2>2, <3>1 DEF Step, StageGeneration, StageSave, StageMigration, StagePackage,
           Stage, NothingToMigrate, StageFails, PublishRevision, PublishFails, Commit,
           CommitFails, RemoveRevision, Activate, ActivateFails, Quarantine, QuarantineFails,
           DeleteRows, DeleteFails, FinalizeQuarantine, Complete, CompleteFails
    <3>2. CASE ~Step(o)
      BY <2>2, <3>2 DEF Acts, OpenEditor, BeginSave, BeginWork, Inspect, BeginPackage,
           BeginImport, BeginDelete, Ended
    <3> QED
      BY <3>1, <3>2
  <2>4. Busy(p)
    BY <2>2 DEF Busy, Made, Holding, Places, Ended
  <2>5. UNCHANGED <<active, dirs>>
    BY <2>3, <2>4, Alone, OnlyBusyWrites
  <2>6. PICK e \in journal : e.op = p /\ (p \in Deletions \/ (p \in SongImports /\ ~Song))
    BY <2>2, MoversAreLogged
  <2>7. e \in journal'
    BY <2>3, <2>6, JournalKeeps
  <2>8. at'[p] = at[p]
    BY <1>0, <2>3 DEF Others
  <2> QED
    BY <2>1, <2>2, <2>5, <2>6, <2>7, <2>8 DEF Quarantined, Song
<1> QED
  BY <1>1, <1>2, <1>3, <1>4

\* An act keeps the active revision among the rows.
LEMMA SongRowsAct ==
  ASSUME TypeOK, Kinds, Drafts, Standing, SongRows, NEW o \in Ops, Acts(o)
  PROVE  SongRows'
<1>1. CASE Commit(o) \/ Activate(o)
  <2>1. draft[o].target \in Revisions /\ (Commit(o) => draft[o].content # Nothing)
    BY <1>1 DEF Commit, Activate, Drafts, HasDraft, Drafted, Kinds, MayBe
  <2>2. rows'[draft[o].target] # Nothing /\ active' = draft[o].target
    BY <1>1, <2>1 DEF Commit, Activate, Drafts, HasDraft, Standing, Stands, TypeOK, Tree
  <2> QED
    BY <2>1, <2>2, Numbers DEF SongRows, Song
<1>2. CASE DeleteRows(o)
  BY <1>2 DEF DeleteRows, SongRows, Song
<1>3. CASE ~(Commit(o) \/ Activate(o) \/ DeleteRows(o))
  <2>1. UNCHANGED <<active, rows>>
    <3>1. CASE Step(o)
      BY <1>3, <3>1 DEF Step, StageGeneration, StageSave, StageMigration, StagePackage, Stage,
           NothingToMigrate, StageFails, PublishRevision, PublishFails, Commit, CommitFails,
           RemoveRevision, Activate, ActivateFails, Quarantine, QuarantineFails, DeleteRows,
           DeleteFails, FinalizeQuarantine, Complete, CompleteFails, disk
    <3>2. CASE ~Step(o)
      BY <3>2 DEF Acts, OpenEditor, BeginSave, BeginWork, Inspect, BeginPackage, BeginImport,
           BeginDelete, disk
    <3> QED
      BY <3>1, <3>2
  <2> QED
    BY <2>1 DEF SongRows, Song
<1> QED
  BY <1>1, <1>2, <1>3

\* The entry of a half published revision stays while there is one.
LEMMA PendingKept ==
  ASSUME TypeOK, Kinds, Drafts, NEW o \in Ops, Acts(o), ~Complete(o), ~Commit(o),
         NEW r, Pending(r)
  PROVE  Pending(r)'
<1> USE DEF TypeOK, Goto
<1>1. PICK e \in journal : e.revision = r /\ e.op \in Writers
                          /\ (e.op \in SongImports => at[e.op] \notin {"done", "committed"})
  BY DEF Pending
<1>2. e \in journal'
  BY JournalKeeps
<1>3. CASE e.op # o
  <2>1. at'[e.op] = at[e.op]
    BY <1>3, ActsAlone DEF Others
  <2> QED
    BY <1>1, <1>2, <2>1 DEF Pending
<1>4. CASE e.op = o
  <2> SUFFICES ASSUME o \in SongImports PROVE at'[o] \notin {"done", "committed"}
    BY <1>1, <1>2, <1>4 DEF Pending
  <2>1. at[o] \notin {"done", "committed"}
    BY <1>1, <1>4
  <2>2. CASE Step(o)
    BY <2>1, <2>2, OpsAssumption DEF Drafts, HasDraft, Kinds, MayBe, Workers, Writers, Step,
         StageGeneration,
         StageSave, StageMigration, StagePackage, Stage, NothingToMigrate, StageFails,
         PublishRevision, PublishFails, Commit, CommitFails, RemoveRevision, Activate,
         ActivateFails, Quarantine, QuarantineFails, DeleteRows, DeleteFails,
         FinalizeQuarantine, Complete, CompleteFails, End, Place
  <2>3. CASE ~Step(o)
    BY <2>3, OpsAssumption DEF Acts, BeginImport, Writers
  <2> QED
    BY <2>2, <2>3
<1> QED
  BY <1>3, <1>4

\* An act that changes neither side of a revision keeps it on disk.
LEMMA QuietOnDisk ==
  ASSUME TypeOK, Stopped, Kinds, Drafts, NEW o \in Ops, Acts(o), ~Complete(o), ~Commit(o),
         NEW r \in Revisions, IsOnDisk(r), rows'[r] = rows[r], Disk(r)' = Disk(r)
  PROVE  IsOnDisk(r)'
  BY PendingKept, ActsUp, ActsAlone DEF IsOnDisk, Known, Away

\* The end of an operation removes its entry only when nothing is half done.
LEMMA CompleteOnDisk ==
  ASSUME TypeOK, Stopped, Kinds, Owners, Making, Entries, Drafts, Standing, Quarantined,
           SongRows,
         NEW o \in Ops, Complete(o), NEW r \in Revisions, IsOnDisk(r)
  PROVE  IsOnDisk(r)'
<1> USE DEF TypeOK, Goto
<1>1. Disk(r)' = Disk(r) /\ rows' = rows /\ journal' = {e \in journal : e.op # o}
  BY DEF Complete, Disk, Song
<1>0. process = "up" /\ returned' = returned
  BY ActsUp, ActsAlone DEF Acts, Step
<1> SUFFICES ASSUME Disk(r) # rows[r], Pending(r) PROVE Pending(r)'
  BY <1>0, <1>1 DEF IsOnDisk, Known, Away
<1>2. PICK e \in journal : /\ e.revision = r /\ e.op \in Writers
                           /\ (e.op \in SongImports => at[e.op] \notin {"done", "committed"})
  BY DEF Pending
<1>3. CASE e.op # o
  <2>1. at'[e.op] = at[e.op]
    BY <1>3 DEF Complete, End
  <2> QED
    BY <1>1, <1>2, <1>3, <2>1 DEF Pending
<1>4. CASE e.op = o
  <2>1. process = "up" /\ at[o] \in {"committed", "undone"}
    BY ActsUp DEF Complete, Acts, Step
  <2>2. CASE o \in SongImports
    <3>1. at[o] = "undone" /\ ~Song /\ dirs = Empty
      BY <1>2, <1>4, <2>1, <2>2 DEF Making, Made, Standing, Stands
    <3> QED
      BY <3>1 DEF Disk, SongRows
  <2>3. CASE o \notin SongImports
    <3>1. Busy(o) /\ at[o] \in Holding
      BY <2>1, <2>3 DEF Busy, Holding, Places, Ended
    <3>2. trash = Empty
      BY <2>1, <3>1, TrashIsEmpty
    <3>3. r = draft[o].target
      BY <1>2, <1>4, <3>1 DEF Entries, IsEntry
    <3>4. o \in Workers \cup Packages
      BY <1>2, <1>4, <2>3 DEF Writers, Workers
    <3>5. at[o] = "undone" => o \in Packages
      BY <1>2, <1>4, <2>3, OpsAssumption DEF Kinds, MayBe
    <3>6. CASE at[o] = "undone"
      BY <3>2, <3>3, <3>5, <3>6 DEF Standing, Stands, Disk
    <3>7. CASE at[o] = "committed"
      <4>1. rows[r] # Nothing
        BY <3>3, <3>4, <3>7 DEF Standing, Stands
      <4> QED
        BY <4>1 DEF IsOnDisk
    <3> QED
      BY <2>1, <3>6, <3>7
  <2> QED
    BY <2>2, <2>3
<1> QED
  BY <1>3, <1>4

\* A commit finds its directory published.
LEMMA CommitOnDisk ==
  ASSUME TypeOK, Stopped, Kinds, Owners, Making, Entries, Drafts, Standing, Quarantined,
           SongRows,
         NEW o \in Ops, Commit(o), NEW r \in Revisions, IsOnDisk(r)
  PROVE  IsOnDisk(r)'
<1> USE DEF TypeOK, Goto
<1>0. process = "up" /\ Busy(o) /\ at[o] = "published" /\ Acts(o)
  BY ActsUp DEF Commit, Acts, Step, Busy, Made, Holding, Places, Ended
<1>1. trash = Empty /\ trash' = Empty
  BY <1>0, TrashIsEmpty DEF Commit
<1>2. Disk(r) = dirs[r] /\ Disk(r)' = dirs[r]
  BY <1>1 DEF Disk, Commit
<1>3. draft[o].target \in Revisions /\ dirs[draft[o].target] = draft[o].content
  BY <1>0 DEF Drafts, HasDraft, Drafted, Standing, Stands
<1>4. CASE r = draft[o].target
  BY <1>2, <1>3, <1>4 DEF Commit, IsOnDisk, Tree
<1>5. CASE r # draft[o].target
  <2>1. rows'[r] = rows[r]
    BY <1>5 DEF Commit, Tree
  <2>6. returned' = returned
    BY <1>0, ActsAlone
  <2> SUFFICES ASSUME Disk(r) # rows[r], Pending(r) PROVE Pending(r)'
    BY <1>0, <1>2, <2>1, <2>6 DEF IsOnDisk, Known, Away
  <2>2. PICK e \in journal : /\ e.revision = r /\ e.op \in Writers
                             /\ (e.op \in SongImports => at[e.op] \notin {"done", "committed"})
    BY DEF Pending
  <2>3. e \in journal'
    BY DEF Commit
  <2>4. e.op # o
    BY <1>0, <1>5, <2>2, OpsAssumption DEF Entries, IsEntry, Holding, Places, Ended
  <2>5. at'[e.op] = at[e.op]
    BY <2>4 DEF Commit
  <2> QED
    BY <2>2, <2>3, <2>5 DEF Pending
<1> QED
  BY <1>4, <1>5

\* Every act keeps the revisions on disk.
LEMMA OnDiskAct ==
  ASSUME TypeOK, Stopped, Kinds, Owners, Making, Logged, Entries, Drafts, Standing, Quarantined,
           SongRows,
         OnDisk, NEW o \in Ops, Acts(o)
  PROVE  OnDisk'
<1> USE DEF TypeOK, Goto
<1>0. process = "up"
  BY ActsUp
<1> SUFFICES ASSUME NEW r \in Revisions PROVE IsOnDisk(r)'
  BY DEF OnDisk, IsOnDisk
<1>1. IsOnDisk(r)
  BY DEF OnDisk, IsOnDisk
<1>2. CASE Complete(o)
  BY <1>1, <1>2, CompleteOnDisk
<1>3. CASE Commit(o)
  BY <1>1, <1>3, CommitOnDisk
<1>4. ASSUME ~Complete(o), ~Commit(o), rows'[r] = rows[r], Disk(r)' = Disk(r) PROVE IsOnDisk(r)'
  BY <1>1, <1>4, QuietOnDisk
<1>5. CASE PublishRevision(o)
  <2>1. Busy(o) /\ at[o] = "staged"
    BY <1>5 DEF PublishRevision, Busy, Made, Holding, Places, Ended
  <2>2. trash = Empty
    BY <1>0, <2>1, TrashIsEmpty
  <2>3. draft[o].target \in Revisions
    BY <2>1 DEF Drafts, HasDraft, Drafted
  <2>4. rows' = rows /\ trash' = trash /\ active' = active /\ at[o] # "committed" /\ at'[o] = "published"
    BY <1>5, <2>1 DEF PublishRevision
  <2>5. CASE r # draft[o].target
    <3>1. dirs'[r] = dirs[r]
      BY <1>5, <2>5 DEF PublishRevision, Tree
    <3> QED
      BY <2>1, <2>2, <2>4, <3>1, <1>4 DEF Disk, Complete, Commit
  <2>6. CASE r = draft[o].target
    <3>1. rows[r] = Nothing
      BY <1>5, <2>2, <2>6, DiskIsDirs DEF PublishRevision
    <3>2. Entry(o) \in journal /\ Entry(o).op = o /\ Entry(o).revision = r
      BY <2>1, <2>6 DEF Logged, IsLogged, Entry
    <3>3. o \in Writers
      BY <2>1 DEF Kinds, MayBe
    <3>4. journal' = journal
      BY <1>5 DEF PublishRevision
    <3>5. Pending(r)'
      BY <2>4, <3>2, <3>3, <3>4 DEF Pending
    <3> QED
      BY <2>4, <3>1, <3>5 DEF IsOnDisk, Known
  <2> QED
    BY <2>5, <2>6
<1>6. CASE RemoveRevision(o)
  <2>1. Busy(o) /\ at[o] = "undoing"
    BY <1>6 DEF RemoveRevision, Busy, Made, Holding, Places, Ended
  <2>2. trash = Empty
    BY <1>0, <2>1, TrashIsEmpty
  <2>3. draft[o].target \in Revisions /\ rows[draft[o].target] = Nothing
    BY <2>1 DEF Drafts, HasDraft, Drafted, Standing, Stands
  <2>4. rows' = rows /\ trash' = trash /\ active' = active
    BY <1>6 DEF RemoveRevision
  <2>5. CASE r # draft[o].target
    <3>1. dirs'[r] = dirs[r]
      BY <1>6, <2>5 DEF RemoveRevision, Tree
    <3> QED
      BY <2>1, <2>2, <2>4, <3>1, <1>4 DEF Disk, Complete, Commit
  <2>6. CASE r = draft[o].target
    <3>1. dirs'[r] = Nothing
      BY <1>6, <2>6 DEF RemoveRevision, Tree
    <3> QED
      BY <2>2, <2>3, <2>4, <2>6, <3>1 DEF IsOnDisk, Disk
  <2> QED
    BY <2>5, <2>6
<1>7. CASE Activate(o)
  <2>1. at[o] = "activating" /\ Busy(o)
    BY <1>7 DEF Activate, Drafts, HasDraft, Busy, Made, Holding, Places, Ended
  <2>2. trash = Empty
    BY <1>0, <2>1, TrashIsEmpty
  <2> QED
    BY <1>4, <1>7, <2>1, <2>2 DEF Activate, Disk, Complete, Commit
<1>8. CASE Quarantine(o)
  <2>1. Disk(r) = dirs[r] /\ trash' = dirs /\ dirs' = Empty /\ active' = active /\ rows' = rows
    BY <1>8 DEF Quarantine, Disk
  <2>2. CASE Song
    <3>1. Disk(r)' = dirs[r]
      BY <2>1, <2>2 DEF Disk, Song
    <3> QED
      BY <1>4, <1>8, <2>1, <3>1 DEF Quarantine, Complete, Commit
  <2>3. CASE ~Song
    BY <2>1, <2>3 DEF IsOnDisk, Disk, SongRows, Song
  <2> QED
    BY <2>2, <2>3
<1>9. CASE DeleteRows(o)
  <2>1. dirs = Empty
    BY <1>9 DEF DeleteRows, Standing, Stands
  <2> QED
    BY <1>9, <2>1 DEF DeleteRows, IsOnDisk, Disk, Song
<1>10. CASE DeleteFails(o)
  <2>1. dirs = Empty /\ Song
    BY <1>10 DEF DeleteFails, Standing, Stands
  <2>2. Disk(r)' = trash[r] /\ rows' = rows
    BY <1>10 DEF DeleteFails, Disk
  <2>3. Disk(r) = trash[r]
    BY <2>1 DEF Disk
  <2> QED
    BY <1>4, <1>10, <2>2, <2>3 DEF DeleteFails, Complete, Commit
<1>11. CASE FinalizeQuarantine(o)
  <2>1. ~Song
    BY <1>11 DEF FinalizeQuarantine, Standing, Stands
  <2> QED
    BY <1>4, <1>11, <2>1 DEF FinalizeQuarantine, Disk, Song, Complete, Commit
<1>12. CASE ~(Complete(o) \/ Commit(o) \/ PublishRevision(o) \/ RemoveRevision(o) \/ Activate(o)
              \/ Quarantine(o) \/ DeleteRows(o) \/ DeleteFails(o) \/ FinalizeQuarantine(o))
  <2>1. UNCHANGED <<active, rows, dirs, trash>>
    <3>1. CASE Step(o)
      BY <1>12, <3>1 DEF Step, StageGeneration, StageSave, StageMigration, StagePackage, Stage,
           NothingToMigrate, StageFails, PublishRevision, PublishFails, Commit, CommitFails,
           RemoveRevision, Activate, ActivateFails, Quarantine, QuarantineFails, DeleteRows,
           DeleteFails, FinalizeQuarantine, Complete, CompleteFails, disk
    <3>2. CASE ~Step(o)
      BY <3>2 DEF Acts, OpenEditor, BeginSave, BeginWork, Inspect, BeginPackage, BeginImport,
           BeginDelete, disk
    <3> QED
      BY <3>1, <3>2
  <2> QED
    BY <1>4, <1>12, <2>1 DEF Disk, Song
<1> QED
  BY <1>2, <1>3, <1>5, <1>6, <1>7, <1>8, <1>9, <1>10, <1>11, <1>12

\* The recovery of an entry keeps to the quarantine its entry.
LEMMA RecoverTrash ==
  ASSUME TypeOK, Quarantined, NEW e \in journal, NEW kept \in BOOLEAN, RecoverEntry(e, kept)
  PROVE  Quarantined'
<1> SUFFICES ASSUME trash' # Empty PROVE Quarantined'
  BY DEF Quarantined
<1>1. process' # "up" /\ active' = active /\ journal \ {e} \subseteq journal'
  BY DEF RecoverEntry
<1>2. dirs' = Recovered(e)[1] /\ trash' = Recovered(e)[2]
  BY DEF RecoverEntry
<1>3. trash' = trash /\ trash # Empty /\ ~(e.op \in Deletions)
      /\ (e.op \in SongImports => Song)
  BY <1>2, OpsAssumption DEF Recovered, Writers
<1>4. PICK d \in journal : d.op \in Deletions \/ (d.op \in SongImports /\ ~Song)
  BY <1>3 DEF Quarantined
<1>5. d \in journal'
  BY <1>1, <1>3, <1>4
<1>6. dirs = Empty
  BY <1>3 DEF Quarantined
<1>7. [Empty EXCEPT ![e.revision] = Nothing] = Empty
  BY DEF Empty
<1>8. dirs' = Empty
  BY <1>2, <1>3, <1>6, <1>7 DEF Recovered
<1> QED
  BY <1>1, <1>4, <1>5, <1>8 DEF Quarantined, Song

\* The recovery of an entry keeps the revisions on disk: it removes an entry
\* only when it has undone what was half done.
LEMMA RecoverOnDisk ==
  ASSUME TypeOK, Stopped, Making, Entries, Quarantined, SongRows, OnDisk,
         NEW e \in journal, NEW kept \in BOOLEAN, RecoverEntry(e, kept)
  PROVE  OnDisk'
<1> USE DEF TypeOK
<1> SUFFICES ASSUME NEW r \in Revisions PROVE IsOnDisk(r)'
  BY DEF OnDisk, IsOnDisk
<1>0. IsOnDisk(r)
  BY DEF OnDisk, IsOnDisk
<1>1. /\ UNCHANGED <<active, rows, at>> /\ journal \ {e} \subseteq journal'
      /\ process = "recovering" /\ process' # "up" /\ returned \subseteq returned'
  BY DEF RecoverEntry
<1>2. dirs' = Recovered(e)[1] /\ trash' = Recovered(e)[2]
  BY DEF RecoverEntry
<1>3. ASSUME NEW d \in journal, d # e, d.revision = r, d.op \in Writers,
             d.op \in SongImports => at[d.op] \notin {"done", "committed"}
      PROVE  Pending(r)'
  BY <1>1, <1>3 DEF Pending
<1>4. CASE e.op \in SongImports
  <2>1. CASE Song
    <3>1. Disk(r)' = Disk(r)
      BY <1>1, <1>2, <1>4, <2>1 DEF Recovered, Disk, Song
    <3>2. at[e.op] \in {"done", "committed"}
      BY <1>4, <2>1 DEF Making, Made, Entries, IsEntry
    <3>3. Pending(r) => Pending(r)'
      BY <1>3, <1>4, <3>2 DEF Pending
    <3>4. trash' = trash
      <4>1. Recovered(e) = <<dirs, trash>>
        BY <1>4, <2>1, OpsAssumption DEF Recovered, Writers
      <4> QED
        BY <1>2, <4>1
    <3> QED
      BY <1>0, <1>1, <3>1, <3>3, <3>4 DEF IsOnDisk, Known, Away, Song
  <2>2. CASE ~Song
    <3>1. dirs' = Empty /\ rows' = Empty /\ ~Song'
      BY <1>1, <1>2, <1>4, <2>2, OpsAssumption DEF Recovered, SongRows, Song, Writers
    <3> QED
      BY <3>1 DEF IsOnDisk, Disk
  <2> QED
    BY <2>1, <2>2
<1>5. CASE e.op \in Deletions
  <2>1. Disk(r)' = Disk(r)
    <3>1. e.op \notin SongImports
      BY <1>5, OpsAssumption DEF Writers
    <3>2. CASE Song
      BY <1>1, <1>2, <1>5, <3>1, <3>2 DEF Recovered, Disk, Song
    <3>3. CASE ~Song
      BY <1>1, <1>2, <1>5, <3>1, <3>3 DEF Recovered, Disk, Song
    <3> QED
      BY <3>2, <3>3
  <2>2. Pending(r) => Pending(r)'
    BY <1>3, <1>5, OpsAssumption DEF Pending
  <2>3. CASE Away /\ rows[r] = Nothing /\ Disk(r) # rows[r]
    <3>1. e.op \notin SongImports /\ dirs' = trash
      BY <1>2, <1>5, <2>3, OpsAssumption DEF Recovered, Away, Writers
    <3>2. dirs[r] = Nothing /\ dirs'[r] # Nothing
      BY <2>3, <3>1 DEF Away, Disk, Quarantined, Empty
    <3> QED
      BY <1>1, <2>3, <3>2 DEF IsOnDisk, Known, RecoverEntry
  <2> QED
    BY <1>0, <1>1, <2>1, <2>2, <2>3 DEF IsOnDisk, Known
<1>6. CASE e.op \notin SongImports \cup Deletions
  <2>1. CASE Committed(e.revision)
    <3>1. Disk(r)' = Disk(r)
      BY <1>1, <1>2, <1>6, <2>1 DEF Recovered, Disk, Song
    <3>2. rows[r] = Nothing /\ Pending(r) => Pending(r)'
      BY <1>3, <2>1 DEF Pending, Committed
    <3>3. trash' = trash
      BY <1>2, <1>6, <2>1 DEF Recovered
    <3> QED
      BY <1>0, <1>1, <3>1, <3>2, <3>3 DEF IsOnDisk, Known, Away, Song
  <2>2. CASE ~Committed(e.revision)
    <3>1. dirs' = [dirs EXCEPT ![e.revision] = Nothing] /\ trash' = trash
      BY <1>2, <1>6, <2>2 DEF Recovered
    <3>2. e.revision = r => rows[r] = Nothing
      BY <2>2 DEF Committed, SongRows, Empty
    <3>3. CASE Song /\ trash # Empty
      <4>1. Disk(r)' = Disk(r)
        BY <1>1, <3>1, <3>3 DEF Disk, Song
      <4>2. Away'
        BY <1>1, <3>1, <3>3 DEF Away, Song
      <4> QED
        BY <1>0, <1>1, <4>1, <4>2 DEF IsOnDisk, Known
    <3>4. CASE ~(Song /\ trash # Empty)
      <4>1. Disk(r) = dirs[r] /\ Disk(r)' = dirs'[r]
        BY <1>1, <3>1, <3>4 DEF Disk, Song
      <4>2. CASE e.revision = r
        <5>1. dirs'[r] = Nothing
          BY <3>1, <4>2 DEF Tree
        <5> QED
          BY <1>1, <3>2, <4>1, <4>2, <5>1 DEF IsOnDisk
      <4>3. CASE e.revision # r
        <5>1. dirs'[r] = dirs[r]
          BY <3>1, <4>3 DEF Tree
        <5>2. Pending(r) => Pending(r)'
          BY <1>3, <4>3 DEF Pending
        <5> QED
          BY <1>0, <1>1, <3>4, <4>1, <5>1, <5>2 DEF IsOnDisk, Known, Away
      <4> QED
        BY <4>2, <4>3
    <3> QED
      BY <3>3, <3>4
  <2> QED
    BY <2>1, <2>2
<1> QED
  BY <1>4, <1>5, <1>6

\* Every step keeps quarantine, rows and disk.
LEMMA DiskStep ==
  ASSUME TypeOK, Stopped, Kinds, Owners, Making, Logged, Entries, Drafts, Standing, Quarantined,
           SongRows,
         OnDisk, [Next]_vars
  PROVE  Quarantined' /\ SongRows' /\ OnDisk'
<1>1. ASSUME NEW o \in Ops, Acts(o) PROVE Quarantined' /\ SongRows' /\ OnDisk'
  BY <1>1, TrashAct, SongRowsAct, OnDiskAct
<1>2. ASSUME NEW e \in journal, NEW kept \in BOOLEAN, RecoverEntry(e, kept)
      PROVE  Quarantined' /\ SongRows' /\ OnDisk'
  <2>1. SongRows'
    BY <1>2 DEF RecoverEntry, SongRows, Song
  <2> QED
    BY <1>2, <2>1, RecoverTrash, RecoverOnDisk
<1>3. CASE Crash
  <2>1. UNCHANGED disk /\ process' = "down"
    BY <1>3, CrashEnds
  <2>2. Quarantined' /\ SongRows'
    BY <2>1 DEF disk, Quarantined, SongRows, Song
  <2>3. ASSUME NEW r \in Revisions, IsOnDisk(r) PROVE IsOnDisk(r)'
    <3>1. rows' = rows /\ Disk(r)' = Disk(r) /\ journal' = journal
      BY <2>1 DEF disk, Disk, Song
    <3>2. Pending(r) => Pending(r)'
      BY <1>3, <3>1, CrashEnds DEF Pending, Entries, IsEntry, Ops, Writers, Ended
    <3> QED
      BY <1>3, <2>3, <3>1, <3>2 DEF IsOnDisk, Known, Away, Crash, disk, history, Song
  <2> QED
    BY <2>2, <2>3 DEF OnDisk, IsOnDisk
<1>4. CASE Ready
  BY <1>4 DEF Ready, disk, history, Quarantined, SongRows, Song, OnDisk, IsOnDisk, Disk, Known,
       Away, Pending
<1>5. CASE Restart
  BY <1>5 DEF Restart, disk, history, Quarantined, SongRows, Song, OnDisk, IsOnDisk, Disk, Known,
       Away, Pending
<1>6. CASE UNCHANGED vars
  BY <1>6 DEF vars, history, Quarantined, SongRows, Song, OnDisk, IsOnDisk, Disk, Known, Away,
       Pending
<1> QED
  BY <1>1, <1>2, <1>3, <1>4, <1>5, <1>6, NextIsAnAct

\* The inductive invariant holds at first.
LEMMA PublicationInit == Init => PublicationInv
<1> SUFFICES ASSUME Init PROVE PublicationInv
  OBVIOUS
<1>1. TypeOK
  BY TypeInit
<1>2. Stopped /\ Kinds /\ Owners /\ Making
  BY DEF Init, Stopped, Kinds, MayBe, Owners, Holding, Making, Made, Ended, Ops, Writers
<1>3. Logged /\ Entries /\ Drafts /\ Standing /\ Based
  BY DEF Init, Logged, IsLogged, Entries, Drafts, HasDraft, NoDraft, Standing, Stands, Based,
       IsBased,
     Workers, Ops, Writers
<1>4. Quarantined /\ OnDisk
  BY DEF Init, Quarantined, OnDisk, IsOnDisk, Disk
<1>5. SongRows
  <2>1. CASE active = 0
    BY <2>1 DEF Init, SongRows, Song
  <2>2. CASE active # 0
    <3>1. PICK l \in {"none", "baseline"}, old \in BOOLEAN :
                 active = 1 /\ rows = [Empty EXCEPT ![1] = [by |-> NoOp, lyrics |-> l, old |-> old]]
      BY <2>2 DEF Init
    <3>2. [by |-> NoOp, lyrics |-> l, old |-> old] \in Content
      BY DEF Content, Lyrics
    <3>3. rows[1] = [by |-> NoOp, lyrics |-> l, old |-> old]
      BY <3>1, Numbers DEF Empty
    <3> QED
      BY <3>1, <3>2, <3>3, ContentAssumption DEF SongRows, Song
  <2> QED
    BY <2>1, <2>2
<1> QED
  BY <1>1, <1>2, <1>3, <1>4, <1>5 DEF PublicationInv

\* The inductive invariant of the publication.
THEOREM PublicationInvariant == Spec => []PublicationInv
<1>1. ASSUME PublicationInv, [Next]_vars PROVE PublicationInv'
  <2> USE <1>1 DEF PublicationInv
  <2>1. TypeOK'
    BY AtType, DraftType, TreeTypes, JournalType, OtherTypes DEF TypeOK
  <2>2. Stopped' /\ Kinds'
    BY StoppedStep
  <2>3. Owners' /\ Making'
    BY OwnersStep, MakingStep
  <2>4. Logged' /\ Entries'
    BY <2>2, LoggedStep, EntriesStep
  <2>5. Drafts' /\ Standing' /\ Based'
    BY <2>2, DraftsStep, StandingStep, BasedStep
  <2>6. Quarantined' /\ SongRows' /\ OnDisk'
    BY DiskStep
  <2> QED
    BY <2>1, <2>2, <2>3, <2>4, <2>5, <2>6
<1> QED
  BY PublicationInit, <1>1, PTL DEF Spec

\* Every variable keeps its type: what is staged, committed, quarantined and
\* restored is always a revision of the song.
THEOREM PublicationTypeCorrect == Spec => []TypeOK
<1>1. PublicationInv => TypeOK
  BY DEF PublicationInv
<1> QED
  BY <1>1, PublicationInvariant, PTL

\* Every committed revision has its files, in the songs or in the quarantine, and
\* the active revision is one of the rows (publisher.py:131-145,
\* recover_transactions.py:47-78).
THEOREM CommittedStaysOnDisk == Spec => []CommittedIsOnDisk
<1>1. PublicationInv => CommittedIsOnDisk
  BY DEF PublicationInv, OnDisk, IsOnDisk, Disk, SongRows, CommittedIsOnDisk
<1> QED
  BY <1>1, PublicationInvariant, PTL

\* What a start that is ready to serve finds.
StartFinds ==
  /\ trash' = Empty
  /\ \A r \in Revisions : dirs'[r] # rows'[r] => rows'[r] = Nothing /\ r \in returned'

\* What the last step of the recovery finds.
LEMMA ReadyFinds ==
  ASSUME PublicationInv, process = "recovering", process' = "up", [Next]_vars
  PROVE  StartFinds
<1>1. Ready
  <2>1. ~\E o \in Ops : Acts(o)
    BY ActsUp DEF PublicationInv
  <2> QED
    BY <2>1, NextIsAnAct DEF Crash, Restart, RecoverEntry, vars
<1>2. journal = {} /\ UNCHANGED <<disk, returned>>
  BY <1>1 DEF Ready, history
<1>3. trash = Empty
  BY <1>2 DEF PublicationInv, Quarantined
<1>4. ASSUME NEW r \in Revisions PROVE dirs[r] # rows[r] => rows[r] = Nothing /\ r \in returned
  <2>1. Disk(r) = dirs[r] /\ ~Pending(r) /\ ~Away
    BY <1>2, <1>3 DEF Disk, Pending, Away
  <2> QED
    BY <2>1 DEF PublicationInv, OnDisk, IsOnDisk, Known
<1> QED
  BY <1>2, <1>3, <1>4 DEF StartFinds, disk

\* In whatever order the journal is read, a start that is ready to serve has the
\* files of every committed revision in the songs, nothing in the quarantine, and no
\* directory without a row but what it has put back with a song whose deletion was
\* cut short (startup_recovery.py:34-42, recovery_journal.py:44).
THEOREM StartRestores == Spec => StartRestoresOrder
<1>1. PublicationInv /\ [Next]_vars =>
        [process = "recovering" /\ process' = "up" =>
           /\ trash' = Empty
           /\ \A r \in Revisions : dirs'[r] # rows'[r] => rows'[r] = Nothing /\ r \in returned']_vars
  BY ReadyFinds DEF StartFinds
<1> QED
  BY <1>1, PublicationInvariant, PTL DEF Spec, StartRestoresOrder

--------------------------------------------------------------------------------
\* The map of the refinement.
Kept == [r \in Revisions |-> IF rows[r] = Nothing THEN Nothing
                            ELSE IF dirs[r] # Nothing THEN dirs[r] ELSE trash[r]]

\* What a reader of a committed revision finds is what was committed.
LEMMA KeptIsRows == PublicationInv => Kept = rows
<1> SUFFICES ASSUME PublicationInv PROVE Kept = rows
  OBVIOUS
<1>1. ASSUME NEW r \in Revisions, rows[r] # Nothing
      PROVE  (IF dirs[r] # Nothing THEN dirs[r] ELSE trash[r]) = rows[r]
  <2>1. CASE Song /\ trash # Empty
    <3>1. dirs[r] = Nothing /\ trash[r] = rows[r]
      BY <1>1, <2>1 DEF PublicationInv, Quarantined, OnDisk, IsOnDisk, Disk, Empty
    <3> QED
      BY <3>1
  <2>2. CASE ~(Song /\ trash # Empty)
    <3>1. dirs[r] = rows[r]
      BY <1>1, <2>2 DEF PublicationInv, OnDisk, IsOnDisk, Disk
    <3> QED
      BY <1>1, <3>1
  <2> QED
    BY <2>1, <2>2
<1> QED
  BY <1>1 DEF Kept, PublicationInv, TypeOK, Tree

\* And it stays so in the next state.
LEMMA KeptStaysRows == PublicationInv' => (Kept = rows)'
<1>1. PublicationInv => Kept = rows
  BY KeptIsRows
<1> QED
  BY <1>1, PTL

Seen == [o \in Saves |-> draft[o].base]

\* Both specifications speak of the same revisions.
LEMMA StoreContent == Store!Content = Content
  BY DEF Store!Content, Store!Authors, Store!Lyrics, Content, Lyrics, Ops, Writers

\* The steps of the store, of the variables of the project.
StorePublish(r) ==
  /\ rows[r] = Nothing
  /\ active' = r
  /\ \E c \in Content :
       /\ c.by \in Generations => active # 0 /\ rows[active].lyrics # "edited"
       /\ c.by \in Saves => active # 0 /\ Seen[c.by] = active
       /\ c.by \notin Packages => r > active
       /\ rows' = [rows EXCEPT ![r] = c]
  /\ Seen' = Seen
StoreReactivate(r) == rows[r] # Nothing /\ active' = r /\ rows' = rows /\ Seen' = Seen
StoreOpen(o, r) == r \in {0, active} /\ Seen' = [Seen EXCEPT ![o] = r] /\ active' = active /\ rows' = rows
StoreForget == /\ \E lost \in SUBSET Saves : Seen' = [o \in Saves |-> IF o \in lost THEN 0 ELSE Seen[o]]
               /\ active' = active /\ rows' = rows
StoreDelete == active # 0 /\ active' = 0 /\ rows' = Empty /\ Seen' = Seen
StoreStep == \/ \E r \in Revisions : StorePublish(r) \/ StoreReactivate(r)
             \/ \E o \in Saves, r \in 0..MaxRevision : StoreOpen(o, r)
             \/ StoreForget
             \/ StoreDelete
             \/ active' = active /\ rows' = rows /\ Seen' = Seen

\* These steps are the steps of the store.
LEMMA StoreMaps ==
  ASSUME PublicationInv, PublicationInv', StoreStep
  PROVE  [Store!Next]_Store!store
<1>1. Kept = rows
  BY KeptIsRows
<1>2. Kept' = rows'
  BY KeptStaysRows
<1>3. Store!Empty = Empty /\ Store!Revisions = Revisions
  BY DEF Store!Empty, Empty, Store!Revisions, Revisions
<1>4. ASSUME NEW r \in Revisions, StorePublish(r) PROVE Store!Publish(r)
  BY <1>1, <1>2, <1>4, StoreContent DEF StorePublish, Store!Publish, Store!MayReplace, Kept,
       Seen
<1>5. ASSUME NEW r \in Revisions, StoreReactivate(r) PROVE Store!Reactivate(r)
  BY <1>1, <1>2, <1>5 DEF StoreReactivate, Store!Reactivate, Kept, Seen
<1>6. ASSUME NEW o \in Saves, NEW r \in 0..MaxRevision, StoreOpen(o, r) PROVE Store!Open(o, r)
  BY <1>1, <1>2, <1>6 DEF StoreOpen, Store!Open, Kept, Seen
<1>7. StoreForget => Store!Forget
  BY <1>1, <1>2 DEF StoreForget, Store!Forget, Kept, Seen
<1>8. StoreDelete => Store!Delete
  BY <1>1, <1>2, <1>3 DEF StoreDelete, Store!Delete, Kept, Seen
<1>9. active' = active /\ rows' = rows /\ Seen' = Seen => UNCHANGED Store!store
  BY <1>1, <1>2 DEF Store!store, Kept, Seen
<1> QED
  BY <1>3, <1>4, <1>5, <1>6, <1>7, <1>8, <1>9 DEF StoreStep, Store!Next

\* What an act does to the revision a client has seen.
LEMMA SeenAct ==
  ASSUME PublicationInv, NEW o \in Ops, Acts(o)
  PROVE  /\ o \notin Saves => Seen' = Seen
         /\ o \in Saves => Seen' = [Seen EXCEPT ![o] = draft'[o].base]
         /\ o \in Saves => draft'[o].base \in {draft[o].base, 0} \/ OpenEditor(o)
<1> USE DEF PublicationInv, Seen
<1>1. Others(o) /\ Saves \subseteq Ops
  BY ActsAlone DEF Ops, Writers
<1>2. o \notin Saves => Seen' = Seen
  BY <1>1 DEF Others
<1>3. o \in Saves => Seen' = [Seen EXCEPT ![o] = draft'[o].base]
  BY <1>1 DEF Others
<1>4. ASSUME o \in Saves PROVE draft'[o].base \in {draft[o].base, 0} \/ OpenEditor(o)
  <2>1. CASE IsStaging(o)
    <3>1. PICK r \in Revisions, c \in Content : Stage(o, r, c)
      BY <2>1, Stages DEF IsStaging
    <3> QED
      BY <3>1, Staging, Numbers
  <2>2. CASE Step(o) /\ ~IsStaging(o)
    BY <2>2, StepDrafts DEF KeepsDraft, NoDraft
  <2>3. CASE BeginSave(o)
    BY <2>3 DEF BeginSave, End, NoDraft, TypeOK
  <2> QED
    BY <1>4, <2>1, <2>2, <2>3, OpsAssumption DEF Acts, Writers
<1> QED
  BY <1>2, <1>3, <1>4

\* Every act is a step of the store.
LEMMA ActsStore ==
  ASSUME PublicationInv, NEW o \in Ops, Acts(o)
  PROVE  StoreStep
<1> USE DEF PublicationInv
<1>1. CASE Commit(o)
  <2>1. at[o] = "published" /\ draft' = draft /\ Seen' = Seen
    BY <1>1 DEF Commit, Seen
  <2>2. draft[o].target \in Revisions /\ draft[o].content \in Content
    <3>1. draft[o] \in Draft
      BY DEF TypeOK
    <3> QED
      BY <2>1, <3>1 DEF Drafts, HasDraft, Drafted, Draft
  <2>3. o \in Writers
    BY <2>1 DEF Kinds, MayBe
  <2>4. draft[o].content.by = o
    BY <2>1 DEF Drafts, HasDraft
  <2>5. o \in Generations => active # 0 /\ rows[active].lyrics # "edited"
    BY <2>1 DEF Based, IsBased, Workers, Song
  <2>6. o \in Saves => active # 0 /\ Seen[o] = active
    BY <2>1 DEF Based, IsBased, Workers, Song, Seen
  <2>7. o \notin Packages => draft[o].target > active
    <3>1. CASE o \in SongImports
      <4>1. active = 0 /\ draft[o].target = 1
        BY <2>1, <3>1, OpsAssumption DEF Making, Made, Song, Drafts, HasDraft
      <4> QED
        BY <4>1
    <3>2. CASE o \in Workers
      BY <2>1, <3>2 DEF Based, IsBased
    <3> QED
      BY <2>3, <3>1, <3>2 DEF Writers, Workers
  <2>8. StorePublish(draft[o].target)
    BY <1>1, <2>1, <2>2, <2>4, <2>5, <2>6, <2>7 DEF StorePublish, Commit
  <2> QED
    BY <2>2, <2>8 DEF StoreStep
<1>2. CASE Activate(o)
  <2>1. at[o] = "activating" /\ o \in Packages
    BY <1>2 DEF Activate, Drafts, HasDraft, Kinds, MayBe
  <2>2. draft[o].target \in Revisions /\ rows[draft[o].target] # Nothing
    BY <2>1 DEF Drafts, HasDraft, Drafted, Standing, Stands
  <2>3. Seen' = Seen
    BY <2>1, SeenAct, OpsAssumption
  <2> QED
    BY <1>2, <2>2, <2>3 DEF Activate, StoreReactivate, StoreStep
<1>3. CASE DeleteRows(o)
  BY <1>3 DEF DeleteRows, Standing, Stands, Song, Seen, StoreDelete, StoreStep
<1>4. CASE ~(Commit(o) \/ Activate(o) \/ DeleteRows(o))
  <2>1. UNCHANGED <<active, rows>>
    <3>1. CASE Step(o)
      BY <1>4, <3>1 DEF Step, StageGeneration, StageSave, StageMigration, StagePackage, Stage,
           NothingToMigrate, StageFails, PublishRevision, PublishFails, Commit, CommitFails,
           RemoveRevision, Activate, ActivateFails, Quarantine, QuarantineFails, DeleteRows,
           DeleteFails, FinalizeQuarantine, Complete, CompleteFails, disk
    <3>2. CASE ~Step(o)
      BY <3>2 DEF Acts, OpenEditor, BeginSave, BeginWork, Inspect, BeginPackage, BeginImport,
           BeginDelete, disk
    <3> QED
      BY <3>1, <3>2
  <2>2. CASE o \notin Saves
    BY <2>1, <2>2, SeenAct DEF StoreStep
  <2>3. CASE o \in Saves
    <3>1. Seen' = [Seen EXCEPT ![o] = draft'[o].base]
      BY <2>3, SeenAct
    <3>2. CASE draft'[o].base = draft[o].base
      <4>1. Seen' = Seen
        BY <2>3, <3>1, <3>2 DEF Seen
      <4> QED
        BY <2>1, <4>1 DEF StoreStep
    <3>3. CASE draft'[o].base = 0
      BY <2>1, <2>3, <3>1, <3>3, Numbers DEF StoreStep, StoreOpen
    <3>4. CASE OpenEditor(o)
      <4>1. draft[o] \in Draft /\ draft'[o] = [draft[o] EXCEPT !.base = active]
        BY <3>4 DEF OpenEditor, TypeOK
      <4>2. draft'[o].base = active
        BY <4>1 DEF Draft
      <4> QED
        BY <2>1, <2>3, <3>1, <4>2 DEF StoreStep, StoreOpen, TypeOK
    <3> QED
      BY <2>3, <3>2, <3>3, <3>4, SeenAct
  <2> QED
    BY <2>2, <2>3
<1> QED
  BY <1>1, <1>2, <1>3, <1>4

\* So is every step of the program.
LEMMA NextStore ==
  ASSUME PublicationInv, [Next]_vars
  PROVE  StoreStep
<1>1. CASE Crash
  <2>1. active' = active /\ rows' = rows
    BY <1>1 DEF Crash, disk
  <2>2. Seen' = [o \in Saves |-> IF o \in {s \in Saves : at[s] # "open"} THEN 0 ELSE Seen[o]]
    BY <1>1 DEF Crash, Seen, NoDraft, Ops, Writers
  <2> QED
    BY <2>1, <2>2 DEF StoreStep, StoreForget
<1>2. CASE Restart \/ Ready \/ \E e \in journal, kept \in BOOLEAN : RecoverEntry(e, kept)
  BY <1>2 DEF StoreStep, Seen, Restart, Ready, RecoverEntry, disk
<1>3. CASE UNCHANGED vars
  BY <1>3 DEF StoreStep, Seen, vars
<1> QED
  BY <1>1, <1>2, <1>3, ActsStore, NextIsAnAct

\* The first states are first states of the store.
LEMMA StoreBegins == Init => Store!Init
<1> SUFFICES ASSUME Init PROVE Store!Init
  OBVIOUS
<1>1. Kept = rows
  BY PublicationInit, KeptIsRows
<1>2. Seen = [o \in Saves |-> 0]
  BY DEF Init, Seen, NoDraft, Ops, Writers
<1>3. Store!Empty = Empty
  BY DEF Store!Empty, Empty, Store!Revisions, Revisions
<1>4. CASE active = 0 /\ rows = Empty
  BY <1>1, <1>2, <1>3, <1>4 DEF Store!Init, Kept, Seen
<1>5. CASE active = 1 /\ \E l \in {"none", "baseline"}, old \in BOOLEAN :
                  rows = [Empty EXCEPT ![1] = [by |-> NoOp, lyrics |-> l, old |-> old]]
  <2>1. \E c \in Content : rows = [Empty EXCEPT ![1] = c]
    BY <1>5 DEF Content, Lyrics
  <2> QED
    BY <1>1, <1>2, <1>3, <1>5, <2>1, StoreContent DEF Store!Init, Kept, Seen
<1> QED
  BY <1>4, <1>5 DEF Init

\* The library implements RevisionStore: committed revisions never change, edited
\* lyrics are not replaced by generated ones, and a save replaces only what its
\* client saw, whatever fails or crashes (publisher.py:131-145).
THEOREM LibraryKeepsItsPromises == Spec => KeepsItsPromises
<1>1. PublicationInv /\ PublicationInv' /\ [Next]_vars => [Store!Next]_Store!store
  BY NextStore, StoreMaps
<1> QED
  BY <1>1, StoreBegins, PublicationInvariant, PTL DEF Spec, KeepsItsPromises, Store!Spec

--------------------------------------------------------------------------------
(* Consent: a package decides from what it saw before its claim.  Works that   *)
(* commit meanwhile do not get past its number; only another package does.     *)

\* Between the base of a work and the number it takes there is no free one.
IsFilled(o) ==
  at[o] \in {"staged", "published"} =>
    \A q \in Revisions : draft[o].base < q /\ q < draft[o].target => dirs[q] # Nothing
Filled == \A o \in Workers : IsFilled(o)

\* Another package has published under that number, and may still take it back.
Revocable(r) == \E q \in Packages : at[q] \in {"published", "undoing"} /\ draft[q].target = r

\* A package taken without consent that no other package has overtaken is newer, or
\* its number is taken for good and it fails.
Asked(o) == draft[o].accepted \/ draft[o].same \/ o \in overtaken
IsNewer(o) == ~Asked(o) =>
  /\ at[o] = "inspected" =>
       \/ draft[o].target > active
       \/ dirs[draft[o].target] # Nothing /\ ~Revocable(draft[o].target)
  /\ at[o] \in {"claimed", "staged"} => draft[o].target > active \/ dirs[draft[o].target] # Nothing
  /\ at[o] = "published" => draft[o].target > active
Newer == \A o \in Packages : IsNewer(o)

\* Only a publication leads to the place behind it.
LEMMA PublishedBy ==
  ASSUME NEW o \in Ops, TypeOK, Step(o), ~IsStaging(o), at'[o] \in {"staged", "published"}
  PROVE  PublishRevision(o)
<1>1. at[o] = "staged" /\ at'[o] = "published"
  BY StepPlaces DEF Ended
<1>2. PublishRevision(o) \/ PublishFails(o)
  BY <1>1 DEF Step, IsStaging, StageGeneration, StageSave, StageMigration, StagePackage,
       NothingToMigrate, StageFails, Commit, CommitFails, RemoveRevision, Activate, ActivateFails,
       Quarantine, QuarantineFails, DeleteRows, DeleteFails, FinalizeQuarantine, Complete,
       CompleteFails
<1>3. ~PublishFails(o)
  BY <1>1 DEF PublishFails, Goto, End, Place, TypeOK
<1> QED
  BY <1>2, <1>3

\* What a publication does to the directories.
LEMMA Publishing ==
  ASSUME TypeOK, NEW o \in Ops, PublishRevision(o)
  PROVE  /\ at[o] = "staged" /\ at'[o] = "published" /\ draft' = draft /\ active' = active
         /\ dirs[draft[o].target] = Nothing
         /\ \A r \in Revisions : r # draft[o].target => dirs'[r] = dirs[r]
BY DEF PublishRevision, Goto, TypeOK, Tree

\* What is staged keeps its base.
LEMMA StageTakes ==
  ASSUME TypeOK, NEW o \in Ops, NEW r, NEW c, Stage(o, r, c)
  PROVE  /\ draft'[o].target = r /\ draft'[o].base = draft[o].base
         /\ draft'[o].same = draft[o].same /\ draft'[o].accepted = draft[o].accepted
         /\ at[o] = "claimed" /\ at'[o] = "staged" /\ UNCHANGED <<active, dirs>>
<1>1. draft[o] \in Draft
  BY DEF TypeOK
<1>2. draft'[o] = [draft[o] EXCEPT !.target = r, !.content = c]
  BY DEF Stage, TypeOK
<1>3. at[o] = "claimed" /\ at'[o] = "staged" /\ UNCHANGED <<active, dirs>>
  BY DEF Stage, Goto, TypeOK
<1> QED
  BY <1>1, <1>2, <1>3 DEF Draft

\* Works skip no free number.
LEMMA FilledStep ==
  ASSUME PublicationInv, Filled, [Next]_vars
  PROVE  Filled'
<1> USE DEF PublicationInv
<1>0. \A w \in Workers : w \in Ops /\ w \notin SongImports
  BY OpsAssumption DEF Workers, Ops, Writers
<1>1. ASSUME NEW o \in Ops, Acts(o) PROVE Filled'
  <2> SUFFICES ASSUME NEW w \in Workers, at'[w] \in {"staged", "published"} PROVE IsFilled(w)'
    BY DEF Filled, IsFilled
  <2>1. w \in Ops /\ w \notin SongImports /\ Others(o)
    BY <1>0, <1>1, ActsAlone
  <2>2. CASE w # o
    <3>1. at'[w] = at[w] /\ draft'[w] = draft[w]
      BY <2>1, <2>2 DEF Others
    <3>2. Busy(w)
      BY <2>1, <3>1 DEF Busy, Holding, Places, Ended
    <3>3. dirs' = dirs
      BY <1>1, <2>1, <2>2, <3>2, Alone, OnlyBusyWrites
    <3> QED
      BY <3>1, <3>3 DEF Filled, IsFilled
  <2>3. CASE w = o /\ IsStaging(o)
    <3>1. PICK r \in Revisions : /\ \E c : Stage(o, r, c)
                                 /\ NextFree(r, draft[o].base) \/ r = draft[o].base + 1
      BY <2>3, OpsAssumption
         DEF IsStaging, StageGeneration, StageSave, StageMigration, StagePackage, Workers
    <3>2. draft'[o].target = r /\ draft'[o].base = draft[o].base /\ dirs' = dirs
      BY <3>1, StageTakes
    <3>3. draft[o].base \in Nat
      BY DEF TypeOK, Draft
    <3>4. ASSUME NEW q \in Revisions, draft[o].base < q, q < r PROVE dirs[q] # Nothing
      <4>1. r # draft[o].base + 1
        BY <3>3, <3>4 DEF Revisions
      <4> QED
        BY <3>1, <3>4, <4>1 DEF NextFree
    <3> QED
      BY <2>3, <3>2, <3>4 DEF IsFilled
  <2>4. CASE w = o /\ Step(o) /\ ~IsStaging(o)
    <3>1. /\ at[o] = "staged" /\ draft' = draft
          /\ \A r \in Revisions : r # draft[o].target => dirs'[r] = dirs[r]
      BY <2>4, PublishedBy, Publishing
    <3>2. ASSUME NEW q \in Revisions, q < draft[o].target PROVE q # draft[o].target
      BY <3>2 DEF Revisions
    <3> QED
      BY <2>4, <3>1, <3>2 DEF Filled, IsFilled
  <2>5. CASE w = o /\ ~Step(o)
    <3>1. o \notin Packages /\ o \notin Deletions /\ o \notin SongImports
      BY <2>5, OpsAssumption DEF Workers, Writers
    <3>2. at'[o] \notin {"staged", "published"}
      BY <1>1, <2>5, <3>1 DEF Acts, OpenEditor, BeginSave, BeginWork, Goto, End, Place, TypeOK
    <3> QED
      BY <2>5, <3>2
  <2> QED
    BY <2>2, <2>3, <2>4, <2>5
<1>2. CASE Crash
  <2>1. \A w \in Workers : at'[w] \notin {"staged", "published"}
    BY <1>0, <1>2, CrashEnds DEF Ended
  <2> QED
    BY <2>1 DEF Filled, IsFilled
<1>3. ASSUME process # "up", UNCHANGED <<at, draft>> PROVE Filled'
  <2>1. \A w \in Workers : at[w] \notin {"staged", "published"}
    BY <1>0, <1>3 DEF Stopped, Ended
  <2> QED
    BY <1>3, <2>1 DEF Filled, IsFilled
<1>4. CASE Restart \/ Ready \/ \E e \in journal, kept \in BOOLEAN : RecoverEntry(e, kept)
  BY <1>3, <1>4 DEF Restart, Ready, RecoverEntry
<1>5. CASE UNCHANGED vars
  BY <1>5 DEF vars, Filled, IsFilled
<1> QED
  BY <1>1, <1>2, <1>4, <1>5, NextIsAnAct

\* A work moves the active revision when it commits, and removes no directory.
LEMMA WorkKeeps ==
  ASSUME PublicationInv, NEW o \in Workers, Acts(o)
  PROVE  \/ Commit(o)
         \/ active' = active /\ \A r \in Revisions : dirs[r] # Nothing => dirs'[r] # Nothing
<1> USE DEF PublicationInv
<1>1. o \in Ops /\ o \notin Packages /\ o \notin Deletions /\ o \notin SongImports
  BY OpsAssumption DEF Workers, Ops, Writers
<1>2. at[o] \notin {"undoing", "activating", "cleaning", "deleting", "moved", "removed"}
  BY <1>1, OpsAssumption DEF Kinds, MayBe
<1>3. CASE ~Step(o)
  BY <1>1, <1>3 DEF Acts, OpenEditor, BeginSave, BeginWork, disk
<1>4. CASE PublishRevision(o)
  <2>1. /\ active' = active /\ dirs[draft[o].target] = Nothing
        /\ \A r \in Revisions : r # draft[o].target => dirs'[r] = dirs[r]
    BY <1>1, <1>4, Publishing
  <2> QED
    BY <2>1
<1>5. CASE Activate(o)
  BY <1>1, <1>2, <1>5 DEF Activate, Drafts, HasDraft
<1>6. CASE Step(o) /\ ~PublishRevision(o) /\ ~Activate(o) /\ ~Commit(o)
  <2>1. ~(RemoveRevision(o) \/ Quarantine(o) \/ DeleteRows(o) \/ DeleteFails(o)
            \/ FinalizeQuarantine(o))
    BY <1>2 DEF RemoveRevision, Quarantine, DeleteRows, DeleteFails, FinalizeQuarantine
  <2>2. CASE IsStaging(o)
    <3>1. \E r, c : Stage(o, r, c)
      BY <2>2 DEF IsStaging, StageGeneration, StageSave, StageMigration, StagePackage
    <3> QED
      BY <1>1, <3>1, StageTakes
  <2>3. CASE ~IsStaging(o)
    <3>1. \/ NothingToMigrate(o) \/ StageFails(o) \/ PublishFails(o) \/ CommitFails(o)
          \/ ActivateFails(o) \/ QuarantineFails(o) \/ Complete(o) \/ CompleteFails(o)
      BY <1>6, <2>1, <2>3 DEF Step, IsStaging
    <3> QED
      BY <3>1 DEF NothingToMigrate, StageFails, PublishFails, CommitFails, ActivateFails,
           QuarantineFails, Complete, CompleteFails, disk
  <2> QED
    BY <2>2, <2>3
<1> QED
  BY <1>3, <1>4, <1>5, <1>6

\* A work that commits stays behind a package that waits, or takes its number.
LEMMA WorkStaysBehind ==
  ASSUME PublicationInv, Filled, NEW o \in Workers, Commit(o), NEW r \in Revisions,
         r > active \/ dirs[r] # Nothing
  PROVE  r > active' \/ dirs'[r] # Nothing
<1> USE DEF PublicationInv
<1>1. o \in Ops
  BY DEF Workers, Ops, Writers
<1>2. at[o] = "published" /\ active' = draft[o].target /\ dirs' = dirs
  BY DEF Commit
<1>3. /\ draft[o].base = active /\ draft[o].target \in Revisions
      /\ dirs[draft[o].target] # Nothing
  BY <1>1, <1>2 DEF Based, IsBased, Drafts, HasDraft, Drafted, Standing, Stands
<1>4. \A q \in Revisions : active < q /\ q < draft[o].target => dirs[q] # Nothing
  BY <1>2, <1>3 DEF Filled, IsFilled
<1>5. CASE dirs[r] # Nothing
  BY <1>2, <1>5
<1>6. CASE dirs[r] = Nothing
  <2>1. r > active
    BY <1>6
  <2>2. active \in Nat /\ r \in Nat /\ draft[o].target \in Nat
    BY <1>3 DEF TypeOK, Revisions
  <2>3. r # draft[o].target /\ ~(active < r /\ r < draft[o].target)
    BY <1>3, <1>4, <1>6
  <2>4. r > draft[o].target
    BY <2>1, <2>2, <2>3
  <2> QED
    BY <1>2, <2>4
<1> QED
  BY <1>5, <1>6

\* Who has been overtaken stays so.
LEMMA OvertakenStays ==
  ASSUME NEW o \in Ops, Acts(o)
  PROVE  overtaken \subseteq overtaken'
<1>1. CASE Step(o)
  BY <1>1 DEF Step, StageGeneration, StageSave, StageMigration, StagePackage, Stage,
       NothingToMigrate, StageFails, PublishRevision, PublishFails, Commit, CommitFails,
       RemoveRevision, Activate, ActivateFails, Quarantine, QuarantineFails, DeleteRows,
       DeleteFails, FinalizeQuarantine, Complete, CompleteFails, Overtake, history
<1>2. CASE ~Step(o)
  BY <1>2 DEF Acts, OpenEditor, BeginSave, BeginWork, Inspect, BeginPackage, BeginImport,
       BeginDelete, history
<1> QED
  BY <1>1, <1>2

\* Only a publication, or one that fails, is published or taken back afterwards.
LEMMA RevocableBy ==
  ASSUME PublicationInv, NEW o \in Packages, Acts(o), at'[o] \in {"published", "undoing"}
  PROVE  \/ PublishRevision(o)
         \/ at[o] = "published" /\ draft'[o] = draft[o] /\ UNCHANGED <<active, dirs>>
<1> USE DEF PublicationInv
<1>1. /\ o \in Ops /\ o \notin SongImports /\ o \notin Deletions /\ o \notin Saves
      /\ o \notin Generations /\ o \notin Migrations
  BY OpsAssumption DEF Ops, Writers
<1>2. Step(o)
  <2> SUFFICES ASSUME ~Step(o) PROVE FALSE
    OBVIOUS
  <2>1. Inspect(o) \/ BeginPackage(o)
    BY <1>1 DEF Acts
  <2> QED
    BY <1>1, <2>1 DEF Inspect, BeginPackage, Goto, End, Place, TypeOK
<1>3. ~IsStaging(o)
  <2>1. ASSUME NEW r, NEW c, Stage(o, r, c) PROVE FALSE
    BY <1>1, <2>1, StageTakes
  <2> QED
    BY <2>1 DEF IsStaging, StageGeneration, StageSave, StageMigration, StagePackage
<1>4. CASE at'[o] = "published"
  BY <1>1, <1>2, <1>3, <1>4, PublishedBy
<1>5. CASE at'[o] = "undoing"
  <2>1. at[o] = "published"
    BY <1>1, <1>2, <1>3, <1>5, StepPlaces DEF Ended
  <2>2. CommitFails(o)
    BY <1>1, <1>2, <1>3, <1>5, <2>1 DEF Goto, TypeOK, Drafts, HasDraft, Step, IsStaging,
         NothingToMigrate, StageFails, PublishRevision, PublishFails, Commit, Activate, ActivateFails,
         RemoveRevision, Quarantine, QuarantineFails, DeleteRows, DeleteFails, FinalizeQuarantine,
         Complete, CompleteFails
  <2>3. UNCHANGED draft
    BY <1>1, <1>5, <2>2 DEF CommitFails, End, Place, TypeOK
  <2> QED
    BY <2>1, <2>2, <2>3 DEF CommitFails, disk
<1> QED
  BY <1>4, <1>5

\* What a package does to the active revision and the directories.
LEMMA PackageKeeps ==
  ASSUME PublicationInv, NEW o \in Packages, Acts(o)
  PROVE  Commit(o) \/ Activate(o) \/ PublishRevision(o) \/ RemoveRevision(o)
           \/ UNCHANGED <<active, dirs>>
<1> USE DEF PublicationInv
<1>1. /\ o \in Ops /\ o \notin SongImports /\ o \notin Deletions /\ o \notin Saves
      /\ o \notin Generations /\ o \notin Migrations
  BY OpsAssumption DEF Ops, Writers
<1>2. at[o] \notin {"cleaning", "deleting", "moved", "removed"}
  BY <1>1 DEF Kinds, MayBe
<1>3. CASE ~Step(o)
  BY <1>1, <1>3 DEF Acts, Inspect, BeginPackage, disk
<1>4. CASE IsStaging(o)
  <2>1. \E r, c : Stage(o, r, c)
    BY <1>4 DEF IsStaging, StageGeneration, StageSave, StageMigration, StagePackage
  <2> QED
    BY <1>1, <2>1, StageTakes
<1>5. CASE Step(o) /\ ~IsStaging(o)
  BY <1>2, <1>5 DEF Step, IsStaging, NothingToMigrate, StageFails, PublishFails, CommitFails,
       ActivateFails, Quarantine, QuarantineFails, DeleteRows, DeleteFails, FinalizeQuarantine,
       Complete, CompleteFails, disk
<1> QED
  BY <1>3, <1>4, <1>5

\* What a work does to a package that waits: it stays behind it.
LEMMA NewerBesidesWork ==
  ASSUME PublicationInv, Filled, NEW o \in Workers, Acts(o), Busy(o),
         NEW p \in Packages, at[p] = "inspected", IsNewer(p), ~Asked(p)
  PROVE  \/ draft[p].target > active'
         \/ dirs'[draft[p].target] # Nothing /\ ~Revocable(draft[p].target)'
<1> USE DEF PublicationInv
<1>1. o \in Ops /\ p \in Ops /\ Others(o)
  BY ActsAlone DEF Workers, Ops, Writers
<1>2. draft[p].target \in Revisions
  BY <1>1 DEF Drafts, HasDraft, Drafted
<1>3. draft[p].target > active' \/ dirs'[draft[p].target] # Nothing
  <2>1. CASE Commit(o)
    BY <1>2, <2>1, WorkStaysBehind DEF IsNewer
  <2>2. CASE ~Commit(o)
    BY <1>2, <2>2, WorkKeeps DEF IsNewer
  <2> QED
    BY <2>1, <2>2
<1>4. ASSUME NEW q \in Packages, at'[q] \in {"published", "undoing"} PROVE FALSE
  <2>1. q \in Ops /\ q # o /\ q \notin SongImports
    BY OpsAssumption DEF Workers, Ops, Writers
  <2>2. at[q] = at'[q]
    BY <1>1, <2>1 DEF Others
  <2>3. Busy(q)
    BY <1>4, <2>1, <2>2 DEF Busy, Holding, Places, Ended
  <2> QED
    BY <1>1, <2>1, <2>3, Alone
<1> QED
  BY <1>3, <1>4 DEF Revocable

\* What another package does to a package that waits: it overtakes it, or takes
\* its number.
LEMMA NewerBesidesPackage ==
  ASSUME PublicationInv, NEW o \in Packages, Acts(o),
         NEW p \in Packages, p # o, at[p] = "inspected", IsNewer(p), ~Asked(p)
  PROVE  \/ p \in overtaken'
         \/ draft[p].target > active'
         \/ dirs'[draft[p].target] # Nothing /\ ~Revocable(draft[p].target)'
<1> USE DEF PublicationInv
<1>1. o \in Ops /\ p \in Ops /\ Others(o)
  BY ActsAlone DEF Ops, Writers
<1>2. draft[p].target \in Revisions /\ draft[o] \in Draft
  BY <1>1 DEF Drafts, HasDraft, Drafted, TypeOK
<1> DEFINE t == draft[p].target
<1>3. t > active \/ (dirs[t] # Nothing /\ ~Revocable(t))
  BY DEF IsNewer
<1>4. CASE Commit(o) \/ Activate(o)
  BY <1>4 DEF Commit, Activate, Overtake
<1>5. CASE PublishRevision(o)
  <2>1. /\ active' = active /\ dirs[draft[o].target] = Nothing /\ draft' = draft
        /\ \A r \in Revisions : r # draft[o].target => dirs'[r] = dirs[r]
    BY <1>1, <1>5, Publishing
  <2>2. CASE t = draft[o].target
    BY <1>3, <2>1, <2>2
  <2>3. CASE t # draft[o].target
    <3>1. ~Revocable(t) => ~Revocable(t)'
      BY <1>1, <2>1, <2>3 DEF Revocable, Others, Ops, Writers
    <3> QED
      BY <1>2, <1>3, <2>1, <2>3, <3>1
  <2> QED
    BY <2>2, <2>3
<1>6. CASE RemoveRevision(o)
  <2>1. at[o] = "undoing" /\ active' = active /\ dirs' = [dirs EXCEPT ![draft[o].target] = Nothing]
        /\ at'[o] = "undone" /\ draft' = draft
    BY <1>1, <1>6 DEF RemoveRevision, Goto, TypeOK
  <2>2. CASE t = draft[o].target
    BY <1>3, <2>1, <2>2 DEF Revocable
  <2>3. CASE t # draft[o].target
    <3>1. dirs'[t] = dirs[t]
      BY <1>2, <2>1, <2>3 DEF TypeOK, Tree
    <3>2. ~Revocable(t) => ~Revocable(t)'
      BY <1>1, <2>1 DEF Revocable, Others, Ops, Writers
    <3> QED
      BY <1>3, <2>1, <3>1, <3>2
  <2> QED
    BY <2>2, <2>3
<1>7. CASE UNCHANGED <<active, dirs>> /\ ~PublishRevision(o)
  <2>1. ~Revocable(t) => ~Revocable(t)'
    <3>1. at'[o] \in {"published", "undoing"} => at[o] = "published" /\ draft'[o] = draft[o]
      BY <1>7, RevocableBy
    <3> QED
      BY <1>1, <3>1 DEF Revocable, Others, Ops, Writers
  <2> QED
    BY <1>3, <1>7, <2>1
<1> QED
  BY <1>4, <1>5, <1>6, <1>7, PackageKeeps

\* What another operation does to a package that waits.
LEMMA NewerBesides ==
  ASSUME PublicationInv, Filled, NEW o \in Ops, Acts(o), NEW p \in Packages, p # o, IsNewer(p)
  PROVE  IsNewer(p)'
<1> USE DEF PublicationInv
<1>1. p \in Ops /\ p \notin SongImports /\ p \notin Deletions /\ Others(o)
  BY ActsAlone, OpsAssumption DEF Ops, Writers
<1>2. at'[p] = at[p] /\ draft'[p] = draft[p]
  BY <1>1 DEF Others
<1>3. Asked(p) => Asked(p)'
  BY <1>2, OvertakenStays DEF Asked
<1>4. CASE at[p] \in {"claimed", "staged", "published"}
  <2>1. Busy(p)
    BY <1>1, <1>4 DEF Busy, Holding, Places, Ended
  <2>2. UNCHANGED <<active, dirs>>
    BY <1>1, <2>1, Alone, OnlyBusyWrites
  <2> QED
    BY <1>2, <1>3, <1>4, <2>2 DEF IsNewer
<1>5. CASE at[p] = "inspected"
  <2> SUFFICES ASSUME ~Asked(p)'
               PROVE  \/ draft[p].target > active'
                      \/ dirs'[draft[p].target] # Nothing /\ ~Revocable(draft[p].target)'
    BY <1>2, <1>5 DEF IsNewer, Revocable
  <2>1. ~Asked(p) /\ p \notin overtaken'
    BY <1>3 DEF Asked
  <2>2. CASE o \in Packages
    BY <1>5, <2>1, <2>2, NewerBesidesPackage
  <2>3. CASE o \notin Packages /\ ~Busy(o)
    <3>1. UNCHANGED <<active, dirs>>
      BY <2>3, OnlyBusyWrites
    <3>2. ~Revocable(draft[p].target) => ~Revocable(draft[p].target)'
      BY <1>1, <2>3 DEF Revocable, Others, Ops, Writers
    <3> QED
      BY <1>5, <2>1, <3>1, <3>2 DEF IsNewer
  <2>4. CASE o \notin Packages /\ Busy(o)
    <3>1. o \notin SongImports
      BY <1>1, <1>5, <2>4 DEF Making, Busy
    <3>2. o \notin Deletions
      BY <1>1, <1>5, <2>4, <3>1 DEF Standing, Stands, Busy, Holding
    <3>3. o \in Workers
      BY <2>4, <3>1, <3>2 DEF Ops, Writers, Workers
    <3> QED
      BY <1>5, <2>1, <2>4, <3>3, NewerBesidesWork
  <2> QED
    BY <2>2, <2>3, <2>4
<1>6. CASE at[p] \notin {"inspected", "claimed", "staged", "published"}
  BY <1>2, <1>6 DEF IsNewer
<1> QED
  BY <1>4, <1>5, <1>6

\* What a package does itself.
LEMMA NewerByItself ==
  ASSUME PublicationInv, NEW o \in Packages, Acts(o), IsNewer(o)
  PROVE  IsNewer(o)'
<1> USE DEF PublicationInv
<1>0. overtaken \subseteq overtaken'
  BY OvertakenStays DEF Ops, Writers
<1>1. /\ o \in Ops /\ o \notin SongImports /\ o \notin Deletions /\ o \notin Saves
      /\ o \notin Generations /\ o \notin Migrations
  BY OpsAssumption DEF Ops, Writers
<1>2. CASE Inspect(o)
  <2>1. CASE at'[o] \in Ended
    BY <2>1 DEF IsNewer, Ended
  <2>2. CASE at'[o] \notin Ended
    <3>0. ~End(o, "failed")
      BY <1>1, <2>2 DEF End, Goto, Place, Ended, TypeOK
    <3>1. PICK p \in Archived(o), accepted \in BOOLEAN :
            /\ ~(NeedsConsent(Conflict(p)) /\ ~accepted)
            /\ Goto(o, "inspected")
            /\ draft' = [draft EXCEPT ![o] =
                           [base |-> 0, target |-> p.revision,
                            content |-> [p.content EXCEPT !.old = FALSE],
                            same |-> Conflict(p) = "SameRevision", accepted |-> accepted]]
      BY <1>2, <3>0 DEF Inspect
    <3>2. /\ at'[o] = "inspected" /\ draft'[o].target = p.revision
          /\ draft'[o].same = (Conflict(p) = "SameRevision") /\ draft'[o].accepted = accepted
      BY <1>1, <3>1 DEF Goto, TypeOK
    <3>3. active' = active /\ dirs' = dirs
      BY <1>2 DEF Inspect, disk
    <3>4. p.revision \in Revisions
      BY DEF Archived
    <3>5. ASSUME ~accepted, Conflict(p) # "SameRevision" PROVE p.revision > active
      <4>1. Conflict(p) \in {"None", "NewerRevision"}
        BY <3>1, <3>5 DEF Conflict, NeedsConsent
      <4>2. ~Song \/ p.revision > active
        BY <4>1 DEF Conflict
      <4>3. active \in Nat /\ p.revision \in Nat /\ p.revision > 0
        BY <3>4 DEF TypeOK, Revisions
      <4> QED
        BY <4>2, <4>3 DEF Song
    <3> QED
      BY <3>2, <3>3, <3>5 DEF IsNewer, Asked
  <2> QED
    BY <2>1, <2>2
<1>3. CASE BeginPackage(o)
  <2>1. \/ at'[o] = "done"
        \/ /\ at[o] = "inspected" /\ UNCHANGED <<active, dirs, draft>>
           /\ at'[o] \in {"activating", "claimed"}
    BY <1>1, <1>3 DEF BeginPackage, Goto, disk, TypeOK, End, Place
  <2> QED
    BY <1>0, <2>1 DEF IsNewer, Asked
<1>4. CASE IsStaging(o)
  <2>1. StagePackage(o)
    BY <1>1, <1>4 DEF IsStaging, StageGeneration, StageSave, StageMigration
  <2>2. Stage(o, draft[o].target, draft[o].content)
    BY <2>1 DEF StagePackage
  <2>3. /\ draft'[o].target = draft[o].target /\ draft'[o].same = draft[o].same
        /\ draft'[o].accepted = draft[o].accepted
        /\ at[o] = "claimed" /\ at'[o] = "staged" /\ UNCHANGED <<active, dirs>>
    BY <1>1, <2>2, StageTakes
  <2> QED
    BY <1>0, <2>3 DEF IsNewer, Asked
<1>5. CASE Step(o) /\ ~IsStaging(o)
  <2>1. CASE at'[o] = "published"
    <3>1. /\ at[o] = "staged" /\ draft' = draft /\ active' = active
          /\ dirs[draft[o].target] = Nothing
      BY <1>1, <1>5, <2>1, PublishedBy, Publishing
    <3> QED
      BY <1>0, <2>1, <3>1 DEF IsNewer, Asked
  <2>2. CASE at'[o] # "published"
    <3>1. at'[o] \notin {"inspected", "claimed", "staged"}
      <4>1. CASE at'[o] \in Ended
        BY <4>1 DEF Ended
      <4>2. CASE at'[o] \notin Ended
        BY <1>1, <1>5, <4>2, StepPlaces
      <4> QED
        BY <4>1, <4>2
    <3> QED
      BY <2>2, <3>1 DEF IsNewer
  <2> QED
    BY <2>1, <2>2
<1> QED
  BY <1>1, <1>2, <1>3, <1>4, <1>5 DEF Acts

\* Packages without consent stay newer, or fail.
LEMMA NewerStep ==
  ASSUME PublicationInv, Filled, Newer, [Next]_vars
  PROVE  Newer'
<1>0. \A p \in Packages : p \in Ops
  BY DEF Ops, Writers
<1>1. ASSUME NEW o \in Ops, Acts(o) PROVE Newer'
  <2> SUFFICES ASSUME NEW p \in Packages PROVE IsNewer(p)'
    BY DEF Newer
  <2>1. IsNewer(p)
    BY DEF Newer
  <2>2. CASE p # o
    BY <1>1, <2>1, <2>2, NewerBesides
  <2>3. CASE p = o
    BY <1>1, <2>1, <2>3, NewerByItself
  <2> QED
    BY <2>2, <2>3
<1>2. CASE Crash
  <2>1. \A p \in Packages : at'[p] \in Ended \cup {"open"}
    BY <1>0, <1>2, CrashEnds DEF PublicationInv
  <2> QED
    BY <2>1 DEF Newer, IsNewer, Ended
<1>3. ASSUME process # "up", UNCHANGED <<at, draft>> PROVE Newer'
  <2>1. \A p \in Packages : at[p] \in Ended \cup {"open"}
    BY <1>0, <1>3 DEF PublicationInv, Stopped
  <2> QED
    BY <1>3, <2>1 DEF Newer, IsNewer, Ended
<1>4. CASE Restart \/ Ready \/ \E e \in journal, kept \in BOOLEAN : RecoverEntry(e, kept)
  BY <1>3, <1>4 DEF Restart, Ready, RecoverEntry
<1>5. CASE UNCHANGED vars
  BY <1>5 DEF vars, history, Newer, IsNewer, Asked, Revocable
<1> QED
  BY <1>1, <1>2, <1>4, <1>5, NextIsAnAct

\* The step of a package that puts an older revision in the place of a newer one.
LEMMA PutsBackAsked ==
  ASSUME PublicationInv, Newer, [Next]_vars, NEW p \in Packages, PutsBack(p)
  PROVE  Asked(p)
<1> USE DEF PublicationInv, PutsBack
<1>1. p \in Ops /\ active \in Nat
  BY DEF Ops, Writers, TypeOK
<1>2. Acts(p)
  <2>1. PICK o \in Ops : Acts(o)
    BY <1>1, NextIsAnAct DEF Crash, Restart, Ready, RecoverEntry, vars, disk
  <2> QED
    BY <1>1, <2>1, ActsAlone DEF Others
<1>3. CASE Commit(p)
  BY <1>1, <1>3 DEF Commit, Newer, IsNewer, TypeOK, Draft
<1>4. CASE Activate(p)
  BY <1>4 DEF Activate, Asked
<1>5. CASE ~Commit(p) /\ ~Activate(p)
  <2>1. active' = active
    BY <1>2, <1>5, PackageKeeps DEF PublishRevision, RemoveRevision
  <2> QED
    BY <1>1, <2>1
<1> QED
  BY <1>3, <1>4, <1>5

\* A package puts an older revision in the place of a newer one only with consent, or
\* with a revision the library has, or when another package has overtaken it,
\* whatever generations, saves and migrations publish between the decision and the
\* claim (greenfield-spec.md:1853; import_package.py:49-66).
THEOREM PackagesNeedConsent == Spec => OlderNeedsConsent
<1>1. Init => Filled /\ Newer
  BY DEF Init, Filled, IsFilled, Newer, IsNewer, Workers, Ops, Writers
<1>2. PublicationInv /\ Filled /\ Newer /\ [Next]_vars => Filled' /\ Newer'
  BY FilledStep, NewerStep
<1>3. PublicationInv /\ Newer /\ [Next]_vars =>
        [\A o \in Packages :
           PutsBack(o) => draft[o].accepted \/ draft[o].same \/ o \in overtaken]_vars
  BY PutsBackAsked DEF Asked
<1> QED
  BY <1>1, <1>2, <1>3, PublicationInvariant, PTL DEF Spec, OlderNeedsConsent
================================================================================
