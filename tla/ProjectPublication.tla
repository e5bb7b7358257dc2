--------------------------- MODULE ProjectPublication ---------------------------
(***************************************************************************)
(* The revisions of one song between the database, the directories of the  *)
(* song, the quarantine and the recovery journal: publication of generated *)
(* revisions, saves of the editor, migration, import of packages, import   *)
(* and deletion of the song, a crash between any two steps, and the        *)
(* recovery at the next start.  Songs share nothing here: the registry of  *)
(* operations, the directories and the rows are kept by song.              *)
(***************************************************************************)
EXTENDS Naturals

CONSTANTS
  Generations, Saves, Migrations, Packages, SongImports, Deletions,
  MaxRevision, \* bound of the revision numbers
  MaxCrashes,  \* bound of the crashes
  NoOp,        \* no operation; as an author: an earlier version of the program
  Nothing      \* no row, no directory

Writers == Generations \cup Saves \cup Migrations \cup Packages \cup SongImports
Ops == Writers \cup Deletions

ASSUME OpsAssumption ==
  /\ NoOp \notin Ops
  /\ Generations \cap (Saves \cup Migrations \cup Packages \cup SongImports) = {}
  /\ Saves \cap (Migrations \cup Packages \cup SongImports) = {}
  /\ Migrations \cap (Packages \cup SongImports) = {}
  /\ Packages \cap SongImports = {}
  /\ Writers \cap Deletions = {}
ASSUME BoundsAssumption == MaxRevision \in Nat \ {0} /\ MaxCrashes \in Nat

VARIABLES
  active,  \* songs.active_revision, 0 while there is no row of the song
  rows,    \* project_revisions: the content the fingerprint stands for
  dirs,    \* songs/<id>/revisions
  trash,   \* quarantine/song-<id>, Empty when there is none
  journal, \* the entries of the recovery journal
  owner,   \* SongOperationRegistry._active of the song
  at,      \* where each operation is
  draft,   \* its locals
  process, \* "up", "down", or in the start-up recovery
  crashes,
  overtaken, \* history: the packages that were inspected and not yet at work
             \* when another package made its revision active
  returned   \* history: the revisions without a row that a recovery has put
             \* back among the songs

disk == <<active, rows, dirs, trash, journal>>
history == <<overtaken, returned>>
vars == <<active, rows, dirs, trash, journal, owner, at, draft, process, crashes, history>>

Revisions == 1..MaxRevision
Lyrics == {"none", "baseline", "edited"}
Content == [by : Ops \cup {NoOp}, lyrics : Lyrics, old : BOOLEAN]
ASSUME ContentAssumption == Nothing \notin Content
Tree == [Revisions -> Content \cup {Nothing}]
Empty == [r \in Revisions |-> Nothing]

\* base: the revision the work starts from.  target, content: what it will publish.
\* same: the inspection found the revision of the package in the library.
Draft == [base : 0..MaxRevision, target : 0..MaxRevision,
          content : Content \cup {Nothing}, same : BOOLEAN, accepted : BOOLEAN]
NoDraft == [base |-> 0, target |-> 0, content |-> Nothing, same |-> FALSE, accepted |-> FALSE]

Ended == {"idle", "done", "failed"}
Places == Ended \cup {"open", "inspected", "claimed", "staged", "published", "committed",
                     "activating", "undoing", "undone", "cleaning", "deleting", "moved", "removed"}
Song == active # 0

Init == /\ \/ active = 0 /\ rows = Empty
           \/ /\ active = 1
              /\ \E l \in {"none", "baseline"}, old \in BOOLEAN :
                   rows = [Empty EXCEPT ![1] = [by |-> NoOp, lyrics |-> l, old |-> old]]
        /\ dirs = rows
        /\ trash = Empty
        /\ journal = {}
        /\ owner = NoOp
        /\ at = [o \in Ops |-> "idle"]
        /\ draft = [o \in Ops |-> NoDraft]
        /\ process = "up"
        /\ crashes = 0
        /\ overtaken = {} /\ returned = {}

Goto(o, place) == at' = [at EXCEPT ![o] = place]

\* The operation returns or raises: what it claimed is released.  Only of the
\* import of a song it matters later which, because nobody has the id it made.
Place(o, result) == IF o \in SongImports THEN result ELSE "done"
End(o, result) == /\ Goto(o, Place(o, result))
                  /\ owner' = IF owner = o THEN NoOp ELSE owner
                  /\ draft' = [draft EXCEPT ![o] = NoDraft]

Claim(o) == owner = NoOp /\ owner' = o

--------------------------------------------------------------------------------
(* The operations up to the point where they have something to publish. *)

\* The client reads the document of the active revision.
OpenEditor(o) ==
  /\ process = "up" /\ at[o] = "idle"
  /\ Song /\ dirs[active] # Nothing /\ dirs[active].lyrics # "none"
  /\ Goto(o, "open")
  /\ draft' = [draft EXCEPT ![o].base = active]
  /\ UNCHANGED <<disk, owner, process, crashes, history>>

StillBased(o) == active = draft[o].base /\ rows[active] # Nothing

BeginSave(o) ==
  /\ process = "up" /\ at[o] = "open"
  /\ \/ Claim(o) /\ Song /\ StillBased(o) /\ Goto(o, "claimed") /\ UNCHANGED draft
     \/ owner = NoOp /\ ~(Song /\ StillBased(o)) /\ End(o, "failed")
  /\ UNCHANGED <<disk, process, crashes, history>>

\* Generations and migrations start from the revision that is active once they
\* have the claim.
BeginWork(o) ==
  /\ process = "up" /\ at[o] = "idle" /\ Song
  /\ Claim(o)
  /\ Goto(o, "claimed")
  /\ draft' = [draft EXCEPT ![o].base = active]
  /\ UNCHANGED <<disk, process, crashes, history>>

\* What a package may hold: a revision exported here, or one made elsewhere.
Archived(o) ==
  {[revision |-> r, content |-> rows[r]] : r \in {q \in Revisions : rows[q] # Nothing}}
    \cup [revision : Revisions,
          content : [by : {o}, lyrics : {"baseline", "edited"}, old : BOOLEAN]]

Conflict(p) ==
  CASE rows[p.revision] = p.content -> "SameRevision"
    [] rows[p.revision] \notin {p.content, Nothing} -> "DivergentRevision"
    [] rows[p.revision] = Nothing /\ ~Song -> "None"
    [] rows[p.revision] = Nothing /\ Song /\ p.revision > active -> "NewerRevision"
    [] rows[p.revision] = Nothing /\ Song /\ p.revision < active -> "OlderRevision"
    [] OTHER -> "DivergentRevision"

\* Mutant: an older package is taken like a newer one.
DivergentOnly(conflict) == conflict = "DivergentRevision"
NeedsConsent(conflict) == conflict \in {"OlderRevision", "DivergentRevision"}

\* A song in the making is known to nobody but its import.
IdKnown == Song \/ \A i \in SongImports : at[i] \in {"idle", "done"}

\* The package is inspected before the claim; accepted is the user's decision
\* to take what conflicts.
Inspect(o) ==
  /\ process = "up" /\ at[o] = "idle" /\ IdKnown
  /\ \A d \in Deletions : at[d] \in Ended
  /\ \E p \in Archived(o), accepted \in BOOLEAN :
       IF NeedsConsent(Conflict(p)) /\ ~accepted
       THEN End(o, "failed")
       ELSE /\ Goto(o, "inspected")
            /\ draft' = [draft EXCEPT ![o] =
                           [base |-> 0, target |-> p.revision,
                            content |-> [p.content EXCEPT !.old = FALSE],
                            same |-> Conflict(p) = "SameRevision", accepted |-> accepted]]
            /\ UNCHANGED owner
  /\ UNCHANGED <<disk, process, crashes, history>>

BeginPackage(o) ==
  /\ at[o] = "inspected"
  /\ \/ /\ Claim(o)
        /\ Goto(o, IF draft[o].same /\ dirs[draft[o].target] # Nothing THEN "activating"
                                                                    ELSE "claimed")
        /\ UNCHANGED draft
     \/ owner # NoOp /\ End(o, "failed")
  /\ UNCHANGED <<disk, process, crashes, history>>

\* The import of a file makes a new id, which only its journal entry knows.
BeginImport(o) ==
  /\ process = "up" /\ ~Song
  /\ \A p \in Ops : at[p] = "idle"
  /\ Goto(o, "staged")
  /\ draft' = [draft EXCEPT ![o] = [NoDraft EXCEPT !.target = 1,
                            !.content = [by |-> o, lyrics |-> "none", old |-> FALSE]]]
  /\ journal' = journal \cup {[op |-> o, revision |-> 1]}
  /\ UNCHANGED <<active, rows, dirs, trash, owner, process, crashes, history>>

\* The manager runs a deletion only while no package job is active.
BeginDelete(o) ==
  /\ process = "up" /\ at[o] = "idle" /\ Song
  /\ \A p \in Packages : at[p] \in Ended
  /\ Claim(o)
  /\ Goto(o, "deleting")
  /\ journal' = journal \cup {[op |-> o, revision |-> 0]}
  /\ UNCHANGED <<active, rows, dirs, trash, draft, process, crashes, history>>

--------------------------------------------------------------------------------
(* Staging: a complete revision in a temporary directory, then its journal *)
(* entry.  A failure so far leaves nothing behind.                         *)

NextFree(r, from) == /\ r > from /\ dirs[r] = Nothing
                     /\ \A q \in Revisions : from < q /\ q < r => dirs[q] # Nothing

Stage(o, r, c) ==
  /\ at[o] = "claimed"
  /\ Goto(o, "staged")
  /\ draft' = [draft EXCEPT ![o] = [@ EXCEPT !.target = r, !.content = c]]
  /\ journal' = journal \cup {[op |-> o, revision |-> r]}
  /\ UNCHANGED <<active, rows, dirs, trash, owner, process, crashes, history>>

Base(o) == dirs[draft[o].base]

\* Mutant: the lyrics are replaced whoever wrote them.
AnyLyrics(o) == TRUE
Unedited(o) == Base(o).lyrics # "edited"

\* publish_generated refuses edited lyrics and takes the next free number.
StageGeneration(o) ==
  \E r \in Revisions :
    /\ o \in Generations
    /\ at[o] = "claimed" /\ Base(o) # Nothing /\ Unedited(o)
    /\ NextFree(r, draft[o].base)
    /\ Stage(o, r, [by |-> o, lyrics |-> "baseline", old |-> FALSE])

\* The editor and the migration take the number after their base, free or not;
\* a document equal to the baseline is a reset.
StageSave(o) ==
  \E r \in Revisions, l \in {"baseline", "edited"} :
    /\ o \in Saves
    /\ at[o] = "claimed" /\ Base(o) # Nothing /\ Base(o).lyrics # "none" /\ ~Base(o).old
    /\ r = draft[o].base + 1
    /\ Stage(o, r, [by |-> o, lyrics |-> l, old |-> FALSE])

StageMigration(o) ==
  \E r \in Revisions :
    /\ o \in Migrations
    /\ at[o] = "claimed" /\ Base(o) # Nothing /\ Base(o).lyrics # "none" /\ Base(o).old
    /\ r = draft[o].base + 1
    /\ Stage(o, r, [by |-> o, lyrics |-> Base(o).lyrics, old |-> FALSE])

\* A project that is current is not migrated.
NothingToMigrate(o) ==
  /\ o \in Migrations
  /\ at[o] = "claimed" /\ Base(o) # Nothing /\ ~Base(o).old
  /\ End(o, "done")
  /\ UNCHANGED <<disk, process, crashes, history>>

\* A package is validated as a finished project.
StagePackage(o) ==
  /\ o \in Packages
  /\ at[o] = "claimed"
  /\ draft[o].content.lyrics # "none"
  /\ Stage(o, draft[o].target, draft[o].content)

\* Mutant: whoever fails keeps the song.
StageFailsHolding(o) ==
  /\ at[o] = "claimed"
  /\ Goto(o, "done")
  /\ UNCHANGED <<disk, owner, draft, process, crashes, history>>
StageFails(o) ==
  /\ at[o] = "claimed"
  /\ End(o, "failed")
  /\ UNCHANGED <<disk, process, crashes, history>>

--------------------------------------------------------------------------------
(* Publication: the directory is renamed into place, then the rows commit. *)

\* All but packages and new songs check again that their base is active.
PublishRevision(o) ==
  /\ at[o] = "staged"
  /\ o \notin Packages \cup SongImports => active = draft[o].base
  /\ dirs[draft[o].target] = Nothing
  /\ dirs' = [dirs EXCEPT ![draft[o].target] = draft[o].content]
  /\ Goto(o, "published")
  /\ UNCHANGED <<active, rows, trash, journal, owner, draft, process, crashes, history>>

\* Another revision is active, the number is taken or the disk fails.  Only the
\* import of a song cleans up after itself.
PublishFails(o) ==
  /\ at[o] = "staged"
  /\ \/ End(o, "failed")
     \/ o \in SongImports /\ Goto(o, "cleaning") /\ UNCHANGED <<owner, draft>>
  /\ UNCHANGED <<disk, process, crashes, history>>

\* History: the decision about these packages was made for another revision.
Overtake(o) == overtaken' = IF o \in Packages
                            THEN overtaken \cup {p \in Packages : at[p] = "inspected"}
                            ELSE overtaken

Commit(o) ==
  /\ at[o] = "published" /\ ~draft[o].same
  /\ rows[draft[o].target] = Nothing
  /\ active' = draft[o].target
  /\ rows' = [rows EXCEPT ![draft[o].target] = draft[o].content]
  /\ Goto(o, "committed")
  /\ Overtake(o)
  /\ UNCHANGED <<dirs, trash, journal, owner, draft, process, crashes, returned>>

\* The revision of the package is in the library: it becomes the active one.
Activate(o) ==
  /\ at[o] \in {"activating", "published"} /\ draft[o].same
  /\ active' = draft[o].target
  /\ IF at[o] = "published" THEN Goto(o, "committed") /\ UNCHANGED <<owner, draft>>
                            ELSE End(o, "done")
  /\ Overtake(o)
  /\ UNCHANGED <<rows, dirs, trash, journal, process, crashes, returned>>

ActivateFails(o) ==
  /\ at[o] = "activating"
  /\ End(o, "failed")
  /\ UNCHANGED <<disk, process, crashes, history>>

\* The import of a package and of a song undo what they did; the others leave
\* directory and entry to the next start.
CommitFails(o) ==
  /\ at[o] = "published"
  /\ \/ o \in Packages /\ Goto(o, "undoing") /\ UNCHANGED <<owner, draft>>
     \/ o \in SongImports /\ Goto(o, "cleaning") /\ UNCHANGED <<owner, draft>>
     \/ o \notin Packages /\ End(o, "failed")
  /\ UNCHANGED <<disk, process, crashes, history>>

RemoveRevision(o) ==
  /\ at[o] = "undoing"
  /\ dirs' = [dirs EXCEPT ![draft[o].target] = Nothing]
  /\ Goto(o, "undone")
  /\ UNCHANGED <<active, rows, trash, journal, owner, draft, process, crashes, history>>

--------------------------------------------------------------------------------
(* Deletion, and the clean-up of an import: the song goes to the quarantine. *)

Quarantine(o) ==
  /\ at[o] \in {"deleting", "cleaning"}
  /\ trash = Empty
  /\ trash' = dirs /\ dirs' = Empty
  /\ Goto(o, IF o \in Deletions THEN "moved" ELSE "removed")
  /\ UNCHANGED <<active, rows, journal, owner, draft, process, crashes, history>>

QuarantineFails(o) ==
  /\ \/ at[o] = "deleting" /\ Goto(o, "undone") /\ UNCHANGED <<owner, draft>>
     \/ at[o] = "cleaning" /\ End(o, "failed")
  /\ UNCHANGED <<disk, process, crashes, history>>

DeleteRows(o) ==
  /\ at[o] = "moved"
  /\ active' = 0 /\ rows' = Empty
  /\ Goto(o, "removed")
  /\ UNCHANGED <<dirs, trash, journal, owner, draft, process, crashes, history>>

DeleteFails(o) ==
  /\ at[o] = "moved"
  /\ dirs' = trash /\ trash' = Empty
  /\ Goto(o, "undone")
  /\ UNCHANGED <<active, rows, journal, owner, draft, process, crashes, history>>

FinalizeQuarantine(o) ==
  /\ at[o] = "removed"
  /\ trash' = Empty
  /\ Goto(o, IF o \in Deletions THEN "committed" ELSE "undone")
  /\ UNCHANGED <<active, rows, dirs, journal, owner, draft, process, crashes, history>>

\* Every operation ends with its journal entry, if that can be removed.
Complete(o) ==
  /\ at[o] \in {"committed", "undone"}
  /\ journal' = {e \in journal : e.op # o}
  /\ End(o, IF at[o] = "committed" THEN "done" ELSE "failed")
  /\ UNCHANGED <<active, rows, dirs, trash, process, crashes, history>>

CompleteFails(o) ==
  /\ at[o] \in {"committed", "undone"}
  /\ End(o, IF at[o] = "committed" THEN "done" ELSE "failed")
  /\ UNCHANGED <<disk, process, crashes, history>>

--------------------------------------------------------------------------------
(* Crash and recovery: what is on disk stays, the rest is gone. *)

\* The client of the editor is another process and keeps its document.
Crash ==
  /\ crashes < MaxCrashes /\ process # "down"
  /\ process' = "down" /\ crashes' = crashes + 1
  /\ at' = [o \in Ops |-> IF at[o] \in Ended \cup {"open"} THEN at[o]
                             ELSE Place(o, IF at[o] = "committed" THEN "done" ELSE "failed")]
  /\ draft' = [o \in Ops |-> IF at[o] = "open" THEN draft[o] ELSE NoDraft]
  /\ owner' = NoOp
  /\ UNCHANGED <<disk, history>>

Restart == /\ process = "down"
           /\ process' = "recovering"
           /\ UNCHANGED <<disk, owner, at, draft, crashes, history>>

\* Mutants: any revision of a song counts as committed, and only its active one.
OfSong(r) == Song
OnlyActive(r) == active = r
Committed(r) == Song /\ rows[r] # Nothing

\* What the recovery of an entry does to the directories.
Recovered(e) ==
  CASE e.op \in SongImports ->
         IF Song THEN <<dirs, trash>> ELSE <<Empty, Empty>>
    [] e.op \in Deletions ->
         IF Song THEN IF trash = Empty THEN <<dirs, trash>> ELSE <<trash, Empty>>
                 ELSE <<dirs, Empty>>
    [] OTHER ->
         IF Committed(e.revision) THEN <<dirs, trash>> ELSE
         <<[dirs EXCEPT ![e.revision] = Nothing], trash>>

\* The entries are read in the order of their ids, which are random: in any order.
\* kept: a crash comes before the entry is removed.
RecoverEntry(e, kept) ==
  /\ process = "recovering"
  /\ dirs' = Recovered(e)[1] /\ trash' = Recovered(e)[2]
  /\ returned' = returned \cup
       {r \in Revisions : rows[r] = Nothing /\ dirs[r] = Nothing /\ dirs'[r] # Nothing}
  /\ IF kept THEN /\ crashes < MaxCrashes
                  /\ process' = "down" /\ crashes' = crashes + 1
                  /\ UNCHANGED journal
             ELSE journal' = journal \ {e} /\ UNCHANGED <<process, crashes>>
  /\ UNCHANGED <<active, rows, owner, at, draft, overtaken>>

Ready == /\ process = "recovering" /\ journal = {}
         /\ process' = "up"
         /\ UNCHANGED <<disk, owner, at, draft, crashes, history>>

--------------------------------------------------------------------------------
\* What an operation goes on to do once it has begun.
Step(o) ==
  \/ StageGeneration(o) \/ StageSave(o) \/ StageMigration(o) \/ NothingToMigrate(o)
  \/ StagePackage(o) \/ StageFails(o)
  \/ PublishRevision(o) \/ PublishFails(o)
  \/ Commit(o) \/ CommitFails(o) \/ RemoveRevision(o)
  \/ Activate(o) \/ ActivateFails(o)
  \/ Quarantine(o) \/ QuarantineFails(o)
  \/ DeleteRows(o) \/ DeleteFails(o) \/ FinalizeQuarantine(o)
  \/ Complete(o) \/ CompleteFails(o)

Recover == \E e \in journal : RecoverEntry(e, FALSE)

\* What the operation o may do now.
Acts(o) ==
  \/ o \in Saves /\ (OpenEditor(o) \/ BeginSave(o))
  \/ o \in Generations \cup Migrations /\ BeginWork(o)
  \/ o \in Packages /\ (Inspect(o) \/ BeginPackage(o))
  \/ o \in SongImports /\ BeginImport(o)
  \/ o \in Deletions /\ BeginDelete(o)
  \/ Step(o)

\* The end of the process and its start.
EndsAndStarts == \/ Crash \/ Restart
                 \/ \E e \in journal, kept \in BOOLEAN : RecoverEntry(e, kept)
                 \/ Ready

Next == (\E o \in Ops : Acts(o)) \/ EndsAndStarts

\* A thread of the backend runs to its end, the desktop application starts a
\* backend that ended again, and the recovery reads every entry.
Fairness == /\ \A o \in Ops : WF_vars(Step(o))
            /\ WF_vars(Restart) /\ WF_vars(Recover) /\ WF_vars(Ready)

Spec == Init /\ [][Next]_vars /\ Fairness

--------------------------------------------------------------------------------
(* Properties *)

\* Every variable keeps its type, with the journal entry of each operation
\* (SongOperationRegistry, FileRecoveryJournal and the rows of one song).
TypeOK ==
  /\ active \in 0..MaxRevision
  /\ rows \in Tree /\ dirs \in Tree /\ trash \in Tree
  /\ journal \subseteq [op : Ops, revision : 0..MaxRevision]
  /\ owner \in Ops \cup {NoOp}
  /\ at \in [Ops -> Places]
  /\ draft \in [Ops -> Draft]
  /\ process \in {"up", "down", "recovering"}
  /\ crashes \in 0..MaxCrashes
  /\ overtaken \subseteq Packages /\ returned \subseteq Revisions

\* Every committed revision has its files, in the songs or, while a deletion is
\* under way or was cut short, in the quarantine; and a song has exactly then
\* rows when it has an active revision, which is one of them.  Five writers, a
\* deletion, failures, crashes and the recovery act on both sides
\* (publisher.py:131-145, recover_transactions.py:47-78).
CommittedIsOnDisk ==
  /\ \A r \in Revisions : rows[r] # Nothing => rows[r] \in {dirs[r], trash[r]}
  /\ IF Song THEN rows[active] # Nothing ELSE rows = Empty

\* A start that is ready to serve leaves the songs as the database has them:
\* every committed revision in its place, nothing in the quarantine, nothing half
\* deleted, and no directory without a row but what the start itself has put back
\* with a song whose deletion was cut short.  The entries of the journal are read
\* in any order (startup_recovery.py:34-42, recovery_journal.py:44).
StartRestoresOrder ==
  [][process = "recovering" /\ process' = "up" =>
       /\ trash' = Empty
       /\ \A r \in Revisions : dirs'[r] # rows'[r] => rows'[r] = Nothing /\ r \in returned']_vars

\* "Find interrupted transactions, validate their state, finish or rollback
\* deterministically" (greenfield-spec.md:2420-2424).  Not so: the directory of a
\* publication that failed stays when its entry is read while the song is in the
\* quarantine, which depends on a random id (recover_transactions.py:54).
StartRollsBack == [][process = "recovering" /\ process' = "up" => dirs' = rows']_vars

\* What the library promises of its revisions, whatever the operations do to
\* one another: committed revisions never change, edited lyrics are not
\* replaced by generated ones, and a save replaces only what its client saw.
Store == INSTANCE RevisionStore WITH
           Others <- Migrations \cup SongImports \cup Deletions \cup {NoOp},
           kept <- [r \in Revisions |-> IF rows[r] = Nothing THEN Nothing
                                        ELSE IF dirs[r] # Nothing THEN dirs[r] ELSE trash[r]],
           seen <- [o \in Saves |-> draft[o].base]
KeepsItsPromises == Store!Spec

\* The song is free and served again and again, whatever fails or crashes: no
\* operation keeps its claim (operations.py:33-39).
SongIsFreeAgain == []<>(process = "up" /\ owner = NoOp)

\* The package goes on and the active revision goes back to an older one.
PutsBack(o) == at'[o] # at[o] /\ active' < active

\* A package puts an older revision in the place of a newer one only if the user
\* has accepted that, if the library has the revision already, or if another
\* package has made its revision active since the decision, which is made before
\* the claim.  Whatever generations, saves and migrations publish in between
\* (greenfield-spec.md:1853; import_package.py:49-66).
OlderNeedsConsent ==
  [][\A o \in Packages :
       PutsBack(o) => draft[o].accepted \/ draft[o].same \/ o \in overtaken]_vars

\* "OlderRevision does not replace a newer canonical revision without explicit user
\* choice" (greenfield-spec.md:1853).  Not so for a package that was newer when it
\* was inspected: another may be imported before it has its claim
\* (import_package.py:49-52).
NewerStays == [][\A o \in Packages : PutsBack(o) => draft[o].accepted \/ draft[o].same]_vars

\* The same promise for the packages of a revision the library has.  Not so: they
\* need no consent, and make their revision active again (import_package.py:62-63).
NewerStaysOnReimport == [][\A o \in Packages : PutsBack(o) /\ draft[o].same => draft[o].accepted]_vars
================================================================================
