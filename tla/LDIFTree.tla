------------------------------ MODULE LDIFTree ------------------------------
(***************************************************************************)
(* ldiftree.py: the directory kept as a tree of files.  The entry named    *)
(* d is the file <d>.ldif and what is below it is in the directory         *)
(* <d>.dir, both in the directory of the entry above.                      *)
(*                                                                         *)
(* Every call of the file system is awaited, so the operations of several  *)
(* tasks interleave call by call, and the process may die between any two  *)
(* calls.  A name is the sequence of its RDNs, its own first; the empty    *)
(* name is the directory of the tree itself.  Of what an entry holds only  *)
(* its identity is kept: which addition made it.                           *)
(***************************************************************************)
EXTENDS Naturals, Sequences, FiniteSets

CONSTANTS
    Writers,      \* tasks that change the tree
    Readers,      \* tasks that look entries up
    NamesOf,      \* the RDNs each writer gives to the entries it makes
    MaxDepth,     \* bound: RDNs in a name
    Start,        \* the entries there are, by name
    Ids,          \* identities of entries
    MaxChanges,   \* bound: operations that writers begin
    MaxCrashes,   \* bound: how often the process dies
    None          \* no entry, no file

Tasks == Writers \cup Readers
RDNs == UNION {NamesOf[w] : w \in Writers}
DNs == UNION {[1..n -> RDNs] : n \in 0..MaxDepth}

ASSUME TasksAssumption == Writers \cap Readers = {} /\ IsFiniteSet(Writers)
ASSUME NamesAssumption == \A v, w \in Writers : v # w => NamesOf[v] \cap NamesOf[w] = {}
ASSUME NoneAssumption == None \notin [dir : Seq(RDNs), whole : BOOLEAN] \cup Ids
ASSUME BoundsAssumption == MaxDepth \in Nat /\ MaxChanges \in Nat /\ MaxCrashes \in Nat
ASSUME StartAssumption ==
    /\ \A d \in DOMAIN Start : d # <<>> /\ Start[d] \in Ids
    /\ \A d, e \in DOMAIN Start : Start[d] = Start[e] => d = e
    /\ DOMAIN Start \subseteq DNs
    /\ \A d \in DOMAIN Start : \A n \in 2..Len(d) : SubSeq(d, n, Len(d)) \in DOMAIN Start
    /\ IsFiniteSet(Ids) /\ IsFiniteSet(DOMAIN Start)
    /\ Cardinality(Ids) >= Cardinality(DOMAIN Start) + MaxChanges

VARIABLES
    files,     \* the .ldif files by name: the entry they hold, and whether it is whole
    dirs,      \* the names that have a .dir
    tmp,       \* the temporary file of each task: the directory it is in, if it is whole
    pc,        \* the call each task makes next
    op,        \* the operation it is in
    goal,      \* the name lookup is asked for
    at,        \* how far lookup has come
    path,      \* self.path
    new,       \* the name that is to be made
    mine,      \* self._attributes: the entry that was loaded
    changes,   \* how much of MaxChanges is used
    crashes,   \* how much of MaxCrashes is used
    held,      \* entries whose making was reported, and whose deletion was not
    astray,    \* entries a commit has written where they were not any more
    used,      \* the names there have been
    stay       \* whether the name a reader looks up has had its file all along

disk == <<files, dirs, tmp>>
locals == <<op, goal, at, path, new, mine>>
known == <<held, astray>>
vars == <<disk, pc, locals, changes, crashes, known, used, stay>>

-----------------------------------------------------------------------------
(* Names and files.                                                        *)

\* The last n RDNs of a name: the entry n levels below the top.
Last(d, n) == SubSeq(d, Len(d) - n + 1, Len(d))

Below(d, e) == Len(d) < Len(e) /\ Last(e, Len(d)) = d

\* Where a name ends up when what is at d is renamed to e.
Renamed(f, d, e) == SubSeq(f, 1, Len(f) - Len(d)) \o e

There == DOMAIN files \cup dirs
Kids(d) == {e \in There : e # <<>> /\ Tail(e) = d}

Init ==
    /\ files = [d \in DOMAIN Start |-> [id |-> Start[d], whole |-> TRUE]]
    /\ dirs = {<<>>} \cup {Tail(d) : d \in DOMAIN Start}
    /\ tmp = [t \in Writers |-> None]
    /\ pc = [t \in Tasks |-> "idle"]
    /\ op = [t \in Tasks |-> "none"]
    /\ goal = [t \in Tasks |-> <<>>]
    /\ at = [t \in Tasks |-> <<>>]
    /\ path = [t \in Tasks |-> <<>>]
    /\ new = [t \in Tasks |-> <<>>]
    /\ mine = [t \in Tasks |-> None]
    /\ changes = 0 /\ crashes = 0
    /\ held = {Start[d] : d \in DOMAIN Start}
    /\ astray = {}
    /\ used = There
    /\ stay = [r \in Readers |-> FALSE]

With(d, content) ==
    [e \in DOMAIN files \cup {d} |-> IF e = d THEN content ELSE files[e]]
Without(d) == [e \in DOMAIN files \ {d} |-> files[e]]

Made == {files[d].id : d \in DOMAIN files}

\* What a change of the files means to those who watch.
Noticed ==
    /\ used' = used \cup There'
    /\ stay' = [r \in Readers |-> stay[r] /\ goal[r] \in DOMAIN files']

GoTo(t, label) == pc' = [pc EXCEPT ![t] = label]

Forget(t) ==
    /\ op' = [op EXCEPT ![t] = "none"]
    /\ goal' = [goal EXCEPT ![t] = <<>>]
    /\ at' = [at EXCEPT ![t] = <<>>]
    /\ path' = [path EXCEPT ![t] = <<>>]
    /\ new' = [new EXCEPT ![t] = <<>>]
    /\ mine' = [mine EXCEPT ![t] = None]

\* The operation is over, with a result or with an exception.
Return(t) == GoTo(t, "idle") /\ Forget(t)

-----------------------------------------------------------------------------
(* An operation begins.  Writers take care of what nothing here does for   *)
(* them: each keeps to entries called by RDNs of its own, so that no two   *)
(* operations make an entry of the same name; moves one only to a name     *)
(* there has not been, below one there has; and does not change an entry   *)
(* that was found without its attributes.                                  *)

Begin(w, what, target, fresh) ==
    /\ pc[w] = "idle" /\ changes < MaxChanges
    /\ changes' = changes + 1
    /\ op' = [op EXCEPT ![w] = what]
    /\ goal' = [goal EXCEPT ![w] = target]
    /\ new' = [new EXCEPT ![w] = fresh]
    /\ at' = [at EXCEPT ![w] = <<>>]
    /\ mine' = [mine EXCEPT ![w] = None]
    /\ path' = [path EXCEPT ![w] = <<>>]
    /\ GoTo(w, IF what = "put" THEN "putdir" ELSE "walk")
    /\ UNCHANGED <<disk, crashes, known, used, stay>>

Own(w) == {d \in DNs : d # <<>> /\ Head(d) \in NamesOf[w]}

BeginAdd(w) == \E d \in Own(w) : Begin(w, "add", Tail(d), d)
BeginPut(w) == \E d \in Own(w) : Begin(w, "put", Tail(d), d)
BeginDelete(w) == \E d \in Own(w) \cap There : Begin(w, "delete", d, d)
BeginCommit(w) == \E d \in Own(w) \cap There : Begin(w, "commit", d, d)
BeginMove(w) ==
    \E d \in Own(w) \cap There, e \in Own(w) \ used :
        Tail(e) \in used /\ Begin(w, "move", d, e)

BeginLookup(r) ==
    /\ pc[r] = "idle"
    /\ \E d \in DNs \ {<<>>} :
          /\ goal' = [goal EXCEPT ![r] = d]
          /\ stay' = [stay EXCEPT ![r] = d \in DOMAIN files]
    /\ at' = [at EXCEPT ![r] = <<>>]
    /\ op' = [op EXCEPT ![r] = "lookup"]
    /\ GoTo(r, "walk")
    /\ UNCHANGED <<disk, path, new, mine, changes, crashes, known, used>>

-----------------------------------------------------------------------------
(* lookup: from the top, an entry on the way is one with a directory or    *)
(* with a file; the last one's file is read, if there still is one.        *)

\* Mutant of OnTheWay: only an entry with a file is one.
OnTheWayFileOnly(d) == d \in DOMAIN files

OnTheWay(d) == d \in dirs \/ d \in DOMAIN files

Walking(t) == pc[t] \in {"walk", "walk2"} /\ at[t] # goal[t]

Descend(t) ==
    LET next == Last(goal[t], Len(at[t]) + 1)
    IN /\ Walking(t) /\ OnTheWay(next)
       /\ at' = [at EXCEPT ![t] = next]
       /\ UNCHANGED <<disk, pc, op, goal, path, new, mine, changes, crashes, known, used, stay>>

\* LDAPNoSuchObject.
NotFound(t) ==
    /\ Walking(t) /\ ~OnTheWay(Last(goal[t], Len(at[t]) + 1))
    /\ IF t \in Readers
       THEN GoTo(t, "missed") /\ UNCHANGED locals
       ELSE Return(t)
    /\ UNCHANGED <<disk, changes, crashes, known, used, stay>>

AfterWalk == [add |-> "list", delete |-> "list", commit |-> "write", move |-> "movedir",
              lookup |-> "found"]

\* open: the entry is loaded.  _move2 needs the attributes of its old name, so
\* an entry without any is not moved; a move to another place looks that up too.
\* commit would write an entry without attributes over what has come back since.
Load(t) ==
    /\ pc[t] = "walk" /\ at[t] = goal[t]
    /\ IF op[t] \in {"move", "commit"} /\ at[t] \notin DOMAIN files
       THEN Return(t)
       ELSE /\ mine' = [mine EXCEPT ![t] =
                          IF at[t] \in DOMAIN files THEN files[at[t]].id ELSE None]
            /\ path' = [path EXCEPT ![t] = at[t]]
            /\ UNCHANGED <<op, new>>
            /\ IF op[t] = "move" /\ Tail(new[t]) # Tail(at[t])
               THEN /\ goal' = [goal EXCEPT ![t] = Tail(new[t])]
                    /\ at' = [at EXCEPT ![t] = <<>>]
                    /\ GoTo(t, "walk2")
               ELSE GoTo(t, AfterWalk[op[t]]) /\ UNCHANGED <<goal, at>>
    /\ UNCHANGED <<disk, changes, crashes, known, used, stay>>

FoundParent(t) ==
    /\ pc[t] = "walk2" /\ at[t] = goal[t]
    /\ GoTo(t, "movedir")
    /\ UNCHANGED <<disk, locals, changes, crashes, known, used, stay>>

\* A reader has its answer.
Answered(r) ==
    /\ pc[r] \in {"found", "missed"}
    /\ Return(r)
    /\ UNCHANGED <<disk, changes, crashes, known, used, stay>>

-----------------------------------------------------------------------------
(* _addChild and delete list the children before they act on what they saw.*)

\* LDAPEntryAlreadyExists, or LDAPNotAllowedOnNonLeaf.
Refused(t) ==
    IF op[t] = "add" THEN new[t] \in Kids(path[t]) ELSE Kids(path[t]) # {}

List(t) ==
    /\ pc[t] = "list"
    /\ \/ Refused(t) /\ Return(t)
       \/ /\ ~Refused(t) /\ op[t] = "add"
          /\ GoTo(t, IF path[t] \in dirs THEN "write" ELSE "mkdir")
          /\ UNCHANGED locals
       \/ /\ ~Refused(t) /\ op[t] = "delete"
          /\ GoTo(t, "unlink") /\ UNCHANGED locals
    /\ UNCHANGED <<disk, changes, crashes, known, used, stay>>

\* mkdir fails when another task has made the directory since it was looked for.
MakeDir(t) ==
    /\ pc[t] = "mkdir"
    /\ IF path[t] \notin dirs /\ Tail(path[t]) \in dirs
       THEN /\ dirs' = dirs \cup {path[t]}
            /\ GoTo(t, "write") /\ UNCHANGED locals
       ELSE Return(t) /\ UNCHANGED dirs
    /\ UNCHANGED <<files, tmp, changes, crashes, known>>
    /\ Noticed

\* The entry that was asked to be deleted is the one that was loaded, if any was.
Unlink(t) ==
    /\ pc[t] = "unlink"
    /\ IF path[t] \in DOMAIN files
       THEN /\ files' = Without(path[t])
            /\ held' = held \ {IF mine[t] = None THEN files[path[t]].id ELSE mine[t]}
       ELSE UNCHANGED <<files, held>>
    /\ Return(t)
    /\ UNCHANGED <<dirs, tmp, changes, crashes, astray>>
    /\ Noticed

\* _put: the entry above must have a directory, or a file; in that case the
\* directory is made, and it is no error if that has been done by then.
PutDir(t) ==
    /\ pc[t] = "putdir"
    /\ IF goal[t] \notin dirs \cup DOMAIN files
       THEN Return(t)
       ELSE /\ GoTo(t, IF goal[t] \in dirs THEN "write" ELSE "putmkdir")
            /\ path' = [path EXCEPT ![t] = goal[t]]
            /\ UNCHANGED <<op, goal, at, new, mine>>
    /\ UNCHANGED <<disk, changes, crashes, known, used, stay>>

PutMakeDir(t) ==
    /\ pc[t] = "putmkdir"
    /\ dirs' = dirs \cup {Last(path[t], n) : n \in 0..Len(path[t])}
    /\ GoTo(t, "write")
    /\ UNCHANGED <<files, tmp, locals, changes, crashes, known>>
    /\ Noticed

-----------------------------------------------------------------------------
(* _putEntry, and the end of _addChild: the entry is written to a file     *)
(* with a name nobody else uses, which is then given its own name.         *)

\* The name the entry is written under.
Target(t) == IF op[t] = "commit" THEN path[t] ELSE new[t]
Dir(t) == Tail(Target(t))

\* The directory may be gone; commit answers that with False.
OpenTmp(t) ==
    /\ pc[t] = "write"
    /\ IF Dir(t) \in dirs
       THEN /\ tmp' = [tmp EXCEPT ![t] = [dir |-> Dir(t), whole |-> FALSE]]
            /\ GoTo(t, "written") /\ UNCHANGED locals
       ELSE Return(t) /\ UNCHANGED tmp
    /\ UNCHANGED <<files, dirs, changes, crashes, known, used, stay>>

Written(t) ==
    /\ pc[t] = "written"
    /\ tmp' = [tmp EXCEPT ![t].whole = TRUE]
    /\ GoTo(t, "publish")
    /\ UNCHANGED <<files, dirs, locals, changes, crashes, known, used, stay>>

\* Mutant of ReadyToPublish: the file is given its name before it is written.
ReadyEarly(t) == pc[t] \in {"written", "publish"}

ReadyToPublish(t) == pc[t] = "publish"

\* What an addition or a put makes is new; a commit writes what was loaded.
Publish(t) ==
    /\ ReadyToPublish(t)
    /\ LET d == Target(t)
           id == IF op[t] \in {"add", "put"}
                 THEN CHOOSE i \in Ids : i \notin Made \cup held
                 ELSE mine[t]
           over == IF op[t] = "put" /\ d \in DOMAIN files THEN {files[d].id} ELSE {}
       IN IF tmp[t].dir = Dir(t)
          THEN /\ files' = With(d, [id |-> id, whole |-> tmp[t].whole])
               /\ IF op[t] \in {"add", "put"}
                  THEN held' = (held \ over) \cup {id} /\ UNCHANGED astray
                  ELSE /\ astray' = astray \cup (IF d \in DOMAIN files THEN {} ELSE {id})
                       /\ UNCHANGED held
          ELSE UNCHANGED <<files, known>>
    /\ tmp' = [tmp EXCEPT ![t] = None]
    /\ Return(t)
    /\ UNCHANGED <<dirs, changes, crashes>>
    /\ Noticed

-----------------------------------------------------------------------------
(* _move2: first the directory, then the file, then commit writes it.      *)

MoveTree(d, e) ==
    LET DirThere(f) == IF f = d \/ Below(d, f) THEN Renamed(f, d, e) ELSE f
        FileThere(f) == IF Below(d, f) THEN Renamed(f, d, e) ELSE f
    IN /\ dirs' = {DirThere(f) : f \in dirs}
       /\ files' = [g \in {FileThere(f) : f \in DOMAIN files} |->
                      files[CHOOSE f \in DOMAIN files : FileThere(f) = g]]
       /\ tmp' = [w \in Writers |->
                    IF tmp[w] = None THEN None ELSE [tmp[w] EXCEPT !.dir = DirThere(@)]]

\* A directory is not renamed to one that is not empty, or below itself.
MoveDir(t) ==
    LET d == path[t]
        e == new[t]
    IN /\ pc[t] = "movedir"
       /\ \/ /\ d \notin dirs
             /\ GoTo(t, "moveldif")
             /\ UNCHANGED <<disk, locals, used, stay>>
          \/ /\ d \in dirs /\ Tail(e) \in dirs /\ ~Below(d, e)
             /\ Kids(e) = {}
             /\ MoveTree(d, e)
             /\ GoTo(t, "moveldif")
             /\ UNCHANGED locals /\ Noticed
          \/ /\ d \in dirs /\ (Tail(e) \notin dirs \/ Below(d, e) \/ Kids(e) # {})
             /\ Return(t) /\ UNCHANGED <<disk, used, stay>>
       /\ UNCHANGED <<changes, crashes, known>>

\* Mutant of Moves: the file is copied to its new name and stays under the old one.
MovesCopies(d, e) == [g \in DOMAIN files \cup {e} |-> IF g = e THEN files[d] ELSE files[g]]

Moves(d, e) == [g \in (DOMAIN files \ {d}) \cup {e} |-> IF g = e THEN files[d] ELSE files[g]]

MoveFile(t) ==
    /\ pc[t] = "moveldif"
    /\ IF path[t] \in DOMAIN files /\ Tail(new[t]) \in dirs
       THEN /\ files' = Moves(path[t], new[t])
            /\ path' = [path EXCEPT ![t] = new[t]]
            /\ GoTo(t, "write") /\ UNCHANGED <<op, goal, at, new, mine>>
       ELSE Return(t) /\ UNCHANGED files
    /\ UNCHANGED <<dirs, tmp, changes, crashes, known>>
    /\ Noticed

-----------------------------------------------------------------------------
\* The process dies; what is on disk is what is left.
Crash ==
    /\ crashes < MaxCrashes /\ crashes' = crashes + 1
    /\ pc' = [t \in Tasks |-> "idle"]
    /\ op' = [t \in Tasks |-> "none"]
    /\ tmp' = [w \in Writers |-> None]
    /\ stay' = [r \in Readers |-> FALSE]
    /\ goal' = [t \in Tasks |-> <<>>] /\ at' = [t \in Tasks |-> <<>>]
    /\ path' = [t \in Tasks |-> <<>>] /\ new' = [t \in Tasks |-> <<>>]
    /\ mine' = [t \in Tasks |-> None]
    /\ UNCHANGED <<files, dirs, changes, known, used>>

Next ==
    \/ \E w \in Writers :
          \/ BeginAdd(w) \/ BeginPut(w) \/ BeginDelete(w) \/ BeginCommit(w) \/ BeginMove(w)
          \/ FoundParent(w)
          \/ List(w) \/ MakeDir(w) \/ Unlink(w) \/ PutDir(w) \/ PutMakeDir(w)
          \/ OpenTmp(w) \/ Written(w) \/ Publish(w)
          \/ MoveDir(w) \/ MoveFile(w)
    \/ \E r \in Readers : BeginLookup(r) \/ Answered(r)
    \/ \E t \in Tasks : Descend(t) \/ NotFound(t) \/ Load(t)
    \/ Crash

Spec == Init /\ [][Next]_vars
-----------------------------------------------------------------------------
(* Properties.                                                             *)

\* The types of the state, which NothingIsLost has with it.
TypeOK ==
    /\ \A d \in There : d \in Seq(RDNs)
    /\ \A d \in DOMAIN files : d # <<>> /\ files[d].id \in Ids
    /\ <<>> \in dirs /\ \A d \in There \ {<<>>} : Tail(d) \in dirs
    /\ \A w \in Writers : tmp[w] # None => tmp[w].dir \in dirs
    /\ held \subseteq Ids /\ astray \subseteq Ids

\* Whatever the process does when it dies, a file with the name of an entry
\* holds a whole entry (_putEntry writes a temporary file and renames it).
EntriesAreWhole == \A d \in DOMAIN files : files[d].whole

\* An entry whose addition was reported is in a file until its deletion is
\* reported, through moves that are two renames, directories that are moved from
\* under a task, and crashes; and it is in one file only, unless a commit found
\* that its file was gone, but not its directory (_addChild, _move2, delete, commit).
NothingIsLost ==
    /\ TypeOK
    /\ \A i \in held : \E d \in DOMAIN files : files[d].id = i
    /\ \A d, e \in DOMAIN files : files[d].id = files[e].id => d = e \/ files[d].id \in astray

\* A lookup does not miss an entry that had its name all along, whatever is
\* done to the entries above it meanwhile (lookup, line 252).
LookupFindsWhatStays == \A r \in Readers : pc[r] = "missed" => ~stay[r]

\* What was deleted is not there any more (delete, lookup).
DeletedIsGone ==
    [][\A w \in Writers : \A d \in DNs :
          Unlink(w) /\ held' # held /\ path[w] = d => ~OnTheWay(d)']_vars
=============================================================================
