------------------------------- MODULE Files -------------------------------
(***************************************************************************)
(* The runner's file service (internal/runnerfiles): concurrent requests   *)
(* on one directory of the workspace and on the name "f" in it.            *)
(*                                                                         *)
(* The service keeps no state between requests, but its requests share     *)
(* what the kernel keeps: the directory, and the descriptor table of the   *)
(* runner.  A request holds descriptors by number.  Two places enumerate a *)
(* directory through an os.File made of a number they go on using (List    *)
(* and readDirentNames); such a File owns the descriptor, and closes the   *)
(* number when the collector finds it unreachable, whoever has it by then. *)
(* Paths are resolved below the workspace by openat2; what users' own      *)
(* processes do in it is not modelled.                                     *)
(***************************************************************************)
EXTENDS Naturals, Sequences, FiniteSets, FiniteSetsExt

CONSTANTS
    Request,   \* requests that the runner serves
    MaxFD,     \* the descriptors the requests use are 1 .. MaxFD
    MaxDirs    \* how often the directory is made

ASSUME FilesAssumption ==
    /\ MaxFD \in Nat \ {0} /\ MaxDirs \in Nat \ {0}
    /\ "nothing" \notin Request

VARIABLES
    dir,       \* the directory that exists now: its generation, or 0
    dirs,      \* generations made so far
    entries,   \* entries[n]: the file that name n of the directory denotes, or Nothing
    content,   \* content[r]: what was written to the file that request r created
    fds,       \* fds[n]: what descriptor n refers to
    borrowed,  \* the unreachable Files: who made them, and the number they will close
    op,        \* op[r]: the request r, its program counter and locals
    stale      \* a number was closed that another request still held

filesVars == <<dir, dirs, entries, content, fds, borrowed, op, stale>>

Nothing == "nothing"
Free == [kind |-> "free"]
DirOf(g) == [kind |-> "dir", gen |-> g]
FileOf(r) == [kind |-> "file", of |-> r]

\* The name that uploads and downloads are about, another one to move it to and from, and the
\* random temporary name of each upload.
Target == <<"name", "f">>
Other == <<"name", "g">>
Temp(r) == <<"temp", r>>
Names == {Target, Other} \cup {Temp(r) : r \in Request}

Descriptor == 1 .. MaxFD

\* The body of an upload is two chunks, so that another write may fall between them.
Whole(r) == <<r, r>>

Idle == [pc |-> "idle", kind |-> "none", overwrite |-> FALSE, parents |-> FALSE,
         parent |-> 0, file |-> 0, names |-> {}, answer |-> Nothing, got |-> <<>>]

FilesInit ==
    /\ dir = 1 /\ dirs = 1
    /\ entries = [n \in Names |-> Nothing]
    /\ content = [r \in Request |-> <<>>]
    /\ fds = [n \in Descriptor |-> Free]
    /\ borrowed = {} /\ op = [r \in Request |-> Idle] /\ stale = FALSE
-----------------------------------------------------------------------------
(* The kernel. *)

\* The lowest free number; without one the call that wants it fails (EMFILE).
FreeNumbers == {n \in Descriptor : fds[n] = Free}
Lowest == Min(FreeNumbers)

\* The numbers that request r took and has not given back.
Held(r) == {op[r].parent, op[r].file} \ {0}

\* close(n), by request r or, with Nothing for r, by a finalizer.
Closing(n, r) ==
    /\ fds' = [fds EXCEPT ![n] = Free]
    /\ stale' = (stale \/ \E q \in Request \ {r} : n \in Held(q))

\* A call relative to descriptor n reaches the directory as it is now.
Reaches(n) == n # 0 /\ dir # 0 /\ fds[n] = DirOf(dir)

\* The request is over; its answer, and what a download read, are all that is left of it.
Answer(r, what) == op' = [op EXCEPT ![r] = [Idle EXCEPT !.pc = "done", !.answer = what,
                                                        !.got = op[r].got]]
Step(r, pc) == op' = [op EXCEPT ![r].pc = pc]

\* On to the deferred calls, with the answer that will be given.
Return(r, what) == op' = [op EXCEPT ![r].pc = "cleanup", ![r].answer = what]
-----------------------------------------------------------------------------
(* The start of every request. *)

\* Mkdir with parents, alone or at the start of an upload with createParents.
Mkdir(r) ==
    /\ op[r].pc = "mkdir"
    /\ IF dir = 0 THEN dirs < MaxDirs /\ dirs' = dirs + 1 /\ dir' = dirs + 1
                  ELSE UNCHANGED <<dir, dirs>>
    /\ IF op[r].kind = "mkdir" THEN Answer(r, "made") ELSE Step(r, "open")
    /\ UNCHANGED <<entries, content, fds, borrowed, stale>>

\* Delete is the recursive one; a single file or an empty directory has no request of its own.
Accept(r) ==
    /\ op[r].pc = "idle"
    /\ \E kind \in {"upload", "download", "list", "delete", "move", "moveBack", "mkdir"},
          overwrite \in BOOLEAN, parents \in BOOLEAN :
          /\ overwrite => kind \in {"upload", "move", "moveBack"}
          /\ parents => kind = "upload"
          /\ op' = [op EXCEPT ![r] = [Idle EXCEPT !.kind = kind, !.overwrite = overwrite,
                       !.pc = IF parents \/ kind = "mkdir" THEN "mkdir" ELSE "open"]]
    /\ UNCHANGED <<dir, dirs, entries, content, fds, borrowed, stale>>

\* openBeneath: the parent directory, or for a download the file itself.  The call also fails for
\* want of a descriptor, of permission or of a working disk.
Open(r) ==
    /\ op[r].pc = "open"
    /\ \/ Answer(r, "failed") /\ UNCHANGED fds
       \/ /\ dir = 0 \/ (op[r].kind = "download" /\ entries[Target] = Nothing)
          /\ Answer(r, "not found") /\ UNCHANGED fds
       \/ /\ op[r].kind = "download" /\ dir # 0 /\ entries[Target] # Nothing /\ FreeNumbers # {}
          /\ fds' = [fds EXCEPT ![Lowest] = FileOf(entries[Target])]
          /\ op' = [op EXCEPT ![r].pc = "read", ![r].file = Lowest]
       \/ /\ op[r].kind # "download" /\ dir # 0 /\ FreeNumbers # {}
          /\ fds' = [fds EXCEPT ![Lowest] = DirOf(dir)]
          /\ op' = [op EXCEPT ![r].parent = Lowest,
                       ![r].pc = CASE op[r].kind = "upload" -> "stat"
                                   [] op[r].kind \in {"move", "moveBack"} -> "move"
                                   [] OTHER -> "names"]
    /\ UNCHANGED <<dir, dirs, entries, content, borrowed, stale>>

\* Fstat gave the size; the reader is limited to it.
Read(r) ==
    /\ op[r].pc = "read"
    /\ LET what == fds[op[r].file] IN
       IF what.kind = "file"
       THEN op' = [op EXCEPT ![r].pc = "cleanup", ![r].answer = "read", ![r].got = content[what.of]]
       ELSE Return(r, "failed")
    /\ UNCHANGED <<dir, dirs, entries, content, fds, borrowed, stale>>
-----------------------------------------------------------------------------
(* Upload. *)

\* statEntry: an existing target refuses an upload without overwrite.
StatTarget(r) ==
    /\ op[r].pc = "stat"
    /\ IF fds[op[r].parent].kind # "dir" THEN Return(r, "failed")
       ELSE IF Reaches(op[r].parent) /\ entries[Target] # Nothing /\ ~op[r].overwrite
       THEN Return(r, "conflict")
       ELSE Step(r, "temp")
    /\ UNCHANGED <<dir, dirs, entries, content, fds, borrowed, stale>>

\* createTempFile; it fails in a directory that was removed, and as openBeneath does.
CreateTempFile(r) ==
    /\ op[r].pc = "temp"
    /\ \/ /\ Reaches(op[r].parent) /\ FreeNumbers # {}
          /\ fds' = [fds EXCEPT ![Lowest] = FileOf(r)]
          /\ entries' = [entries EXCEPT ![Temp(r)] = r]
          /\ op' = [op EXCEPT ![r].pc = "copy", ![r].file = Lowest]
       \/ Return(r, "failed") /\ UNCHANGED <<fds, entries>>
    /\ UNCHANGED <<dir, dirs, content, borrowed, stale>>

\* Mutant: the rest of a body that broke off is taken for its end.
CopyBoundedShort(r) ==
    /\ op[r].pc = "copy"
    /\ LET what == fds[op[r].file] IN
       IF what.kind # "file" THEN Return(r, "failed") /\ UNCHANGED content
       ELSE /\ content' = [content EXCEPT ![what.of] = Append(@, r)]
            /\ op' = [op EXCEPT ![r].pc = "sync"]
    /\ UNCHANGED <<dir, dirs, entries, fds, borrowed, stale>>

\* copyBounded: a chunk goes to whatever file the number refers to; the body may be too large
\* or break off.
CopyBounded(r) ==
    /\ op[r].pc \in {"copy", "copy2"}
    /\ LET what == fds[op[r].file] IN
       \/ /\ what.kind = "file"
          /\ content' = [content EXCEPT ![what.of] = Append(@, r)]
          /\ Step(r, IF op[r].pc = "copy" THEN "copy2" ELSE "sync")
       \/ Return(r, "failed") /\ UNCHANGED content
    /\ UNCHANGED <<dir, dirs, entries, fds, borrowed, stale>>

\* Fsync and Fchmod.
Sync(r) ==
    /\ op[r].pc = "sync"
    /\ IF fds[op[r].file].kind = "file" THEN Step(r, "publish") ELSE Return(r, "failed")
    /\ UNCHANGED <<dir, dirs, entries, content, fds, borrowed, stale>>

\* renameat2, with RENAME_NOREPLACE unless overwrite.
PublishFile(r) ==
    /\ op[r].pc = "publish"
    /\ IF ~Reaches(op[r].parent) \/ entries[Temp(r)] = Nothing
       THEN Return(r, "failed") /\ UNCHANGED entries
       ELSE IF ~op[r].overwrite /\ entries[Target] # Nothing
       THEN Return(r, "conflict") /\ UNCHANGED entries
       ELSE /\ entries' = [entries EXCEPT ![Target] = entries[Temp(r)], ![Temp(r)] = Nothing]
            /\ Return(r, "stored")
    /\ UNCHANGED <<dir, dirs, content, fds, borrowed, stale>>
-----------------------------------------------------------------------------
(* List, Delete with recursive, and Move. *)

\* Readdirnames through an os.File, which is garbage from here on.
ReadNames(r) ==
    /\ op[r].pc = "names"
    /\ IF fds[op[r].parent].kind # "dir" THEN Return(r, "failed")
       ELSE op' = [op EXCEPT ![r].pc = "each",
                      ![r].names = IF Reaches(op[r].parent)
                                   THEN {n \in Names : entries[n] # Nothing} ELSE {}]
    /\ borrowed' = borrowed \cup {[by |-> r, fd |-> op[r].parent]}
    /\ UNCHANGED <<dir, dirs, entries, content, fds, stale>>

\* The collector finalizes a File: its number is closed.
Collect ==
    /\ \E b \in borrowed : Closing(b.fd, Nothing) /\ borrowed' = borrowed \ {b}
    /\ UNCHANGED <<dir, dirs, entries, content, op>>

\* Fstatat of each name; removeTree also unlinks it.  A name that vanished is skipped.
\* A failing unlink and the budgets of entries and depth are left out: they end the request
\* with part of the names gone, which is where one that is still under way is.
EachName(r) ==
    /\ op[r].pc = "each"
    /\ IF fds[op[r].parent].kind # "dir" THEN Return(r, "failed") /\ UNCHANGED entries
       ELSE IF op[r].names = {}
       THEN Return(r, "listed") /\ UNCHANGED entries
       ELSE \E n \in op[r].names :
            /\ op' = [op EXCEPT ![r].names = @ \ {n}]
            /\ entries' = IF op[r].kind = "delete" /\ Reaches(op[r].parent)
                          THEN [entries EXCEPT ![n] = Nothing] ELSE entries
    /\ UNCHANGED <<dir, dirs, content, fds, borrowed, stale>>

\* Move, with RENAME_NOREPLACE unless overwrite.
Move(r) ==
    LET from == IF op[r].kind = "move" THEN Target ELSE Other
        to == IF op[r].kind = "move" THEN Other ELSE Target
    IN  /\ op[r].pc = "move"
        /\ IF ~Reaches(op[r].parent) \/ entries[from] = Nothing
           THEN Return(r, "failed") /\ UNCHANGED entries
           ELSE IF ~op[r].overwrite /\ entries[to] # Nothing
           THEN Return(r, "conflict") /\ UNCHANGED entries
           ELSE /\ entries' = [entries EXCEPT ![to] = entries[from], ![from] = Nothing]
                /\ Return(r, "moved")
        /\ UNCHANGED <<dir, dirs, content, fds, borrowed, stale>>
-----------------------------------------------------------------------------
(* The deferred calls, in their order: an upload that did not publish unlinks its temporary
   file; then the file is closed, then the directory; a delete then removes it. *)

Unlink(r) ==
    /\ op[r].pc = "cleanup"
    /\ entries' = IF op[r].kind = "upload" /\ op[r].answer # "stored" /\ Reaches(op[r].parent)
                  THEN [entries EXCEPT ![Temp(r)] = Nothing] ELSE entries
    /\ Step(r, "closeFile")
    /\ UNCHANGED <<dir, dirs, content, fds, borrowed, stale>>

CloseFile(r) ==
    /\ op[r].pc = "closeFile"
    /\ IF op[r].file = 0 THEN UNCHANGED <<fds, stale>> ELSE Closing(op[r].file, r)
    /\ op' = [op EXCEPT ![r].pc = "closeParent", ![r].file = 0]
    /\ UNCHANGED <<dir, dirs, entries, content, borrowed>>

CloseParent(r) ==
    /\ op[r].pc = "closeParent"
    /\ IF op[r].parent = 0 THEN UNCHANGED <<fds, stale>> ELSE Closing(op[r].parent, r)
    /\ IF op[r].kind = "delete" /\ op[r].answer = "listed"
       THEN op' = [op EXCEPT ![r].pc = "rmdir", ![r].parent = 0]
       ELSE Answer(r, op[r].answer)
    /\ UNCHANGED <<dir, dirs, entries, content, borrowed>>

\* Unlinkat with AT_REMOVEDIR, relative to the workspace: only an empty directory goes.
RemoveDirectory(r) ==
    /\ op[r].pc = "rmdir"
    /\ IF \A n \in Names : entries[n] = Nothing
       THEN dir' = 0 /\ Answer(r, "deleted")
       ELSE UNCHANGED dir /\ Answer(r, "failed")
    /\ UNCHANGED <<dirs, entries, content, fds, borrowed, stale>>

Serve(r) ==
    \/ Accept(r) \/ Mkdir(r) \/ Open(r) \/ Read(r)
    \/ StatTarget(r) \/ CreateTempFile(r) \/ CopyBounded(r) \/ Sync(r) \/ PublishFile(r)
    \/ ReadNames(r) \/ EachName(r) \/ Move(r)
    \/ Unlink(r) \/ CloseFile(r) \/ CloseParent(r) \/ RemoveDirectory(r)

FilesNext == Collect \/ \E r \in Request : Serve(r)
-----------------------------------------------------------------------------
(* Uploads are atomic: the target is the whole body of one upload at any time, a download
   gives the whole body of one, and no failed upload leaves its temporary file, with uploads,
   deletions, moves and broken requests running at once.  It is about runs in which no
   descriptor was closed under another request; after Collect closed one, it does not hold. *)
UploadIsAtomic ==
    stale \/ /\ entries[Target] # Nothing => content[entries[Target]] = Whole(entries[Target])
             /\ \A r \in Request : op[r].pc = "done" /\ op[r].answer = "read" =>
                    op[r].got \in {Whole(q) : q \in Request}
             /\ \A r \in Request : op[r].pc = "done" => entries[Temp(r)] = Nothing
=============================================================================
