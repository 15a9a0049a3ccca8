--------------------------------- MODULE Wiki ---------------------------------
(***************************************************************************)
(* The project knowledge base (internal/engine/wiki/wiki.go): articles in  *)
(* markdown files, which people edit as well, a search index and a listing *)
(* beside them, both derived.  One caller writes at a time and another     *)
(* searches; the process may be killed between any two steps, and what     *)
(* reached the file system and the database stays.                         *)
(*                                                                         *)
(* The text of an article is the number of its version, 0 where there is   *)
(* none.                                                                   *)
(***************************************************************************)
EXTENDS Integers, FiniteSets

CONSTANTS
  Articles,
  MaxVersions,   \* bound: texts written, by Put or by hand
  MaxWikiMishaps     \* bound: crashes and failed steps

VARIABLES
  page, partial,     \* the file of an article, and the one it is written to first
  rows, schema,      \* the index database, and which program wrote it
  listing,           \* the names in index.json
  db, opening,       \* Store.db, and who is inside open
  writer, search,
  versions, mishaps,
  heldTexts, drifted      \* history: texts each file held; what the index may be behind on

wikiDisk == <<page, partial, rows, schema, listing>>
wikiStore == <<db, opening>>
wikiVars == <<wikiDisk, wikiStore, writer, search, versions, mishaps, heldTexts, drifted>>

Half == -1
Callers == {"writer", "search"}
IdleWriter == [at |-> "idle", op |-> "none", id |-> 0, text |-> 0, left |-> {}, listed |-> <<>>, touched |-> {}]
NoSearch == [at |-> "idle", known |-> {}, hits |-> {}]

Files == {i \in Articles : page[i] # 0}

\* The ids an operation in progress is about.
About == CASE writer.op = "none" -> {}
           [] writer.op = "rebuild" -> Articles
           [] OTHER -> {writer.id}

-----------------------------------------------------------------------------
(* open, by whoever finds no database: its steps are not under a lock *)

NeedsIndex(p) == IF p = "writer" THEN writer.at \in {"index", "unindex", "clear"}
                                 ELSE search.at = "open"
HasIndex(p) == db /\ opening[p] = "no"

\* The tables are created, and the version is read: another or none is to be dropped.
ReadVersion(p) ==
  /\ NeedsIndex(p) /\ ~db /\ opening[p] = "no"
  /\ opening' = [opening EXCEPT ![p] = IF schema = "ours" THEN "record" ELSE "drop"]
  /\ UNCHANGED <<wikiDisk, db, writer, search, versions, mishaps, heldTexts, drifted>>

\* What it drops may have been written since, by whoever opened the index meanwhile.
DropStale(p) ==
  LET gone == {i \in Articles : rows[i] # 0}
      fill == writer.op = "rebuild" /\ writer.at = "index"
  IN  /\ opening[p] = "drop"
      /\ rows' = [i \in Articles |-> 0] /\ schema' = "none"
      /\ opening' = [opening EXCEPT ![p] = "record"]
      /\ drifted' = drifted \union gone
      /\ writer' = [writer EXCEPT !.touched = IF fill THEN @ \union gone ELSE @]
      /\ UNCHANGED <<page, partial, listing, db, search, versions, mishaps, heldTexts>>

RecordVersion(p) ==
  /\ opening[p] = "record"
  /\ schema' = "ours" /\ db' = TRUE /\ opening' = [opening EXCEPT ![p] = "no"]
  /\ UNCHANGED <<page, partial, rows, listing, writer, search, versions, mishaps, heldTexts, drifted>>

CloseIndex ==
  /\ db /\ db' = FALSE
  /\ UNCHANGED <<wikiDisk, opening, writer, search, versions, mishaps, heldTexts, drifted>>

-----------------------------------------------------------------------------
(* Put, Delete, Rebuild *)

To(step) == writer' = [writer EXCEPT !.at = step]

PublishPage(i, text) ==
  /\ page' = [page EXCEPT ![i] = text]
  /\ heldTexts' = [heldTexts EXCEPT ![i] = @ \union {text}]

\* Put has read what is there and cut what is too long, and opens the temporary file ...
Put(i) ==
  /\ writer.at = "idle" /\ versions < MaxVersions
  /\ versions' = versions + 1
  /\ writer' = [IdleWriter EXCEPT !.at = "write", !.op = "put", !.id = i, !.text = versions']
  /\ partial' = [partial EXCEPT ![i] = Half]
  /\ UNCHANGED <<page, rows, schema, listing, wikiStore, search, mishaps, heldTexts, drifted>>

\* ... and fills it ...
Write ==
  /\ writer.at = "write" /\ To("rename")
  /\ partial' = [partial EXCEPT ![writer.id] = writer.text]
  /\ UNCHANGED <<page, rows, schema, listing, wikiStore, search, versions, mishaps, heldTexts, drifted>>

\* ... and renames it into place.
Rename ==
  /\ writer.at = "rename"
  /\ PublishPage(writer.id, partial[writer.id])
  /\ partial' = [partial EXCEPT ![writer.id] = 0]
  /\ writer' = [writer EXCEPT !.at = "index", !.touched = {}]
  /\ UNCHANGED <<rows, schema, listing, wikiStore, search, versions, mishaps, drifted>>

\* index, of the article that was put or of the next one that Rebuild listed.
Index ==
  /\ writer.at = "index" /\ HasIndex("writer")
  /\ UNCHANGED <<page, partial, schema, listing, wikiStore, search, versions, mishaps, heldTexts>>
  /\ \/ /\ writer.op = "put" /\ To("list")
        /\ rows' = [rows EXCEPT ![writer.id] = writer.text]
        /\ drifted' = drifted \ ({writer.id} \ writer.touched)
     \/ /\ writer.op = "rebuild" /\ writer.left # {}
        /\ \E i \in writer.left :
             /\ \A j \in writer.left : i <= j
             /\ rows' = [rows EXCEPT ![i] = writer.listed[i]]
             /\ writer' = [writer EXCEPT !.left = @ \ {i}]
        /\ UNCHANGED drifted
     \/ /\ writer.op = "rebuild" /\ writer.left = {} /\ To("list")
        /\ drifted' = writer.touched /\ UNCHANGED rows

\* Delete removes the file ...
DeletePage(i) ==
  /\ writer.at = "idle" /\ page[i] # 0
  /\ page' = [page EXCEPT ![i] = 0]
  /\ writer' = [IdleWriter EXCEPT !.at = "unindex", !.op = "delete", !.id = i]
  /\ UNCHANGED <<partial, rows, schema, listing, wikiStore, search, versions, mishaps, heldTexts, drifted>>

\* ... and its row.
Unindex ==
  /\ writer.at = "unindex" /\ HasIndex("writer") /\ To("list")
  /\ rows' = [rows EXCEPT ![writer.id] = 0]
  /\ drifted' = drifted \ ({writer.id} \ writer.touched)
  /\ UNCHANGED <<page, partial, schema, listing, wikiStore, search, versions, mishaps, heldTexts>>

\* Rebuild lists the files ...
Rebuild ==
  /\ writer.at = "idle"
  /\ writer' = [IdleWriter EXCEPT !.at = "clear", !.op = "rebuild", !.left = Files, !.listed = page]
  /\ UNCHANGED <<wikiDisk, wikiStore, search, versions, mishaps, heldTexts, drifted>>

\* mutant: the rows that are there are kept.
ClearNothing ==
  /\ writer.at = "clear" /\ HasIndex("writer") /\ To("index")
  /\ UNCHANGED <<wikiDisk, wikiStore, search, versions, mishaps, heldTexts, drifted>>

\* ... and clears the index, to fill it with them.
Clear ==
  /\ writer.at = "clear" /\ HasIndex("writer") /\ To("index")
  /\ rows' = [i \in Articles |-> 0] /\ drifted' = Articles
  /\ UNCHANGED <<page, partial, schema, listing, wikiStore, search, versions, mishaps, heldTexts>>

\* writeIndexFile, of the files as they are.
WriteIndexFile ==
  /\ writer.at = "list" /\ writer' = IdleWriter
  /\ listing' = Files
  /\ UNCHANGED <<page, partial, rows, schema, wikiStore, search, versions, mishaps, heldTexts, drifted>>

\* A write, a rename or a statement fails (a context that ended, a database that was
\* closed), and the operation returns with what it did done.  A failed rename removes
\* the temporary file; a Delete that cannot open the index goes on without.
Fail ==
  /\ writer.at \in {"write", "rename", "index", "unindex", "clear"}
  /\ opening["writer"] = "no"
  /\ mishaps < MaxWikiMishaps /\ mishaps' = mishaps + 1
  /\ partial' = IF writer.at = "rename" THEN [partial EXCEPT ![writer.id] = 0] ELSE partial
  /\ drifted' = drifted \union About
  /\ \/ writer' = IdleWriter
     \/ writer.at = "unindex" /\ ~db /\ To("list")
  /\ UNCHANGED <<page, rows, schema, listing, wikiStore, search, versions, heldTexts>>

-----------------------------------------------------------------------------
\* Search opens the index, lists the files ...
Search ==
  /\ search.at = "idle" /\ search' = [NoSearch EXCEPT !.at = "open"]
  /\ UNCHANGED <<wikiDisk, wikiStore, writer, versions, mishaps, heldTexts, drifted>>

List ==
  /\ search.at = "open" /\ HasIndex("search")
  /\ search' = [search EXCEPT !.at = "query", !.known = Files]
  /\ UNCHANGED <<wikiDisk, wikiStore, writer, versions, mishaps, heldTexts, drifted>>

\* ... and matches the rows, passing over those of files it has not listed; a short query
\* looks through the files it listed (scanFor) instead.
Query ==
  /\ search.at = "query"
  /\ search' = [NoSearch EXCEPT !.hits = {i \in search.known : rows[i] # 0}]
  /\ UNCHANGED <<wikiDisk, wikiStore, writer, versions, mishaps, heldTexts, drifted>>

\* Somebody writes or removes an article by hand.
EditByHand(i) ==
  /\ versions < MaxVersions /\ versions' = versions + 1
  /\ \/ PublishPage(i, versions')
     \/ page[i] # 0 /\ page' = [page EXCEPT ![i] = 0] /\ UNCHANGED heldTexts
  /\ drifted' = drifted \union {i}
  /\ writer' = [writer EXCEPT !.touched = IF writer.at = "idle" THEN {} ELSE @ \union {i}]
  /\ UNCHANGED <<partial, rows, schema, listing, wikiStore, search, mishaps>>

\* The process is killed; the next one opens the store again.
Crash ==
  /\ mishaps < MaxWikiMishaps /\ mishaps' = mishaps + 1
  /\ db' = FALSE /\ opening' = [p \in Callers |-> "no"]
  /\ writer' = IdleWriter /\ search' = NoSearch
  /\ drifted' = drifted \union About
  /\ UNCHANGED <<wikiDisk, versions, heldTexts>>

-----------------------------------------------------------------------------
\* The index is new, of this version, or of another one.
WikiInit ==
  /\ page = [i \in Articles |-> 0] /\ partial = page /\ rows = page /\ listing = {}
  /\ schema \in {"none", "ours", "theirs"}
  /\ db = FALSE /\ opening = [p \in Callers |-> "no"]
  /\ writer = IdleWriter /\ search = NoSearch /\ versions = 0 /\ mishaps = 0
  /\ heldTexts = [i \in Articles |-> {}] /\ drifted = {}

WikiNext ==
  \/ \E p \in Callers : ReadVersion(p) \/ DropStale(p) \/ RecordVersion(p)
  \/ \E i \in Articles : Put(i) \/ DeletePage(i) \/ EditByHand(i)
  \/ Write \/ Rename \/ Index \/ Unindex \/ Rebuild \/ Clear \/ WriteIndexFile \/ Fail
  \/ Search \/ List \/ Query \/ CloseIndex \/ Crash

WikiSpec == WikiInit /\ [][WikiNext]_wikiVars

-----------------------------------------------------------------------------
(* Properties *)

\* The state is what the declarations allow, and no article is ever half a text.
WikiTypeOK ==
  /\ \A i \in Articles : page[i] \in 0 .. versions /\ partial[i] \in Half .. versions
  /\ listing \subseteq Articles /\ drifted \subseteq Articles

\* The index is never ahead of the files: it holds no text that was not an article's.
\* And it says what they say, as the listing does, wherever no operation was cut or
\* failed, nobody wrote by hand and no open dropped the row: one that finds the index of
\* another version drops all rows, those included that were written while it was between
\* reading the version and the drop, by whoever opened the index in that time.  A Rebuild
\* brings all of it back.
IndexFollowsFiles ==
  /\ \A i \in Articles : rows[i] # 0 => rows[i] \in heldTexts[i]
  /\ writer.at = "idle" =>
       \A i \in Articles \ drifted : rows[i] = page[i] /\ (i \in listing <=> page[i] # 0)
=============================================================================
