------------------------------- MODULE DataDir -------------------------------
(***************************************************************************)
(* The data directory that the dataservice writes and the webserver reads  *)
(* (internal/storage).  A file's content is abstracted to the number of    *)
(* the crawl that produced it, counted from 1.  Crawl numbers also order   *)
(* the modification times: PutAssets runs at most once per crawl.          *)
(*                                                                         *)
(* writeAtomic makes every JSON file a single register: a reader sees the  *)
(* old content or the new one.  A bleve index is a directory, replaced by  *)
(* renames, so it is modelled with its identity (the inode os.SameFile     *)
(* compares) and with whether it can be opened.                            *)
(***************************************************************************)
EXTENDS Naturals

VARIABLES
    assetsFile,   \* assets.json: the crawl it holds, Missing when absent
    ratesFile,    \* rates.json: the crawl that fetched it, Missing when absent
    statsFile,    \* stats.json: the crawl it describes, Missing when absent
    published,    \* index.bleve
    staging,      \* index.bleve.staging
    previous      \* index.bleve.previous

dirVars == <<assetsFile, ratesFile, statsFile, published, staging, previous>>

\* No such file.  For rates it also stands for money.Fallback(), the table
\* every reader uses when there is no rates.json.
Missing == 0

\* A path an index may be at.  form tells nothing there from a directory bleve
\* cannot open (half built, half removed, an old format) and a scorch index it
\* can.  id is the build that made the directory, assets the crawl its
\* documents came from, rates the snapshot its prices were converted with.
Form == {"absent", "broken", "scorch"}
IndexDir == [form: Form, id: Nat, assets: Nat, rates: Nat]

NoIndex == [form |-> "absent", id |-> Missing, assets |-> Missing, rates |-> Missing]

Present(dir) == dir.form # "absent"
Usable(dir) == dir.form = "scorch"

\* os.RemoveAll interrupted, or failing, part way through dir.
Damaged(dir) == IF Present(dir) THEN [dir EXCEPT !.form = "broken"] ELSE dir

\* The index a publish leaves for readers: the published one or, between the
\* two renames of PublishIndex, the one it moved aside.
DiskIndex == IF Present(published) THEN published ELSE previous

DirTypeOK ==
    /\ assetsFile \in Nat
    /\ ratesFile \in Nat
    /\ statsFile \in Nat
    /\ published \in IndexDir
    /\ staging \in IndexDir
    /\ previous \in IndexDir

\* A fresh volume, or one on which crawl 1 was published by an older build:
\* with an index this build opens, one it cannot (upsidedown), none at all,
\* or one left under the previous name by an interrupted publish.  rates.json
\* and stats.json may predate the crawl that wrote assets.json.
DirInit ==
    LET old(form) == [form |-> form, id |-> 1, assets |-> 1, rates |-> ratesFile]
    IN  /\ assetsFile \in {Missing, 1}
        /\ ratesFile \in {Missing, assetsFile}
        /\ statsFile \in {Missing, assetsFile}
        /\ staging = NoIndex
        /\ \/ published = NoIndex /\ previous = NoIndex
           \/ /\ assetsFile = 1
              /\ \/ \E form \in {"broken", "scorch"} :
                    published = old(form) /\ previous = NoIndex
                 \/ published = NoIndex /\ previous = old("scorch")
==============================================================================
