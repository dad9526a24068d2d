------------------------------ MODULE NewsFeed ------------------------------
(***************************************************************************)
(* News collection (services/news.py, collect_news in scheduler.py,        *)
(* classify_new_news in services/providers.py, services/push.py): fetches  *)
(* of one source that overlap, a classification that awaits a model while  *)
(* the headlines change, and the notifications of what was found.          *)
(*                                                                         *)
(* The process runs one event loop: what lies between two awaits is a      *)
(* step.  A text is <<u, t>>, the t-th wording of the item with the url u. *)
(***************************************************************************)
EXTENDS Integers, Sequences

CONSTANTS Manual,     \* POST /news/sources/{id}/fetch, as many as overlap
          CheckIns,   \* check-ins of a pool and analyses of a league that fetch
          Alarming,   \* the texts whose keywords are of an injury or a transaction
          BatchSize,  \* 20 in the code
          MaxPage,    \* bounds on the versions of the source's page
          MaxRestarts \* and on the restarts

NewsFeedAssumption ==
    /\ BatchSize \in Nat \ {0} /\ MaxPage \in Nat \ {0} /\ MaxRestarts \in Nat
    /\ "collect" \notin Manual \cup CheckIns /\ Manual \cap CheckIns = {}

VARIABLES
    page,       \* the version of the page the source serves
    items,      \* NewsItem by id, and the text its label was chosen for
    alerts,     \* Alert by id, how often it was pushed (2 for more), and, as
                \* history, whether it was stored for several that push
    etag,       \* the stored NewsSource.etag, 0 for none
    labelled,   \* the texts with an ai_news_classification snapshot
    reader,     \* the fetch of each reader
    queue,      \* what collect_news is classifying: <<id, text>>
    restarts

vars == <<page, items, alerts, etag, labelled, reader, queue, restarts>>

(* collect_news, of which one runs at a time, and who asks meanwhile.      *)
Readers == {"collect"} \cup Manual \cup CheckIns

(* Who pushes, at its end, the alerts that are newer than its start.       *)
Pushing == {"collect"} \cup Manual

(* The first item is on every page in a new wording, another is added.     *)
Listed(v) == {<<1, v>>} \cup {<<u, u>> : u \in 2..v}

Texts == UNION {Listed(v) : v \in 1..MaxPage}

Labels == {"info", "alarm"}

Keywords(text) == IF text \in Alarming THEN "alarm" ELSE "info"

Idle == [at |-> "idle", sent |-> 0, got |-> 0, news |-> 0, alert |-> 0]

TypeOK ==
    /\ page \in 1..MaxPage
    /\ items \in Seq([text : Texts, judged : Texts, label : Labels])
    /\ \A i, j \in DOMAIN items : items[i].text[1] = items[j].text[1] => i = j
    /\ alerts \in Seq([text : Texts, label : Labels, pushed : 0..2, shared : BOOLEAN])
    /\ \A i, j \in DOMAIN alerts : alerts[i].text = alerts[j].text => i = j
    /\ etag \in 0..MaxPage
    /\ labelled \subseteq Texts
    /\ reader \in [Readers ->
           [at : {"idle", "asking", "answered", "fetched", "waiting", "notifying"},
            sent : 0..MaxPage, got : 0..MaxPage, news : Nat, alert : Nat]]
    /\ queue \in Seq(Nat \X Texts)
    /\ restarts \in 0..MaxRestarts

Init ==
    /\ page = 1
    /\ items = <<>> /\ alerts = <<>> /\ etag = 0 /\ labelled = {}
    /\ reader = [r \in Readers |-> Idle]
    /\ queue = <<>>
    /\ restarts = 0

PublishPage ==
    /\ page < MaxPage
    /\ page' = page + 1
    /\ UNCHANGED <<items, alerts, etag, labelled, reader, queue, restarts>>

-----------------------------------------------------------------------------
(* A fetch begins: the newest ids are noted, of items by the collection    *)
(* and of alerts by all that push, and the etag is sent.                   *)
BeginFetch(r) ==
    /\ reader[r].at = "idle"
    /\ reader' = [reader EXCEPT ![r] =
           [at |-> "asking", sent |-> etag, got |-> 0,
            news |-> IF r = "collect" THEN Len(items) ELSE 0,
            alert |-> IF r \in Pushing THEN Len(alerts) ELSE 0]]
    /\ UNCHANGED <<page, items, alerts, etag, labelled, queue, restarts>>

(* The source serves its page then, or 304: got 0.                         *)
Answer(r) ==
    /\ reader[r].at = "asking"
    /\ reader' = [reader EXCEPT
           ![r].at = "answered", ![r].sent = 0,
           ![r].got = IF reader[r].sent = page THEN 0 ELSE page]
    /\ UNCHANGED <<page, items, alerts, etag, labelled, queue, restarts>>

(* Where a fetch goes on: the collection classifies next, a manual fetch   *)
(* pushes in the same step, a check-in is done.                            *)
Fetched(r) ==
    reader' = [reader EXCEPT ![r] =
        IF r = "collect" THEN [@ EXCEPT !.at = "fetched", !.sent = 0, !.got = 0] ELSE Idle]

(* Two that push are under way: neither knows of the other.                *)
Together ==
    \E q, r \in Pushing : q # r /\ reader[q].at # "idle" /\ reader[r].at # "idle"

(* An alert is stored once for each alarming text.                         *)
StoreAlert(as, text) ==
    IF \A a \in DOMAIN as : as[a].text # text
    THEN Append(as, [text |-> text, label |-> "alarm", pushed |-> 0, shared |-> Together])
    ELSE as

(* _store_item: of a known text nothing is written.                        *)
ItemOf(its, text) == {i \in DOMAIN its : its[i].text[1] = text[1]}

StoreItem(db, text) ==
    LET row == [text |-> text, judged |-> text, label |-> Keywords(text)]
        known == ItemOf(db.items, text)
    IN IF \E i \in known : db.items[i].text = text
       THEN db
       ELSE [items |-> IF known = {} THEN Append(db.items, row)
                       ELSE [i \in DOMAIN db.items |-> IF i \in known THEN row ELSE db.items[i]],
             alerts |-> IF text \in Alarming THEN StoreAlert(db.alerts, text) ELSE db.alerts]

(* The entries of the page, in its order, as fetch_source stores them.     *)
Page(v) == [u \in 1..v |-> IF u = 1 THEN <<1, v>> ELSE <<u, u>>]

StorePage(v) ==
    LET after[u \in 0..v] ==
            IF u = 0 THEN [items |-> items, alerts |-> alerts]
            ELSE StoreItem(after[u - 1], Page(v)[u])
    IN  after[v]

(* send_notification of the alerts that pass the reader's query.           *)
Pushed(as, from, unfiltered) ==
    [a \in DOMAIN as |->
        IF a > from /\ (unfiltered \/ as[a].label = "alarm")
        THEN [as[a] EXCEPT !.pushed = IF @ = 2 THEN 2 ELSE @ + 1] ELSE as[a]]

FetchSource(r) ==
    /\ reader[r].at = "answered"
    /\ LET db == IF reader[r].got = 0 THEN [items |-> items, alerts |-> alerts]
                 ELSE StorePage(reader[r].got)
       IN /\ items' = db.items
          /\ alerts' = IF r \in Manual THEN Pushed(db.alerts, reader[r].alert, TRUE)
                       ELSE db.alerts
    /\ etag' = IF reader[r].got = 0 THEN etag ELSE reader[r].got
    /\ Fetched(r)
    /\ UNCHANGED <<page, labelled, queue, restarts>>

(* No answer, an error status, or an entry that cannot be parsed after     *)
(* others were stored: the transaction is rolled back.                     *)
FetchFails(r) ==
    /\ reader[r].at \in {"asking", "answered"}
    /\ Fetched(r)
    /\ UNCHANGED <<page, items, alerts, etag, labelled, queue, restarts>>

-----------------------------------------------------------------------------
(* classify_new_news of the items with newer ids, with the texts they have *)
(* now; without an enabled provider nothing is classified.                 *)
NewItems ==
    LET after[i \in 0..Len(items)] ==
            IF i = 0 THEN <<>>
            ELSE IF i > reader["collect"].news /\ items[i].text \notin labelled
                 THEN Append(after[i - 1], <<i, items[i].text>>) ELSE after[i - 1]
    IN  after[Len(items)]

ClassifyNewNews ==
    /\ reader["collect"].at = "fetched"
    /\ \/ /\ queue' = NewItems /\ NewItems # <<>>
          /\ reader' = [reader EXCEPT !["collect"].at = "waiting"]
       \/ /\ queue' = <<>>
          /\ reader' = [reader EXCEPT !["collect"].at = "notifying"]
    /\ UNCHANGED <<page, items, alerts, etag, labelled, restarts>>

Batch == SubSeq(queue, 1, IF Len(queue) < BatchSize THEN Len(queue) ELSE BatchSize)

NextBatch ==
    /\ queue' = SubSeq(queue, Len(Batch) + 1, Len(queue))
    /\ reader' = [reader EXCEPT !["collect"].at =
           IF Len(queue) > Len(Batch) THEN "waiting" ELSE "notifying"]

(* The alerts after the texts of a batch got their labels: those there     *)
(* are take them, and alarming texts without one get one.                  *)
Relabelled(label, judged) ==
    LET updated == [a \in DOMAIN alerts |->
                       IF alerts[a].text \in judged
                       THEN [alerts[a] EXCEPT !.label = label[alerts[a].text]] ELSE alerts[a]]
        after[k \in 0..Len(Batch)] ==
            IF k = 0 THEN updated
            ELSE IF Batch[k][2] \in judged /\ label[Batch[k][2]] = "alarm"
                 THEN StoreAlert(after[k - 1], Batch[k][2]) ELSE after[k - 1]
    IN  after[Len(Batch)]

(* The model's labels for a batch; an item that reads otherwise by now     *)
(* keeps its own.                                                          *)
LabelBatch ==
    /\ reader["collect"].at = "waiting"
    /\ LET judged == {Batch[k][2] : k \in {j \in DOMAIN Batch : items[Batch[j][1]].text = Batch[j][2]}}
       IN \E label \in [judged -> Labels] :
            /\ items' = [i \in DOMAIN items |->
                   IF items[i].text \in judged
                   THEN [items[i] EXCEPT !.label = label[items[i].text], !.judged = items[i].text]
                   ELSE items[i]]
            /\ alerts' = Relabelled(label, judged)
            /\ labelled' = labelled \cup judged
    /\ NextBatch
    /\ UNCHANGED <<page, etag, restarts>>

(* The model fails, or answers other ids: the rest is not classified.      *)
LabelFails ==
    /\ reader["collect"].at = "waiting"
    /\ queue' = <<>>
    /\ reader' = [reader EXCEPT !["collect"].at = "notifying"]
    /\ UNCHANGED <<page, items, alerts, etag, labelled, restarts>>

SendNotifications ==
    /\ reader["collect"].at = "notifying"
    /\ alerts' = Pushed(alerts, reader["collect"].alert, FALSE)
    /\ reader' = [reader EXCEPT !["collect"] = Idle]
    /\ UNCHANGED <<page, items, etag, labelled, queue, restarts>>

Restart ==
    /\ restarts < MaxRestarts
    /\ restarts' = restarts + 1
    /\ reader' = [r \in Readers |-> Idle]
    /\ queue' = <<>>
    /\ UNCHANGED <<page, items, alerts, etag, labelled>>

Next ==
    \/ PublishPage \/ Restart
    \/ \E r \in Readers : BeginFetch(r) \/ Answer(r) \/ FetchSource(r) \/ FetchFails(r)
    \/ ClassifyNewNews \/ LabelBatch \/ LabelFails \/ SendNotifications

Spec == Init /\ [][Next]_vars

-----------------------------------------------------------------------------
(* No headline carries the label of an older wording: whatever a fetch     *)
(* stored while the model was thinking, the label of an item was chosen    *)
(* for the text it has.                                                    *)
LabelsMatchText == \A i \in DOMAIN items : items[i].judged = items[i].text

(* What the stored etag names is what is stored, so the 304 it gets misses *)
(* nothing: a fetch that failed, or was overtaken, leaves no etag of a     *)
(* page whose items are not there.                                         *)
EtagTellsItems ==
    etag # 0 => \A text \in Listed(etag) : \E i \in DOMAIN items : items[i].text = text

(* An alert is pushed once, however often its text is fetched again, by    *)
(* whom, and whatever the model says of it, unless two that push, manual   *)
(* fetches or one and the collection, were under way when it was stored:   *)
(* each of these then pushes it.                                           *)
NotifiedOnce == \A a \in DOMAIN alerts : ~alerts[a].shared => alerts[a].pushed <= 1
=============================================================================
