------------------------------ MODULE FileCache ------------------------------
(***************************************************************************)
(* The cache of downloaded files (filecache.cpp) and the part of the image *)
(* manager that feeds on it (imgmanager.cpp).  Three kinds of threads: the *)
(* main thread asks for files, one worker runs the transfers, and each     *)
(* file that arrives is handed out on a thread of std::async.  The table   *)
(* of callbacks belongs to the main thread and to the async threads, the   *)
(* queue of the worker to the main thread and to the worker; the file      *)
(* itself is seen by all of them.                                          *)
(***************************************************************************)
EXTENDS Naturals, Sequences, FiniteSets, Functions

CONSTANTS
    Urls,           \* what can be asked for; each has a cached name of its own
    Requests,       \* calls of GetFileFromURL (bound)
    Concurrency,    \* CacheHTTPConcurrency, transfers at a time
    Refused         \* the URLs for which no file can be opened

ASSUME FileCacheAssumption == Concurrency \in Nat \ {0} /\ Refused \subseteq Urls

VARIABLES
    \* the main thread
    main,       \* where it is in GetFileFromURL or ~Cache, for which request and URL
    asked,      \* requests made
    \* Cache
    callbacks,  \* m_callbacks: the requests that wait for each URL in it
    tasks,      \* m_futures that have not ended
    files,      \* the file of each URL: none, being written, whole, or of a transfer that failed
    \* FileCacheWorkerThread
    queue,      \* m_queue
    worker,     \* where the loop is
    handles,    \* the URLs of m_handles
    ended,      \* those whose transfer has ended
    stop,       \* m_stop
    \* ImageManager
    loaded,     \* m_cb_queue
    ran,        \* how often the callback of a request ran
    \* history: what unchecked results and missing locks have led to
    failed,     \* the requests whose callback was handed the file of a failed transfer
    raced,      \* URLs whose entry was taken between a lookup and the insertion it led to
    missed      \* has the worker missed stop's notification?

cache    == <<callbacks, tasks, files>>
transfer == <<queue, worker, handles, ended, stop>>
images   == <<loaded, ran>>
history  == <<failed, raced, missed>>
vars     == <<main, asked, cache, transfer, images, history>>

Idle == [at |-> "idle"]

Init ==
    /\ main = Idle /\ asked = {}
    /\ callbacks = [u \in {} |-> {}] /\ tasks = {} /\ files = [u \in Urls |-> "none"]
    /\ queue = <<>> /\ worker = "top" /\ handles = {} /\ ended = {} /\ stop = FALSE
    /\ loaded = <<>> /\ ran = [r \in Requests |-> 0]
    /\ failed = {} /\ raced = {} /\ missed = FALSE

\* A thread of OnResponse that has yet to take the callbacks, and one that runs them.
Response(u)    == [kind |-> "takes", url |-> u]
Calls(u, reqs) == IF reqs = {} THEN {} ELSE {[kind |-> "calls", url |-> u, reqs |-> reqs]}

----------------------------------------------------------------------------
(* The main thread *)

\* The file is there, and its callback runs on a thread of its own, or it is not:
\* the main thread goes on to look the URL up in the table.
GetFileFromURL(r, u) ==
    /\ main = Idle /\ r \notin asked /\ asked' = asked \cup {r}
    /\ \/ /\ files[u] # "none"
          /\ tasks' = tasks \cup Calls(u, {r})
          /\ UNCHANGED main
       \/ /\ files[u] = "none"
          /\ main' = [at |-> "looking", req |-> r, url |-> u]
          /\ UNCHANGED tasks
    /\ UNCHANGED <<callbacks, files, transfer, images, history>>

\* The worker left asleep.
BugAddImage(u) == queue' = Append(queue, u) /\ UNCHANGED worker

\* add_image queues the URL and wakes the worker, under the lock of the queue.
AddImage(u) ==
    /\ queue' = Append(queue, u)
    /\ worker' = IF worker = "waiting" THEN "take" ELSE worker

\* Nobody waits for the URL: it is to be fetched.
AsksWorker ==
    /\ main.at = "looking" /\ main.url \notin DOMAIN callbacks
    /\ callbacks' = [v \in DOMAIN callbacks \cup {main.url} |->
           IF v = main.url THEN {main.req} ELSE callbacks[v]]
    /\ AddImage(main.url) /\ main' = Idle
    /\ UNCHANGED <<asked, tasks, files, handles, ended, stop, images, history>>

\* The lookup forgotten: whoever misses the file has it fetched.
BugFindsEntry ==
    /\ main.at = "looking" /\ main.url \in DOMAIN callbacks
    /\ callbacks' = [callbacks EXCEPT ![main.url] = @ \cup {main.req}]
    /\ AddImage(main.url) /\ main' = Idle
    /\ UNCHANGED <<asked, tasks, files, handles, ended, stop, images, history>>

\* Somebody does ...
FindsEntry ==
    /\ main.at = "looking" /\ main.url \in DOMAIN callbacks
    /\ main' = [main EXCEPT !.at = "joining"]
    /\ UNCHANGED <<asked, cache, transfer, images, history>>

\* ... and the request joins.  Neither step takes the mutex: operator[] makes the
\* entry anew if a thread of OnResponse has taken it by now.
JoinsEntry ==
    /\ main.at = "joining"
    /\ callbacks' = [v \in DOMAIN callbacks \cup {main.url} |->
           (IF v \in DOMAIN callbacks THEN callbacks[v] ELSE {})
           \cup (IF v = main.url THEN {main.req} ELSE {})]
    /\ raced' = raced \cup ({main.url} \ DOMAIN callbacks)
    /\ main' = Idle
    /\ UNCHANGED <<asked, tasks, files, transfer, images, failed, missed>>

BugQuit ==
    /\ main = Idle /\ stop' = TRUE /\ main' = [at |-> "quitting"]
    /\ UNCHANGED <<asked, cache, queue, worker, handles, ended, images, history>>

\* ~Cache: the worker is told to stop, without the lock of the queue: a worker about
\* to wait is not woken.
Quit ==
    /\ main = Idle
    /\ stop' = TRUE /\ main' = [at |-> "quitting"]
    /\ worker' = IF worker = "waiting" THEN "take" ELSE worker
    /\ UNCHANGED <<asked, cache, queue, handles, ended, images, history>>

\* The worker has been joined and every future has been got: the files are removed.
Destroyed ==
    /\ main.at = "quitting" /\ worker = "ended" /\ tasks = {}
    /\ main' = [at |-> "gone"] /\ files' = [u \in Urls |-> "none"]
    /\ UNCHANGED <<asked, callbacks, tasks, transfer, images, history>>

\* One notification taken to stand for everything queued.
BugRunCallbacks ==
    /\ main = Idle /\ loaded # <<>>
    /\ ran' = [ran EXCEPT ![Head(loaded)] = @ + 1] /\ loaded' = <<>>
    /\ UNCHANGED <<main, asked, cache, transfer, history>>

\* The image of the front of the queue is shown.
RunCallbacks ==
    /\ main = Idle /\ loaded # <<>>
    /\ ran' = [ran EXCEPT ![Head(loaded)] = @ + 1] /\ loaded' = Tail(loaded)
    /\ UNCHANGED <<main, asked, cache, transfer, history>>

----------------------------------------------------------------------------
(* The worker: FileCacheWorkerThread::loop *)

LoopTests ==
    /\ worker = "top"
    /\ worker' = IF stop THEN "ended" ELSE IF handles = {} THEN "checking" ELSE "take"
    /\ UNCHANGED <<main, asked, cache, queue, handles, ended, stop, images, history>>

\* With the lock held: wait is not called in a loop, and wakes up for any reason.
LoopWaits ==
    /\ worker = "checking"
    /\ worker' = IF queue = <<>> THEN "waiting" ELSE "take"
    /\ missed' = (stop /\ queue = <<>>)
    /\ UNCHANGED <<main, asked, cache, queue, handles, ended, stop, images, failed, raced>>

Wakes ==
    /\ worker = "waiting" /\ worker' = "take" /\ missed' = FALSE
    /\ UNCHANGED <<main, asked, cache, queue, handles, ended, stop, images, failed, raced>>

MayTake == queue # <<>> /\ Cardinality(handles) < Concurrency

BugOpens(u) == files' = [files EXCEPT ![u] = "partial"]

\* fopen of the name that ends in "!": the file of the URL itself is left alone.
Opens(u) == UNCHANGED files

LoopTakes ==
    /\ worker = "take" /\ MayTake /\ Head(queue) \notin handles \cup Refused
    /\ Opens(Head(queue))
    /\ queue' = Tail(queue) /\ handles' = handles \cup {Head(queue)} /\ worker' = "perform"
    /\ UNCHANGED <<main, asked, callbacks, tasks, ended, stop, images, history>>

\* Only one transfer of a URL at a time, and none when the file cannot be opened.
LoopDrops ==
    /\ worker = "take" /\ MayTake /\ Head(queue) \in handles \cup Refused
    /\ queue' = Tail(queue) /\ worker' = "top"
    /\ UNCHANGED <<main, asked, cache, handles, ended, stop, images, history>>

\* The entry popped before the limit is looked at.
BugLoopTakesNone ==
    /\ worker = "take" /\ ~MayTake /\ worker' = "perform"
    /\ queue' = IF queue = <<>> THEN queue ELSE Tail(queue)
    /\ UNCHANGED <<main, asked, cache, handles, ended, stop, images, history>>

LoopTakesNone ==
    /\ worker = "take" /\ ~MayTake /\ worker' = "perform"
    /\ UNCHANGED <<main, asked, cache, queue, handles, ended, stop, images, history>>

\* curl: the transfer of a URL ends.
TransferEnds(u) ==
    /\ u \in handles \ ended /\ ended' = ended \cup {u}
    /\ UNCHANGED <<main, asked, cache, queue, worker, handles, stop, images, history>>

\* CURLMSG_DONE: the result is not looked at.  Whole or cut short, the file gets its
\* name and OnFetchComplete has OnResponse run.
LoopCompletes(u) ==
    /\ worker = "perform" /\ u \in ended
    /\ handles' = handles \ {u} /\ ended' = ended \ {u}
    /\ \E how \in {"whole", "failed"} : files' = [files EXCEPT ![u] = how]
    /\ tasks' = tasks \cup {Response(u)}
    /\ UNCHANGED <<main, asked, callbacks, queue, worker, stop, images, history>>

LoopRepeats ==
    /\ worker = "perform" /\ ended = {} /\ worker' = "top"
    /\ UNCHANGED <<main, asked, cache, queue, handles, ended, stop, images, history>>

----------------------------------------------------------------------------
(* The threads of std::async *)

\* OnResponse takes the callbacks out of the table, under the lock ...
OnResponse(u) ==
    /\ Response(u) \in tasks
    /\ tasks' = (tasks \ {Response(u)})
                \cup Calls(u, IF u \in DOMAIN callbacks THEN callbacks[u] ELSE {})
    /\ callbacks' = [v \in DOMAIN callbacks \ {u} |-> callbacks[v]]
    /\ UNCHANGED <<main, asked, files, transfer, images, history>>

\* ... and runs them: the image manager's reads the file and queues the image, if
\* there is one.
Callback(task, r) ==
    /\ task.kind = "calls" /\ r \in task.reqs
    /\ tasks' = (tasks \ {task}) \cup Calls(task.url, task.reqs \ {r})
    /\ IF files[task.url] = "whole"
       THEN loaded' = Append(loaded, r) /\ UNCHANGED failed
       ELSE failed' = failed \cup {r} /\ UNCHANGED loaded
    /\ UNCHANGED <<main, asked, callbacks, files, transfer, ran, raced, missed>>

----------------------------------------------------------------------------
Main   == \/ \E r \in Requests, u \in Urls : GetFileFromURL(r, u)
          \/ AsksWorker \/ FindsEntry \/ JoinsEntry
          \/ Quit \/ Destroyed \/ RunCallbacks
Loop   == \/ LoopTests \/ LoopWaits \/ LoopTakes \/ LoopDrops \/ LoopTakesNone
          \/ LoopRepeats \/ \E u \in Urls : LoopCompletes(u)
Async  == \/ \E u \in Urls : OnResponse(u)
          \/ \E task \in tasks : \E r \in Requests : Callback(task, r)

Next == Main \/ Loop \/ Wakes \/ Async \/ \E u \in Urls : TransferEnds(u)

Spec == Init /\ [][Next]_vars

\* What the main thread has begun it goes on with, its main loop serves the image
\* manager, threads run and transfers end.  The user need not ask, nor quit.
FairSpec ==
    /\ Spec
    /\ WF_vars(AsksWorker \/ FindsEntry \/ JoinsEntry \/ Destroyed \/ RunCallbacks)
    /\ WF_vars(Loop) /\ WF_vars(Async) /\ \A u \in Urls : WF_vars(TransferEnds(u))

----------------------------------------------------------------------------
(* Types and properties *)

TypeOK ==
    /\ main \in [at : {"idle", "quitting", "gone"}]
                \cup [at : {"looking", "joining"}, req : Requests, url : Urls]
    /\ asked \subseteq Requests
    /\ DOMAIN callbacks \subseteq Urls /\ \A u \in DOMAIN callbacks : callbacks[u] \subseteq Requests
    /\ tasks \subseteq [kind : {"takes"}, url : Urls]
                       \cup [kind : {"calls"}, url : Urls, reqs : SUBSET Requests]
    /\ files \in [Urls -> {"none", "partial", "whole", "failed"}]
    /\ queue \in Seq(Urls) /\ worker \in {"top", "checking", "waiting", "take", "perform", "ended"}
    /\ handles \subseteq Urls /\ ended \subseteq handles /\ stop \in BOOLEAN
    /\ loaded \in Seq(Requests) /\ ran \in [Requests -> Nat]
    /\ failed \subseteq Requests /\ raced \subseteq Urls /\ missed \in BOOLEAN

\* What has been asked of the worker and not been handed out.
Queued    == Range(queue)
Responses == {u \in Urls : Response(u) \in tasks}

\* A URL is fetched once at a time, from add_image until OnResponse takes the
\* callbacks: "url is being requested twice" (filecache.cpp:164) is never printed,
\* no two transfers write to one file, and the callbacks wait in the table.
FetchedOnce ==
    /\ IsInjective(queue)
    /\ Queued \cap handles = {} /\ (Queued \cup handles) \cap Responses = {}
    /\ Queued \cup handles \cup Responses \subseteq DOMAIN callbacks

\* Nobody waits in the table for a URL that is not being fetched, but for two kinds:
\* one whose file could not be opened (the entry outlives the failure,
\* filecache.cpp:172), and one whose entry OnResponse took while GetFileFromURL was
\* between its lookup and its insertion, which hold no lock (filecache.cpp:60-61).
EntryIsFetched ==
    DOMAIN callbacks \subseteq Queued \cup handles \cup Responses \cup Refused \cup raced

\* No callback is handed a file that a transfer still writes, which is what the "!" of
\* filecache.cpp:169 is for: requests for a URL while it is fetched, and fetched again
\* while older callbacks still run, included.  A transfer that failed, or was cut short, is
\* over too: its file is renamed and handed out like a whole one (filecache.cpp:210).
PickedUpDone ==
    \A task \in tasks : task.kind = "calls" => files[task.url] \in {"whole", "failed"}

\* The worker sleeps only on an empty queue, and after stop only if stop came between
\* its look at m_stop and its wait, where the notification is lost (filecache.cpp:136).
Awake == worker = "waiting" => queue = <<>> /\ (stop => missed)

\* Whoever asks for a file sees it, unless the cache is destroyed first, its transfer
\* failed, or it waits in the table for one of the two kinds of URL that EntryIsFetched
\* excepts: a file that could not be opened, an entry taken after the lookup.
Answered ==
    \A r \in Requests :
        r \in asked ~>
            \/ ran[r] > 0 \/ stop \/ r \in failed
            \/ \E u \in (Refused \cup raced) \cap DOMAIN callbacks : r \in callbacks[u]

\* The destructor returns, whenever it comes: the worker and the async threads come to
\* their ends.  It hangs in one case, when the worker has missed the notification.
StopReturns == stop ~> main.at = "gone" \/ missed
=============================================================================
