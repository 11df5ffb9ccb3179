-------------------------- MODULE FileCacheProofs --------------------------
(***************************************************************************)
(* For every set of URLs and requests and every limit, whatever transfers  *)
(* fail and wherever the missing locks let threads in: a URL is fetched    *)
(* once at a time, callbacks are handed what no transfer still writes, and *)
(* whoever is stranded in the table, or sleeps after stop, is so for one   *)
(* of the reasons that the history variables record.                       *)
(***************************************************************************)
EXTENDS FileCache, SequenceTheorems, TLAPS

\* What a queue that grows at its end holds.
LEMMA Appended ==
    ASSUME NEW s \in Seq(Urls), NEW u \in Urls
    PROVE  /\ Range(Append(s, u)) = Range(s) \cup {u}
           /\ IsInjective(s) /\ u \notin Range(s) => IsInjective(Append(s, u))
<1> DEFINE t == Append(s, u)
<1>1. /\ DOMAIN t = 1..(Len(s) + 1) /\ DOMAIN s = 1..Len(s) /\ Len(s) \in Nat
      /\ \A i \in 1..Len(s) : t[i] = s[i]
      /\ t[Len(s) + 1] = u
    OBVIOUS
<1> HIDE DEF t
<1>2. Range(t) = Range(s) \cup {u}
    <2>1. \A i \in DOMAIN t : t[i] \in Range(s) \cup {u}
        BY <1>1 DEF Range
    <2>2. \A i \in DOMAIN s : s[i] \in Range(t)
        BY <1>1 DEF Range
    <2>3. u \in Range(t)
        BY <1>1 DEF Range
    <2> QED BY <2>1, <2>2, <2>3 DEF Range
<1>3. ASSUME IsInjective(s), u \notin Range(s) PROVE IsInjective(t)
    <2> SUFFICES ASSUME NEW i \in DOMAIN t, NEW j \in DOMAIN t, t[i] = t[j] PROVE i = j
        BY DEF IsInjective
    <2>1. \A k \in DOMAIN s : s[k] # u
        BY <1>3 DEF Range
    <2> QED BY <1>1, <1>3, <2>1 DEF IsInjective
<1> QED BY <1>2, <1>3 DEF t

\* What one that is shortened at its head holds.
LEMMA Shortened ==
    ASSUME NEW s \in Seq(Urls), s # <<>>
    PROVE  /\ Head(s) \in Urls /\ Tail(s) \in Seq(Urls)
           /\ Range(s) = Range(Tail(s)) \cup {Head(s)}
           /\ IsInjective(s) => IsInjective(Tail(s)) /\ Head(s) \notin Range(Tail(s))
<1> DEFINE t == Tail(s)
<1>1. /\ Head(s) \in Urls /\ t \in Seq(Urls) /\ Len(t) = Len(s) - 1
      /\ \A i \in 1..Len(t) : t[i] = s[i + 1]
    BY HeadTailProperties
<1>2. /\ DOMAIN t = 1..(Len(s) - 1) /\ DOMAIN s = 1..Len(s)
      /\ Len(s) \in Nat \ {0} /\ Head(s) = s[1]
    BY <1>1
<1> HIDE DEF t
<1>3. \A i \in DOMAIN s : i = 1 \/ (i - 1 \in DOMAIN t /\ s[i] = t[i - 1])
    BY <1>1, <1>2
<1>4. Range(s) = Range(t) \cup {Head(s)}
    <2>1. \A i \in DOMAIN s : s[i] \in Range(t) \cup {Head(s)}
        BY <1>2, <1>3 DEF Range
    <2>2. \A i \in DOMAIN t : t[i] \in Range(s)
        BY <1>1, <1>2 DEF Range
    <2>3. Head(s) \in Range(s)
        BY <1>2 DEF Range
    <2> QED BY <2>1, <2>2, <2>3 DEF Range
<1>5. ASSUME IsInjective(s) PROVE IsInjective(t) /\ Head(s) \notin Range(t)
    <2>1. \A i \in DOMAIN t : i + 1 \in DOMAIN s /\ t[i] = s[i + 1] /\ i + 1 # 1
        BY <1>1, <1>2
    <2>2. IsInjective(t)
        <3> SUFFICES ASSUME NEW i \in DOMAIN t, NEW j \in DOMAIN t, t[i] = t[j] PROVE i = j
            BY DEF IsInjective
        <3>1. i + 1 = j + 1
            BY <1>5, <2>1 DEF IsInjective
        <3> QED BY <1>2, <3>1
    <2>3. Head(s) \notin Range(t)
        BY <1>2, <1>5, <2>1 DEF IsInjective, Range
    <2> QED BY <2>2, <2>3
<1> QED BY <1>1, <1>4, <1>5 DEF t

----------------------------------------------------------------------------
(* Types *)

\* A thread that runs callbacks is no thread of OnResponse.
LEMMA CallsTypes ==
    ASSUME NEW u \in Urls, NEW reqs \in SUBSET Requests
    PROVE  /\ Calls(u, reqs) \subseteq [kind : {"calls"}, url : Urls, reqs : SUBSET Requests]
           /\ \A v : Response(v) \notin Calls(u, reqs)
           /\ \A task \in Calls(u, reqs) : task.kind = "calls" /\ task.url = u
BY DEF Calls, Response

LEMMA InitTypeOK == ASSUME Init PROVE TypeOK
<1>1. callbacks = [u \in {} |-> {}] /\ DOMAIN callbacks = {}
    BY DEF Init
<1>2. queue \in Seq(Urls) /\ loaded \in Seq(Requests)
    BY DEF Init
<1>3. main \in [at : {"idle", "quitting", "gone"}]
    BY DEF Init, Idle
<1> QED BY <1>1, <1>2, <1>3 DEF Init, TypeOK

LEMMA StepTypeOK == ASSUME TypeOK, [Next]_vars PROVE TypeOK'
<1> USE DEF TypeOK
<1>1. ASSUME NEW r \in Requests, NEW u \in Urls, GetFileFromURL(r, u) PROVE TypeOK'
    <2>1. Calls(u, {r}) \subseteq [kind : {"calls"}, url : Urls, reqs : SUBSET Requests]
        BY CallsTypes
    <2>2. [at |-> "looking", req |-> r, url |-> u]
              \in [at : {"looking", "joining"}, req : Requests, url : Urls]
        OBVIOUS
    <2> QED BY <1>1, <2>1, <2>2 DEF GetFileFromURL, transfer, images, history
<1>2. CASE AsksWorker
    <2>1. main.url \in Urls /\ main.req \in Requests
        BY <1>2 DEF AsksWorker
    <2>2. queue' \in Seq(Urls)
        BY <1>2, <2>1 DEF AsksWorker, AddImage
    <2>3. DOMAIN callbacks' \subseteq Urls /\ \A v \in DOMAIN callbacks' : callbacks'[v] \subseteq Requests
        BY <1>2, <2>1 DEF AsksWorker
    <2>4. main' \in [at : {"idle", "quitting", "gone"}]
        BY <1>2 DEF AsksWorker, Idle
    <2>5. worker' \in {"top", "checking", "waiting", "take", "perform", "ended"}
        BY <1>2 DEF AsksWorker, AddImage
    <2> QED BY <1>2, <2>2, <2>3, <2>4, <2>5 DEF AsksWorker, images, history
<1>3. CASE FindsEntry
    <2>1. main' \in [at : {"looking", "joining"}, req : Requests, url : Urls]
        BY <1>3 DEF FindsEntry
    <2> QED BY <1>3, <2>1 DEF FindsEntry, cache, transfer, images, history
<1>4. CASE JoinsEntry
    <2>1. main.url \in Urls /\ main.req \in Requests
        BY <1>4 DEF JoinsEntry
    <2>2. DOMAIN callbacks' \subseteq Urls /\ \A v \in DOMAIN callbacks' : callbacks'[v] \subseteq Requests
        BY <1>4, <2>1 DEF JoinsEntry
    <2>3. main' \in [at : {"idle", "quitting", "gone"}]
        BY <1>4 DEF JoinsEntry, Idle
    <2> QED BY <1>4, <2>2, <2>3 DEF JoinsEntry, transfer, images
<1>5. CASE Quit \/ Destroyed
    <2>1. main' \in [at : {"idle", "quitting", "gone"}]
        BY <1>5 DEF Quit, Destroyed
    <2> QED BY <1>5, <2>1 DEF Quit, Destroyed, cache, transfer, images, history
<1>6. CASE RunCallbacks
    <2>1. Head(loaded) \in Requests /\ loaded' \in Seq(Requests)
        BY <1>6, HeadTailProperties DEF RunCallbacks
    <2>2. ran' \in [Requests -> Nat]
        BY <1>6, <2>1 DEF RunCallbacks
    <2> QED BY <1>6, <2>1, <2>2 DEF RunCallbacks, cache, transfer, history
<1>7. CASE LoopTests \/ LoopWaits \/ Wakes \/ LoopTakesNone \/ LoopRepeats
    BY <1>7 DEF LoopTests, LoopWaits, Wakes, LoopTakesNone, LoopRepeats, cache, images, history
<1>8. CASE LoopTakes \/ LoopDrops
    <2>1. Head(queue) \in Urls /\ queue' \in Seq(Urls)
        <3>1. queue \in Seq(Urls) /\ queue # <<>> /\ queue' = Tail(queue)
            BY <1>8 DEF LoopTakes, LoopDrops, MayTake
        <3> QED BY <3>1, Shortened
    <2>2. CASE LoopTakes
        <3>1. handles' \subseteq Urls /\ ended' \subseteq handles'
            BY <2>1, <2>2 DEF LoopTakes
        <3> QED BY <2>1, <2>2, <3>1 DEF LoopTakes, Opens, images, history
    <2>3. CASE LoopDrops
        BY <2>1, <2>3 DEF LoopDrops, cache, images, history
    <2> QED BY <1>8, <2>2, <2>3
<1>9. ASSUME NEW u \in Urls, LoopCompletes(u) PROVE TypeOK'
    <2>1. Response(u) \in [kind : {"takes"}, url : Urls]
        BY DEF Response
    <2>2. files' \in [Urls -> {"none", "partial", "whole", "failed"}]
        BY <1>9 DEF LoopCompletes
    <2> QED BY <1>9, <2>1, <2>2 DEF LoopCompletes, images, history
<1>10. ASSUME NEW u \in Urls, OnResponse(u) PROVE TypeOK'
    <2> DEFINE reqs == IF u \in DOMAIN callbacks THEN callbacks[u] ELSE {}
    <2>1. reqs \in SUBSET Requests
        OBVIOUS
    <2>2. tasks' = (tasks \ {Response(u)}) \cup Calls(u, reqs)
        BY <1>10 DEF OnResponse
    <2> HIDE DEF reqs
    <2>3. Calls(u, reqs) \subseteq [kind : {"calls"}, url : Urls, reqs : SUBSET Requests]
        BY <2>1, CallsTypes
    <2>4. DOMAIN callbacks' \subseteq Urls /\ \A v \in DOMAIN callbacks' : callbacks'[v] \subseteq Requests
        BY <1>10 DEF OnResponse
    <2> QED BY <1>10, <2>2, <2>3, <2>4 DEF OnResponse, transfer, images, history
<1>11. ASSUME NEW task \in tasks, NEW r \in Requests, Callback(task, r) PROVE TypeOK'
    <2>0. task \in [kind : {"calls"}, url : Urls, reqs : SUBSET Requests]
        BY <1>11 DEF Callback
    <2>1. task.url \in Urls /\ task.reqs \ {r} \in SUBSET Requests
        BY <2>0
    <2>2. Calls(task.url, task.reqs \ {r}) \subseteq [kind : {"calls"}, url : Urls, reqs : SUBSET Requests]
        BY <2>1, CallsTypes
    <2>3. loaded' \in Seq(Requests)
        <3>1. CASE files[task.url] = "whole"
            <4>1. loaded' = Append(loaded, r)
                BY <1>11, <3>1 DEF Callback
            <4> QED BY <4>1
        <3>2. CASE files[task.url] # "whole"
            BY <1>11, <3>2 DEF Callback
        <3> QED BY <3>1, <3>2
    <2>4. failed' \subseteq Requests
        BY <1>11 DEF Callback
    <2>5. tasks' \subseteq [kind : {"takes"}, url : Urls]
                           \cup [kind : {"calls"}, url : Urls, reqs : SUBSET Requests]
        BY <1>11, <2>2 DEF Callback
    <2> QED BY <1>11, <2>3, <2>4, <2>5 DEF Callback, transfer
<1>12. ASSUME NEW u \in Urls, TransferEnds(u) PROVE TypeOK'
    BY <1>12 DEF TransferEnds, cache, images, history
<1>13. CASE UNCHANGED vars
    BY <1>13 DEF vars, cache, transfer, images, history
<1> QED BY <1>1, <1>2, <1>3, <1>4, <1>5, <1>6, <1>7, <1>8, <1>9, <1>10, <1>11, <1>12, <1>13
        DEF Next, Main, Loop, Async

\* Every variable keeps its type: tables of callbacks hold requests, only a transfer
\* that runs can have ended (m_handles, m_handle_urls and m_paths, filecache.cpp:218-227).
THEOREM TypeCorrect == Spec => []TypeOK
BY InitTypeOK, StepTypeOK, PTL DEF Spec

----------------------------------------------------------------------------
(* One fetch at a time.  What a step changes of it is the queue, the transfers, *)
(* the threads of OnResponse and the URLs of the table.                         *)

IInv == TypeOK /\ FetchedOnce

\* Threads that run callbacks come and go without a thread of OnResponse.
LEMMA SameResponses ==
    ASSUME NEW u \in Urls, NEW reqs \in SUBSET Requests, NEW gone, gone.kind = "calls",
           \/ tasks' = tasks \cup Calls(u, reqs)
           \/ tasks' = (tasks \ {gone}) \cup Calls(u, reqs)
    PROVE  Responses' = Responses
<1>1. \A v : Response(v).kind = "takes"
    BY DEF Response
<1>2. \A v : Response(v) # gone
    BY <1>1
<1>3. \A v : Response(v) \notin Calls(u, reqs)
    BY CallsTypes
<1> QED BY <1>2, <1>3 DEF Responses

LEMMA KeepsFetchedOnce ==
    ASSUME FetchedOnce, UNCHANGED <<queue, handles>>, Responses' = Responses,
           DOMAIN callbacks \subseteq DOMAIN callbacks'
    PROVE  FetchedOnce'
BY DEF FetchedOnce, Queued

LEMMA InitFetchedOnce == ASSUME Init PROVE FetchedOnce
<1>1. Range(queue) = {} /\ IsInjective(queue)
    BY DEF Init, Range, IsInjective
<1> QED BY <1>1 DEF Init, FetchedOnce, Queued, Responses

LEMMA StepFetchedOnce == ASSUME TypeOK, FetchedOnce, [Next]_vars PROVE FetchedOnce'
<1>1. ASSUME NEW r \in Requests, NEW u \in Urls, GetFileFromURL(r, u) PROVE FetchedOnce'
    <2>1. UNCHANGED tasks \/ tasks' = tasks \cup Calls(u, {r})
        BY <1>1 DEF GetFileFromURL
    <2>2. Responses' = Responses
        <3>1. \A v : Response(v) \notin Calls(u, {r})
            BY CallsTypes
        <3> QED BY <2>1, <3>1 DEF Responses
    <2> QED BY <1>1, <2>2, KeepsFetchedOnce DEF GetFileFromURL, transfer
<1>2. CASE AsksWorker
    <2> DEFINE u == main.url
    <2>1. u \in Urls /\ u \notin DOMAIN callbacks
        BY <1>2 DEF AsksWorker, TypeOK
    <2>2. /\ queue' = Append(queue, u) /\ UNCHANGED <<tasks, handles>>
          /\ DOMAIN callbacks' = DOMAIN callbacks \cup {u}
        BY <1>2 DEF AsksWorker, AddImage
    <2> HIDE DEF u
    <2>3. queue \in Seq(Urls)
        BY DEF TypeOK
    <2>4. u \notin Queued \cup handles \cup Responses
        BY <2>1 DEF FetchedOnce
    <2>5. Queued' = Queued \cup {u} /\ IsInjective(queue')
        BY <2>1, <2>2, <2>3, <2>4, Appended DEF Queued, FetchedOnce
    <2>6. Responses' = Responses
        BY <2>2 DEF Responses
    <2> QED BY <2>2, <2>4, <2>5, <2>6 DEF FetchedOnce
<1>3. CASE FindsEntry \/ RunCallbacks \/ LoopTests \/ LoopWaits \/ Wakes \/ LoopTakesNone \/ LoopRepeats
    <2>1. UNCHANGED <<queue, handles, tasks, callbacks>>
        BY <1>3 DEF FindsEntry, RunCallbacks, LoopTests, LoopWaits, Wakes, LoopTakesNone,
                    LoopRepeats, cache, transfer
    <2> QED BY <2>1, KeepsFetchedOnce DEF Responses
<1>4. CASE JoinsEntry \/ Quit \/ Destroyed
    <2>1. UNCHANGED <<queue, handles, tasks>> /\ DOMAIN callbacks \subseteq DOMAIN callbacks'
        BY <1>4 DEF JoinsEntry, Quit, Destroyed, cache, transfer
    <2> QED BY <2>1, KeepsFetchedOnce DEF Responses
<1>5. CASE LoopTakes
    <2> DEFINE u == Head(queue)
    <2>1. /\ queue \in Seq(Urls) /\ queue # <<>>
          /\ queue' = Tail(queue) /\ handles' = handles \cup {u} /\ UNCHANGED <<callbacks, tasks>>
        BY <1>5 DEF LoopTakes, MayTake, TypeOK
    <2>2. /\ Queued = Queued' \cup {u} /\ IsInjective(queue') /\ u \notin Queued'
        BY <2>1, Shortened DEF Queued, FetchedOnce
    <2>3. Responses' = Responses
        BY <2>1 DEF Responses
    <2> QED BY <2>1, <2>2, <2>3 DEF FetchedOnce
<1>6. CASE LoopDrops
    <2>1. /\ queue \in Seq(Urls) /\ queue # <<>>
          /\ queue' = Tail(queue) /\ UNCHANGED <<callbacks, tasks, handles>>
        BY <1>6 DEF LoopDrops, MayTake, TypeOK, cache
    <2>2. Queued' \subseteq Queued /\ IsInjective(queue')
        BY <2>1, Shortened DEF Queued, FetchedOnce
    <2>3. Responses' = Responses
        BY <2>1 DEF Responses
    <2> QED BY <2>1, <2>2, <2>3 DEF FetchedOnce
<1>7. ASSUME NEW u \in Urls, LoopCompletes(u) PROVE FetchedOnce'
    <2>1. /\ u \in handles /\ handles' = handles \ {u} /\ tasks' = tasks \cup {Response(u)}
          /\ UNCHANGED <<queue, callbacks>>
        BY <1>7 DEF LoopCompletes, TypeOK
    <2>2. Responses' = Responses \cup {u}
        <3>1. \A v : Response(v) = Response(u) => v = u
            BY DEF Response
        <3> QED BY <2>1, <3>1 DEF Responses
    <2>3. Queued' = Queued
        BY <2>1 DEF Queued
    <2> QED BY <2>1, <2>2, <2>3 DEF FetchedOnce
<1>8. ASSUME NEW u \in Urls, OnResponse(u) PROVE FetchedOnce'
    <2> DEFINE reqs == IF u \in DOMAIN callbacks THEN callbacks[u] ELSE {}
    <2>1. reqs \in SUBSET Requests
        BY DEF TypeOK
    <2>2. /\ tasks' = (tasks \ {Response(u)}) \cup Calls(u, reqs)
          /\ DOMAIN callbacks' = DOMAIN callbacks \ {u} /\ UNCHANGED <<queue, handles>>
          /\ u \in Responses
        BY <1>8 DEF OnResponse, Responses, transfer
    <2> HIDE DEF reqs
    <2>3. Responses' = Responses \ {u}
        <3>1. \A v : Response(v) \notin Calls(u, reqs) /\ (Response(v) = Response(u) => v = u)
            BY <2>1, CallsTypes DEF Response
        <3> QED BY <2>2, <3>1 DEF Responses
    <2>4. Queued' = Queued
        BY <2>2 DEF Queued
    <2> QED BY <2>2, <2>3, <2>4 DEF FetchedOnce
<1>9. ASSUME NEW task \in tasks, NEW r \in Requests, Callback(task, r) PROVE FetchedOnce'
    <2>1. task.url \in Urls /\ task.reqs \ {r} \in SUBSET Requests /\ task.kind = "calls"
        BY <1>9 DEF Callback, TypeOK
    <2>2. tasks' = (tasks \ {task}) \cup Calls(task.url, task.reqs \ {r})
        BY <1>9 DEF Callback
    <2>3. Responses' = Responses
        BY <2>1, <2>2, SameResponses
    <2> QED BY <1>9, <2>3, KeepsFetchedOnce DEF Callback, transfer
<1>10. ASSUME NEW u \in Urls, TransferEnds(u) PROVE FetchedOnce'
    <2>1. UNCHANGED <<queue, handles, tasks, callbacks>>
        BY <1>10 DEF TransferEnds, cache
    <2> QED BY <2>1, KeepsFetchedOnce DEF Responses
<1>11. CASE UNCHANGED vars
    <2>1. UNCHANGED <<queue, handles, tasks, callbacks>>
        BY <1>11 DEF vars, cache, transfer
    <2> QED BY <2>1, KeepsFetchedOnce DEF Responses
<1> QED BY <1>1, <1>2, <1>3, <1>4, <1>5, <1>6, <1>7, <1>8, <1>9, <1>10, <1>11
        DEF Next, Main, Loop, Async

\* A URL is fetched once at a time, also when threads touch the table of callbacks
\* in the middle of GetFileFromURL (filecache.cpp:60-67, 164).
THEOREM FetchesOnce == Spec => []FetchedOnce
<1>1. Init => IInv
    BY InitTypeOK, InitFetchedOnce DEF IInv
<1>2. IInv /\ [Next]_vars => IInv'
    BY StepTypeOK, StepFetchedOnce DEF IInv
<1>3. IInv => FetchedOnce
    BY DEF IInv
<1> QED BY <1>1, <1>2, <1>3, PTL DEF Spec

----------------------------------------------------------------------------
(* The file that callbacks are handed *)

Done(u) == files[u] \in {"whole", "failed"}

\* The file has its name from the moment OnResponse is asked for, and what has it is
\* done, which is what makes PickedUpDone inductive.
FileInv ==
    /\ \A u \in Urls : files[u] # "none" => Done(u)
    /\ \A u \in Responses : Done(u)
    /\ PickedUpDone

\* A step that leaves the files alone has only its new callbacks to answer for.
LEMMA KeepsFileInv ==
    ASSUME FileInv, UNCHANGED files, Responses' \subseteq Responses,
           \A task \in tasks' \ tasks : task.kind = "calls" => Done(task.url)
    PROVE  FileInv'
BY DEF FileInv, PickedUpDone, Done

LEMMA StepFileInv == ASSUME TypeOK, FileInv, [Next]_vars PROVE FileInv'
<1>1. ASSUME NEW r \in Requests, NEW u \in Urls, GetFileFromURL(r, u) PROVE FileInv'
    <2>1. /\ UNCHANGED files
          /\ \/ UNCHANGED tasks
             \/ files[u] # "none" /\ tasks' = tasks \cup Calls(u, {r})
        BY <1>1 DEF GetFileFromURL
    <2>2. files[u] # "none" => Done(u)
        BY DEF FileInv
    <2>3. /\ \A v : Response(v) \notin Calls(u, {r})
          /\ \A task \in Calls(u, {r}) : task.url = u
        BY CallsTypes
    <2>4. Responses' \subseteq Responses
        BY <2>1, <2>3 DEF Responses
    <2>5. \A task \in tasks' \ tasks : task.kind = "calls" => Done(task.url)
        BY <2>1, <2>2, <2>3
    <2> QED BY <2>1, <2>4, <2>5, KeepsFileInv
<1>2. CASE AsksWorker \/ FindsEntry \/ JoinsEntry \/ Quit \/ RunCallbacks
    <2>1. UNCHANGED <<files, tasks>>
        BY <1>2 DEF AsksWorker, FindsEntry, JoinsEntry, Quit, RunCallbacks, cache
    <2> QED BY <2>1, KeepsFileInv DEF Responses
<1>3. CASE Destroyed
    <2>1. tasks' = {} /\ files' = [u \in Urls |-> "none"]
        BY <1>3 DEF Destroyed
    <2> QED BY <2>1 DEF FileInv, Responses, PickedUpDone, Done
<1>4. CASE LoopTests \/ LoopWaits \/ Wakes \/ LoopTakes \/ LoopDrops \/ LoopTakesNone \/ LoopRepeats
    <2>1. UNCHANGED <<files, tasks>>
        BY <1>4 DEF LoopTests, LoopWaits, Wakes, LoopTakes, LoopDrops, LoopTakesNone,
                    LoopRepeats, Opens, cache
    <2> QED BY <2>1, KeepsFileInv DEF Responses
<1>5. ASSUME NEW u \in Urls, LoopCompletes(u) PROVE FileInv'
    <2> PICK how \in {"whole", "failed"} : files' = [files EXCEPT ![u] = how]
        BY <1>5 DEF LoopCompletes
    <2>1. tasks' = tasks \cup {Response(u)}
        BY <1>5 DEF LoopCompletes
    <2>2. /\ \A v \in Urls : files'[v] = IF v = u THEN how ELSE files[v]
          /\ Done(u)' /\ \A v \in Urls : Done(v) => Done(v)'
        BY DEF TypeOK, Done
    <2>3. \A v \in Responses' : v \in Responses \/ v = u
        BY <2>1 DEF Responses, Response
    <2>4. Response(u).kind = "takes"
        BY DEF Response
    <2>5. \A task \in tasks' : task.kind = "calls" => task \in tasks /\ task.url \in Urls
        BY <2>1, <2>4 DEF TypeOK
    <2>6. PickedUpDone'
        BY <2>2, <2>5 DEF FileInv, PickedUpDone, Done
    <2>7. Responses \subseteq Urls /\ Responses' \subseteq Urls
        BY DEF Responses
    <2>8. ASSUME NEW v \in Urls, files'[v] # "none" PROVE Done(v)'
        BY <2>2, <2>8 DEF FileInv
    <2>9. ASSUME NEW v \in Responses' PROVE Done(v)'
        BY <2>2, <2>3, <2>7, <2>9 DEF FileInv
    <2> QED BY <2>6, <2>8, <2>9 DEF FileInv
<1>6. ASSUME NEW u \in Urls, OnResponse(u) PROVE FileInv'
    <2> DEFINE reqs == IF u \in DOMAIN callbacks THEN callbacks[u] ELSE {}
    <2>1. reqs \in SUBSET Requests
        BY DEF TypeOK
    <2>2. tasks' = (tasks \ {Response(u)}) \cup Calls(u, reqs) /\ UNCHANGED files /\ u \in Responses
        BY <1>6 DEF OnResponse, Responses
    <2> HIDE DEF reqs
    <2>3. /\ \A v : Response(v) \notin Calls(u, reqs)
          /\ \A task \in Calls(u, reqs) : task.url = u
        BY <2>1, CallsTypes
    <2>4. Done(u)
        BY <2>2 DEF FileInv
    <2>5. Responses' \subseteq Responses
        BY <2>2, <2>3 DEF Responses
    <2> QED BY <2>2, <2>3, <2>4, <2>5, KeepsFileInv
<1>7. ASSUME NEW task \in tasks, NEW r \in Requests, Callback(task, r) PROVE FileInv'
    <2>1. /\ task.url \in Urls /\ task.reqs \ {r} \in SUBSET Requests /\ task.kind = "calls"
          /\ tasks' = (tasks \ {task}) \cup Calls(task.url, task.reqs \ {r})
          /\ UNCHANGED files
        BY <1>7 DEF Callback, TypeOK
    <2>2. \A t \in Calls(task.url, task.reqs \ {r}) : t.url = task.url
        BY <2>1, CallsTypes
    <2>3. Done(task.url)
        BY <2>1 DEF FileInv, PickedUpDone, Done
    <2>4. Responses' = Responses
        BY <2>1, SameResponses
    <2> QED BY <2>1, <2>2, <2>3, <2>4, KeepsFileInv
<1>8. CASE (\E u \in Urls : TransferEnds(u)) \/ UNCHANGED vars
    <2>1. UNCHANGED <<files, tasks>>
        BY <1>8 DEF TransferEnds, vars, cache
    <2> QED BY <2>1, KeepsFileInv DEF Responses
<1> QED BY <1>1, <1>2, <1>3, <1>4, <1>5, <1>6, <1>7, <1>8 DEF Next, Main, Loop, Async

\* A callback is never handed a file that a transfer still writes, in whatever order
\* the threads run and whether or not transfers fail (filecache.cpp:168-169, 226-230).
THEOREM HandsOutDone == Spec => []PickedUpDone
<1>1. Init => TypeOK /\ FileInv
    BY InitTypeOK DEF Init, FileInv, Responses, PickedUpDone, Done
<1>2. TypeOK /\ FileInv /\ [Next]_vars => TypeOK' /\ FileInv'
    BY StepTypeOK, StepFileInv
<1>3. FileInv => PickedUpDone
    BY DEF FileInv
<1> QED BY <1>1, <1>2, <1>3, PTL DEF Spec

----------------------------------------------------------------------------
(* The table: who joins an entry that is gone is recorded *)

LEMMA KeepsEntryIsFetched ==
    ASSUME EntryIsFetched, UNCHANGED <<callbacks, queue, handles, raced>>, Responses' = Responses
    PROVE  EntryIsFetched'
BY DEF EntryIsFetched, Queued

LEMMA StepEntryIsFetched == ASSUME TypeOK, EntryIsFetched, [Next]_vars PROVE EntryIsFetched'
<1>1. ASSUME NEW r \in Requests, NEW u \in Urls, GetFileFromURL(r, u) PROVE EntryIsFetched'
    <2>1. /\ UNCHANGED tasks \/ tasks' = tasks \cup Calls(u, {r})
          /\ UNCHANGED <<callbacks, queue, handles, raced>>
        BY <1>1 DEF GetFileFromURL, transfer, history
    <2>2. Responses' = Responses
        <3>1. \A v : Response(v) \notin Calls(u, {r})
            BY CallsTypes
        <3> QED BY <2>1, <3>1 DEF Responses
    <2> QED BY <2>1, <2>2, KeepsEntryIsFetched
<1>2. CASE AsksWorker
    <2> DEFINE u == main.url
    <2>1. u \in Urls /\ queue \in Seq(Urls)
        BY <1>2 DEF AsksWorker, TypeOK
    <2>2. /\ queue' = Append(queue, u) /\ UNCHANGED <<tasks, handles, raced>>
          /\ DOMAIN callbacks' = DOMAIN callbacks \cup {u}
        BY <1>2 DEF AsksWorker, AddImage, history
    <2> HIDE DEF u
    <2>3. Queued' = Queued \cup {u}
        BY <2>1, <2>2, Appended DEF Queued
    <2> QED BY <2>2, <2>3 DEF EntryIsFetched, Responses
<1>3. CASE \/ FindsEntry \/ Quit \/ Destroyed \/ RunCallbacks \/ LoopTests \/ LoopWaits
           \/ Wakes \/ LoopTakesNone \/ LoopRepeats
    <2>1. UNCHANGED <<queue, handles, tasks, callbacks, raced>>
        BY <1>3 DEF FindsEntry, Quit, Destroyed, RunCallbacks, LoopTests, LoopWaits, Wakes,
                    LoopTakesNone, LoopRepeats, cache, transfer, history
    <2> QED BY <2>1, KeepsEntryIsFetched DEF Responses
\* The entry joined is the one found, or it is made anew and recorded.
<1>4. CASE JoinsEntry
    <2>1. /\ UNCHANGED <<queue, handles, tasks>>
          /\ DOMAIN callbacks' = DOMAIN callbacks \cup {main.url}
          /\ raced' = raced \cup ({main.url} \ DOMAIN callbacks)
        BY <1>4 DEF JoinsEntry, transfer
    <2> QED BY <2>1 DEF EntryIsFetched, Queued, Responses
<1>7. CASE LoopTakes
    <2>1. /\ queue \in Seq(Urls) /\ queue # <<>> /\ queue' = Tail(queue)
          /\ handles' = handles \cup {Head(queue)} /\ UNCHANGED <<callbacks, tasks, raced>>
        BY <1>7 DEF LoopTakes, MayTake, TypeOK, history
    <2>2. Queued = Queued' \cup {Head(queue)}
        BY <2>1, Shortened DEF Queued
    <2> QED BY <2>1, <2>2 DEF EntryIsFetched, Responses
<1>8. CASE LoopDrops
    <2>1. /\ queue \in Seq(Urls) /\ queue # <<>> /\ queue' = Tail(queue)
          /\ Head(queue) \in handles \cup Refused
          /\ UNCHANGED <<callbacks, tasks, handles, raced>>
        BY <1>8 DEF LoopDrops, MayTake, TypeOK, cache, history
    <2>2. Queued = Queued' \cup {Head(queue)}
        BY <2>1, Shortened DEF Queued
    <2> QED BY <2>1, <2>2 DEF EntryIsFetched, Responses
<1>9. ASSUME NEW u \in Urls, LoopCompletes(u) PROVE EntryIsFetched'
    <2>1. /\ handles' = handles \ {u} /\ tasks' = tasks \cup {Response(u)}
          /\ UNCHANGED <<queue, callbacks, raced>>
        BY <1>9 DEF LoopCompletes, history
    <2>2. Responses' = Responses \cup {u}
        <3>1. \A v : Response(v) = Response(u) => v = u
            BY DEF Response
        <3> QED BY <2>1, <3>1 DEF Responses
    <2> QED BY <2>1, <2>2 DEF EntryIsFetched, Queued
<1>10. ASSUME NEW u \in Urls, OnResponse(u) PROVE EntryIsFetched'
    <2> DEFINE reqs == IF u \in DOMAIN callbacks THEN callbacks[u] ELSE {}
    <2>1. /\ tasks' = (tasks \ {Response(u)}) \cup Calls(u, reqs)
          /\ DOMAIN callbacks' = DOMAIN callbacks \ {u} /\ UNCHANGED <<queue, handles, raced>>
        BY <1>10 DEF OnResponse, transfer, history
    <2> HIDE DEF reqs
    <2>2. Responses \ {u} \subseteq Responses'
        <3>1. \A v : Response(v) = Response(u) => v = u
            BY DEF Response
        <3> QED BY <2>1, <3>1 DEF Responses
    <2> QED BY <2>1, <2>2 DEF EntryIsFetched, Queued
<1>11. ASSUME NEW task \in tasks, NEW r \in Requests, Callback(task, r) PROVE EntryIsFetched'
    <2>1. task.url \in Urls /\ task.reqs \ {r} \in SUBSET Requests /\ task.kind = "calls"
        BY <1>11 DEF Callback, TypeOK
    <2>2. tasks' = (tasks \ {task}) \cup Calls(task.url, task.reqs \ {r})
        BY <1>11 DEF Callback
    <2>3. Responses' = Responses
        BY <2>1, <2>2, SameResponses
    <2> QED BY <1>11, <2>3, KeepsEntryIsFetched DEF Callback, transfer, history
<1>12. CASE (\E u \in Urls : TransferEnds(u)) \/ UNCHANGED vars
    <2>1. UNCHANGED <<queue, handles, tasks, callbacks, raced>>
        BY <1>12 DEF TransferEnds, vars, cache, transfer, history
    <2> QED BY <2>1, KeepsEntryIsFetched DEF Responses
<1> QED BY <1>1, <1>2, <1>3, <1>4, <1>7, <1>8, <1>9, <1>10, <1>11, <1>12
        DEF Next, Main, Loop, Async

\* Nobody waits in the table for a URL that is not fetched, but where the file could
\* not be opened or the entry was taken in the middle of GetFileFromURL
\* (filecache.cpp:60-67, 90-98, 172-175).
THEOREM NobodyStranded == Spec => []EntryIsFetched
<1>1. Init => TypeOK /\ EntryIsFetched
    <2> SUFFICES ASSUME Init PROVE TypeOK /\ EntryIsFetched
        OBVIOUS
    <2>1. DOMAIN callbacks = {}
        BY DEF Init
    <2> QED BY <2>1, InitTypeOK DEF EntryIsFetched
<1>2. TypeOK /\ EntryIsFetched /\ [Next]_vars => TypeOK' /\ EntryIsFetched'
    BY StepTypeOK, StepEntryIsFetched
<1> QED BY <1>1, <1>2, PTL DEF Spec

----------------------------------------------------------------------------
(* The worker *)

LEMMA StepAwake == ASSUME Awake, [Next]_vars PROVE Awake'
<1> USE DEF Awake
<1>1. CASE AsksWorker
    BY <1>1 DEF AsksWorker, AddImage
<1>2. CASE Quit
    BY <1>2 DEF Quit
\* Under the lock the queue is empty; stop, which takes no lock, may have come before.
<1>3. CASE LoopTests \/ LoopWaits
    BY <1>3 DEF LoopTests, LoopWaits
<1>4. CASE \/ Wakes \/ LoopTakes \/ LoopDrops \/ LoopTakesNone \/ LoopRepeats
           \/ \E u \in Urls : LoopCompletes(u)
    <2>1. worker' # "waiting"
        BY <1>4 DEF Wakes, LoopTakes, LoopDrops, LoopTakesNone, LoopRepeats, LoopCompletes
    <2> QED BY <2>1
<1>5. CASE \/ FindsEntry \/ JoinsEntry \/ Destroyed \/ RunCallbacks
           \/ \E r \in Requests, u \in Urls : GetFileFromURL(r, u)
           \/ Async \/ (\E u \in Urls : TransferEnds(u)) \/ UNCHANGED vars
    <2>1. UNCHANGED <<worker, queue, stop, missed>>
        BY <1>5 DEF FindsEntry, JoinsEntry, Destroyed, RunCallbacks, GetFileFromURL, Async,
                    OnResponse, Callback, TransferEnds, vars, transfer, history
    <2> QED BY <2>1
<1> QED BY <1>1, <1>2, <1>3, <1>4, <1>5 DEF Next, Main, Loop

\* The worker never sleeps on work: add_image notifies under the lock under which
\* the worker looks at the queue (filecache.cpp:126-131, 148-150).  It sleeps after
\* stop only when stop came between its look at m_stop and its wait (136, 146).
THEOREM NeverSleepsOnWork == Spec => []Awake
<1>1. Init => Awake
    BY DEF Init, Awake
<1>2. Awake /\ [Next]_vars => Awake'
    BY StepAwake
<1> QED BY <1>1, <1>2, PTL DEF Spec
=============================================================================
