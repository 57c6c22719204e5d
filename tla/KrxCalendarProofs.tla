-------------------------- MODULE KrxCalendarProofs --------------------------
(***************************************************************************)
(* The calendar loads completely or says that it did not, and its cache    *)
(* fails safe, for any years, dates, announcements, failures and deaths;   *)
(* the scans that load it decide rightly whether the market is open.       *)
(***************************************************************************)
EXTENDS MarketSession, SequenceTheorems, TLAPS

Loading == {"open", "write"}

\* What has been cached, and what a loader is about to cache, was published.
AnswerInv ==
  /\ \A y \in Years : cached[y] \subseteq published[y]
  /\ \A l \in Loaders : pc[l] \in Loading => answer[l] \subseteq published[Year(l)]

\* A date of the loader's years is loaded, or belongs to a year that it has still to
\* fetch; only a loader that has warned reads the cache.
PromiseInv ==
  \A l \in Loaders :
    /\ pc[l] = "done" => todo[l] = <<>>
    /\ pc[l] = "read" => warned[l]
    /\ pc[l] \in Busy \cup {"done"} /\ ~warned[l] =>
         \A d \in promised[l] : d \in loaded[l] \/
           \E i \in 1 .. Len(todo[l]) :
             d \in published[todo[l][i]] /\ (i = 1 => pc[l] = "fetch")

IInv == TypeOK /\ CacheIsPublished /\ AnswerInv /\ PromiseInv

\* With one loader at a time: a file that is not there was never written, and what
\* is about to be cached holds all that was.
KeepInv ==
  /\ \A y \in Years : cache[y] = Absent => cached[y] = {}
  /\ \A l \in Loaders : pc[l] \in Loading => cached[Year(l)] \subseteq answer[l]

\* A date that had been cached is loaded, or belongs to a year whose service or
\* cache the loader has still to ask.
OwedInv ==
  \A l \in Loaders : pc[l] \in Busy \cup {"done"} =>
    \A d \in owed[l] : d \in loaded[l] \/
      \E i \in 1 .. Len(todo[l]) :
        d \in cached[todo[l][i]] /\ (i = 1 => pc[l] \in {"fetch", "read"})

SafeInv == CacheKeepsDates /\ KeepInv /\ OwedInv

\* The loader that is at work finds every other one at rest.
Serial == \A l, m \in Loaders : l = m

-----------------------------------------------------------------------------

\* What the loop does to the years of its loader.
LEMMA NextYearStep ==
  ASSUME TypeOK, NEW l \in Loaders, pc[l] \in Busy, NextYear(l)
  PROVE  /\ todo' \in [Loaders -> Seq(Years)]
         /\ pc' \in [Loaders -> Busy \cup {"idle", "done", "died"}]
         /\ pc'[l] \in {"done", "fetch"}
         /\ pc'[l] = "done" <=> todo'[l] = <<>>
         /\ \A i \in 1 .. Len(todo[l]) : i # 1 =>
              /\ pc'[l] = "fetch"
              /\ i - 1 \in 1 .. Len(todo'[l])
              /\ todo'[l][i - 1] = todo[l][i]
         /\ \A m \in Loaders : m # l => pc'[m] = pc[m] /\ todo'[m] = todo[m]
<1>1. todo[l] \in Seq(Years) /\ todo[l] # <<>>
  BY DEF TypeOK
<1>2. /\ Tail(todo[l]) \in Seq(Years)
      /\ Len(Tail(todo[l])) = Len(todo[l]) - 1
      /\ \A i \in 1 .. Len(Tail(todo[l])) : Tail(todo[l])[i] = todo[l][i + 1]
  BY <1>1, HeadTailProperties
<1>3. Len(todo[l]) \in Nat /\ Len(todo[l]) # 0
  BY <1>1, EmptySeq, LenProperties
<1>4. /\ todo' = [todo EXCEPT ![l] = Tail(todo[l])]
      /\ pc' = [pc EXCEPT ![l] = IF Len(todo[l]) = 1 THEN "done" ELSE "fetch"]
  BY DEF NextYear, Goto
<1>5. todo'[l] = Tail(todo[l])
  BY <1>4 DEF TypeOK
<1>6. pc'[l] = IF Len(todo[l]) = 1 THEN "done" ELSE "fetch"
  BY <1>4 DEF TypeOK
<1>7. todo'[l] = <<>> <=> Len(todo[l]) = 1
  <2>1. todo'[l] \in Seq(Years) /\ Len(todo'[l]) = Len(todo[l]) - 1
    BY <1>2, <1>5
  <2>2. todo'[l] = <<>> <=> Len(todo'[l]) = 0
    BY <2>1, EmptySeq
  <2> QED
    BY <1>3, <2>1, <2>2
<1>8. ASSUME NEW i \in 1 .. Len(todo[l]), i # 1
      PROVE  /\ pc'[l] = "fetch"
             /\ i - 1 \in 1 .. Len(todo'[l])
             /\ todo'[l][i - 1] = todo[l][i]
  <2>1. i - 1 \in 1 .. Len(Tail(todo[l])) /\ Len(todo[l]) # 1
    BY <1>2, <1>3, <1>8
  <2>2. Tail(todo[l])[i - 1] = todo[l][(i - 1) + 1] /\ (i - 1) + 1 = i
    BY <1>2, <2>1
  <2> QED
    BY <1>5, <1>6, <2>1, <2>2
<1>9. todo' \in [Loaders -> Seq(Years)]
  BY <1>2, <1>4 DEF TypeOK
<1>10. pc' \in [Loaders -> Busy \cup {"idle", "done", "died"}]
  BY <1>4 DEF TypeOK, Busy
<1>11. \A m \in Loaders : m # l => pc'[m] = pc[m] /\ todo'[m] = todo[m]
  BY <1>4 DEF TypeOK
<1>12. pc'[l] \in {"done", "fetch"} /\ (pc'[l] = "done" <=> todo'[l] = <<>>)
  BY <1>6, <1>7
<1> QED
  BY <1>8, <1>9, <1>10, <1>11, <1>12

\* The year at hand is one of the years, and the first of the list.
LEMMA YearAtHand ==
  ASSUME TypeOK, NEW l \in Loaders, pc[l] \in Busy
  PROVE  /\ Year(l) \in Years
         /\ Year(l) = todo[l][1]
         /\ 1 \in 1 .. Len(todo[l])
<1>1. todo[l] \in Seq(Years) /\ todo[l] # <<>>
  BY DEF TypeOK
<1>2. Len(todo[l]) \in Nat /\ Len(todo[l]) # 0
  BY <1>1, EmptySeq, LenProperties
<1> QED
  BY <1>1, <1>2, HeadTailProperties DEF Year

-----------------------------------------------------------------------------
(* IInv, one step at a time. *)

LEMMA InitInv == Init => IInv
<1> SUFFICES ASSUME Init PROVE IInv
  OBVIOUS
<1>1. TypeOK
  BY EmptySeq DEF Init, TypeOK, Files, Absent, Busy
<1>2. CacheIsPublished
  BY DEF Init, CacheIsPublished, IsList, Absent
<1>3. AnswerInv /\ PromiseInv
  BY DEF Init, AnswerInv, PromiseInv, Loading, Busy
<1> QED
  BY <1>1, <1>2, <1>3 DEF IInv

LEMMA AnnounceStep ==
  ASSUME IInv, NEW d \in Dates, Announce(d)
  PROVE  IInv'
<1> USE DEF IInv
<1>1. YearOf[d] \in Years
  BY KrxCalendarAssumption
<1>2. TypeOK'
  BY <1>1 DEF Announce, TypeOK, histories
<1>3. \A y \in Years : published[y] \subseteq published'[y]
  BY DEF Announce, TypeOK
<1>4. CacheIsPublished'
  BY <1>3 DEF Announce, CacheIsPublished
<1>5. \A l \in Loaders : pc[l] \in Loading => Year(l) \in Years
  BY YearAtHand DEF Loading, Busy
<1>6. AnswerInv'
  BY <1>3, <1>5 DEF Announce, AnswerInv, Year, histories
<1>7. \A l \in Loaders : \A i \in 1 .. Len(todo[l]) : todo[l][i] \in Years
  BY ElementOfSeq DEF TypeOK
<1>8. PromiseInv'
  BY <1>3, <1>7 DEF Announce, PromiseInv, histories
<1> QED
  BY <1>2, <1>4, <1>6, <1>8

LEMMA StartStep ==
  ASSUME IInv, NEW l \in Loaders, NEW years \in YearLists,
         NEW manual \in {Manual, {}}, Start(l, years, manual)
  PROVE  IInv'
<1> USE DEF IInv
<1>1. years \in Seq(Years) /\ years # <<>> /\ manual \subseteq Dates
  BY KrxCalendarAssumption
<1>2. \A i \in DOMAIN years : years[i] \in Years
  BY <1>1, ElementOfSeq
<1> DEFINE asked == {years[i] : i \in DOMAIN years}
<1>3. /\ UNION {published[y] : y \in asked} \subseteq Dates
      /\ UNION {cached[y] : y \in asked} \subseteq Dates
  BY <1>2 DEF TypeOK
<1>4. TypeOK'
  BY <1>1, <1>3 DEF Start, Goto, TypeOK, files, Busy
<1>5. CacheIsPublished'
  BY DEF Start, files, CacheIsPublished
<1>6. AnswerInv'
  BY DEF Start, Goto, files, AnswerInv, Loading, Year, TypeOK
<1>7. ASSUME NEW m \in Loaders, m # l
      PROVE  /\ pc'[m] = pc[m] /\ todo'[m] = todo[m] /\ loaded'[m] = loaded[m]
             /\ warned'[m] = warned[m] /\ promised'[m] = promised[m]
             /\ published' = published
  BY <1>7 DEF Start, Goto, files, TypeOK
<1>8. /\ pc'[l] = "fetch" /\ todo'[l] = years /\ published' = published
      /\ promised'[l] = UNION {published[y] : y \in asked}
  BY DEF Start, Goto, files, TypeOK
<1>9. \A d \in promised'[l] : \E i \in 1 .. Len(years) : d \in published[years[i]]
  BY <1>1, <1>8, LenProperties
<1>10. PromiseInv'
  BY <1>7, <1>8, <1>9 DEF PromiseInv
<1> QED
  BY <1>4, <1>5, <1>6, <1>10

LEMMA StartManualStep ==
  ASSUME IInv, NEW l \in Loaders, StartManual(l)
  PROVE  IInv'
<1> USE DEF IInv
<1>1. TypeOK'
  BY KrxCalendarAssumption, EmptySeq DEF StartManual, Goto, TypeOK, files, Busy
<1>2. CacheIsPublished'
  BY DEF StartManual, files, CacheIsPublished
<1>3. AnswerInv'
  BY DEF StartManual, Goto, files, AnswerInv, Loading, Year, TypeOK
<1>4. PromiseInv'
  BY DEF StartManual, Goto, files, PromiseInv, TypeOK
<1> QED
  BY <1>1, <1>2, <1>3, <1>4

\* The service answers with dates only after a loader has asked, and with the dates
\* it lists.
LEMMA FetchStep ==
  ASSUME IInv, NEW l \in Loaders, Fetch(l, published[Year(l)])
  PROVE  IInv'
<1> USE DEF IInv
<1>1. pc[l] = "fetch" /\ pc[l] \in Busy
  BY DEF Fetch, Busy
<1>2. Year(l) \in Years /\ Year(l) = todo[l][1]
  BY <1>1, YearAtHand
<1>3. TypeOK'
  BY <1>1, <1>2 DEF Fetch, Goto, Load, TypeOK, files, Busy
<1>4. CacheIsPublished'
  BY DEF Fetch, files, CacheIsPublished
<1>5. AnswerInv'
  BY DEF Fetch, Goto, files, AnswerInv, Loading, Year, TypeOK
<1>6. /\ pc'[l] = "open" /\ todo' = todo /\ promised' = promised
      /\ warned' = warned /\ published' = published
      /\ loaded'[l] = loaded[l] \cup published[todo[l][1]]
  BY <1>2 DEF Fetch, Goto, Load, files, TypeOK
<1>7. \A m \in Loaders : m # l => pc'[m] = pc[m] /\ loaded'[m] = loaded[m]
  BY DEF Fetch, Goto, Load, TypeOK
<1>8. PromiseInv'
  BY <1>1, <1>6, <1>7 DEF PromiseInv, Busy
<1> QED
  BY <1>3, <1>4, <1>5, <1>8

LEMMA FetchFailsStep ==
  ASSUME IInv, NEW l \in Loaders, FetchFails(l)
  PROVE  IInv'
<1> USE DEF IInv
<1>1. TypeOK'
  BY DEF FetchFails, Goto, Warn, TypeOK, files, Busy
<1>2. CacheIsPublished' /\ AnswerInv'
  BY DEF FetchFails, Goto, files, CacheIsPublished, AnswerInv, Loading, Year, TypeOK
<1>3. PromiseInv'
  BY DEF FetchFails, Goto, Warn, files, PromiseInv, Busy, TypeOK
<1> QED
  BY <1>1, <1>2, <1>3

LEMMA CacheFailsStep ==
  ASSUME IInv, NEW l \in Loaders, CacheFails(l)
  PROVE  IInv'
<1> USE DEF IInv
<1>1. TypeOK'
  BY DEF CacheFails, Goto, Warn, TypeOK, files, Busy
<1>2. CacheIsPublished' /\ AnswerInv'
  BY DEF CacheFails, Goto, files, CacheIsPublished, AnswerInv, Loading, Year, TypeOK
<1>3. PromiseInv'
  BY DEF CacheFails, Goto, Warn, files, PromiseInv, Busy, TypeOK
<1> QED
  BY <1>1, <1>2, <1>3

LEMMA CrashStep ==
  ASSUME IInv, NEW l \in Loaders, Crash(l)
  PROVE  IInv'
<1> USE DEF IInv
<1>1. TypeOK'
  BY DEF Crash, Goto, TypeOK, files, Busy
<1>2. CacheIsPublished' /\ AnswerInv'
  BY DEF Crash, Goto, files, CacheIsPublished, AnswerInv, Loading, Year, TypeOK
<1>3. PromiseInv'
  BY DEF Crash, Goto, files, PromiseInv, Busy, TypeOK
<1> QED
  BY <1>1, <1>2, <1>3

LEMMA OpenStep ==
  ASSUME IInv, NEW l \in Loaders, OpenCache(l)
  PROVE  IInv'
<1> USE DEF IInv
<1>1. Year(l) \in Years
  BY YearAtHand DEF OpenCache, Busy
<1>2. TypeOK'
  BY <1>1 DEF OpenCache, Goto, TypeOK, histories, Files, Torn, Busy
<1>3. CacheIsPublished'
  BY <1>1 DEF OpenCache, CacheIsPublished, IsList, Torn, TypeOK
<1>4. AnswerInv'
  BY DEF OpenCache, Goto, histories, AnswerInv, Loading, Year, TypeOK
<1>5. /\ pc[l] = "open" /\ pc'[l] = "write" /\ todo' = todo /\ promised' = promised
      /\ warned' = warned /\ published' = published /\ loaded' = loaded
      /\ \A m \in Loaders : m # l => pc'[m] = pc[m]
  BY DEF OpenCache, Goto, histories, TypeOK
<1>6. PromiseInv'
  BY <1>5 DEF PromiseInv, Busy
<1> QED
  BY <1>2, <1>3, <1>4, <1>6

LEMMA WriteStep ==
  ASSUME IInv, NEW l \in Loaders, WriteCache(l)
  PROVE  IInv'
<1> USE DEF IInv
<1>1. pc[l] = "write" /\ pc[l] \in Busy /\ NextYear(l)
  BY DEF WriteCache, Busy
<1>2. Year(l) \in Years
  BY <1>1, YearAtHand
<1>3. answer[l] \subseteq published[Year(l)]
  BY <1>1 DEF AnswerInv, Loading
<1>4. /\ cache' \in [Years -> Files]
      /\ \A y \in Years : y # Year(l) => cache'[y] = cache[y]
      /\ cache'[Year(l)] \in {Torn, List(answer[l])}
  <2>1. Torn \in Files /\ List(answer[l]) \in Files
    BY DEF Files, Torn, List, TypeOK
  <2>2. \E file \in {Torn, List(answer[l])} : cache' = [cache EXCEPT ![Year(l)] = file]
    BY DEF WriteCache
  <2> QED
    BY <1>2, <2>1, <2>2 DEF TypeOK
<1>n. /\ todo' \in [Loaders -> Seq(Years)]
      /\ pc' \in [Loaders -> Busy \cup {"idle", "done", "died"}]
      /\ pc'[l] \in {"done", "fetch"} /\ (pc'[l] = "done" <=> todo'[l] = <<>>)
      /\ \A i \in 1 .. Len(todo[l]) : i # 1 =>
           /\ pc'[l] = "fetch"
           /\ i - 1 \in 1 .. Len(todo'[l])
           /\ todo'[l][i - 1] = todo[l][i]
      /\ \A m \in Loaders : m # l => pc'[m] = pc[m] /\ todo'[m] = todo[m]
  BY <1>1, NextYearStep
<1>5. TypeOK'
  <2>1. cached' \in [Years -> SUBSET Dates]
    BY <1>2 DEF WriteCache, TypeOK
  <2>2. \A m \in Loaders : pc'[m] \in Busy => todo'[m] # <<>>
    BY <1>n DEF TypeOK, Busy
  <2> QED
    BY <1>4, <1>n, <2>1, <2>2 DEF WriteCache, TypeOK
<1>6. CacheIsPublished'
  BY <1>3, <1>4 DEF WriteCache, CacheIsPublished, IsList, Torn, List
<1>7. /\ published' = published /\ answer' = answer /\ loaded' = loaded
      /\ warned' = warned /\ promised' = promised
      /\ cached' = [cached EXCEPT ![Year(l)] = @ \cup answer[l]]
  BY DEF WriteCache
<1>8. AnswerInv'
  BY <1>1, <1>2, <1>3, <1>7, <1>n DEF AnswerInv, Loading, Year, TypeOK
<1>9. PromiseInv'
  <2>1. ASSUME NEW m \in Loaders, m # l, pc'[m] \in Busy \cup {"done"}, ~warned'[m],
               NEW d \in promised'[m]
        PROVE  d \in loaded'[m] \/
                 \E i \in 1 .. Len(todo'[m]) :
                   d \in published'[todo'[m][i]] /\ (i = 1 => pc'[m] = "fetch")
    <3>1. /\ pc'[m] = pc[m] /\ todo'[m] = todo[m] /\ loaded' = loaded
          /\ warned' = warned /\ promised' = promised /\ published' = published
      BY <1>7, <1>n, <2>1
    <3>2. pc[m] \in Busy \cup {"done"} /\ ~warned[m] /\ d \in promised[m]
      BY <2>1, <3>1
    <3> QED
      BY <3>1, <3>2 DEF PromiseInv
  <2>2. ASSUME ~warned[l], NEW d \in promised[l]
        PROVE  d \in loaded[l] \/
                 \E i \in 1 .. Len(todo'[l]) :
                   d \in published[todo'[l][i]] /\ (i = 1 => pc'[l] = "fetch")
    <3>1. CASE d \in loaded[l]
      BY <3>1
    <3>2. CASE \E i \in 1 .. Len(todo[l]) : d \in published[todo[l][i]] /\ i # 1
      <4>1. PICK i \in 1 .. Len(todo[l]) : d \in published[todo[l][i]] /\ i # 1
        BY <3>2
      <4>2. /\ pc'[l] = "fetch" /\ i - 1 \in 1 .. Len(todo'[l])
            /\ todo'[l][i - 1] = todo[l][i]
        BY <1>n, <4>1
      <4> QED
        BY <4>1, <4>2
    <3> QED
      BY <1>1, <2>2, <3>1, <3>2 DEF PromiseInv
  <2>3. \A m \in Loaders : /\ pc'[m] = "done" => todo'[m] = <<>>
                           /\ pc'[m] = "read" => warned'[m]
    BY <1>7, <1>n DEF PromiseInv
  <2> QED
    BY <1>7, <2>1, <2>2, <2>3 DEF PromiseInv
<1> QED
  BY <1>5, <1>6, <1>8, <1>9

LEMMA ReadStep ==
  ASSUME IInv, NEW l \in Loaders, ReadCache(l)
  PROVE  IInv'
<1> USE DEF IInv
<1>1. pc[l] = "read" /\ pc[l] \in Busy
  BY DEF ReadCache, Busy
<1>2. Year(l) \in Years
  BY <1>1, YearAtHand
<1>3. /\ published' = published /\ cache' = cache /\ cached' = cached
      /\ answer' = answer /\ warned' = warned /\ promised' = promised /\ owed' = owed
  BY DEF ReadCache, files
<1>4. warned[l]
  BY <1>1 DEF PromiseInv
<1>5. /\ loaded' \in [Loaders -> SUBSET Dates]
      /\ \A m \in Loaders : m # l => loaded'[m] = loaded[m]
  <2>1. cache[Year(l)] \in Files
    BY <1>2 DEF TypeOK
  <2>2. cache[Year(l)].dates \subseteq Dates
    BY <2>1 DEF Files, Absent, Torn
  <2>3. loaded' = loaded \/ Load(l, cache[Year(l)].dates)
    BY DEF ReadCache
  <2> QED
    BY <2>2, <2>3 DEF Load, TypeOK
<1>6. CASE Goto(l, "died") /\ todo' = todo
  <2>1. TypeOK'
    BY <1>3, <1>5, <1>6 DEF Goto, TypeOK, Busy
  <2>2. CacheIsPublished' /\ AnswerInv'
    BY <1>3, <1>6 DEF Goto, CacheIsPublished, AnswerInv, Loading, Year, TypeOK
  <2>3. PromiseInv'
    BY <1>3, <1>5, <1>6 DEF Goto, PromiseInv, Busy, TypeOK
  <2> QED
    BY <2>1, <2>2, <2>3
<1>7. CASE NextYear(l)
  <2>n. /\ todo' \in [Loaders -> Seq(Years)]
        /\ pc' \in [Loaders -> Busy \cup {"idle", "done", "died"}]
        /\ pc'[l] \in {"done", "fetch"} /\ (pc'[l] = "done" <=> todo'[l] = <<>>)
        /\ \A m \in Loaders : m # l => pc'[m] = pc[m] /\ todo'[m] = todo[m]
    BY <1>1, <1>7, NextYearStep
  <2>1. \A m \in Loaders : pc'[m] \in Busy => todo'[m] # <<>>
    BY <2>n DEF TypeOK, Busy
  <2>2. TypeOK'
    BY <1>3, <1>5, <2>n, <2>1 DEF TypeOK
  <2>3. CacheIsPublished' /\ AnswerInv'
    BY <1>3, <2>n DEF CacheIsPublished, AnswerInv, Loading, Year
  <2>4. /\ pc'[l] = "done" => todo'[l] = <<>>
        /\ pc'[l] # "read"
        /\ warned'[l]
    BY <1>3, <1>4, <2>n
  <2>5. \A m \in Loaders : m # l =>
          /\ pc'[m] = pc[m] /\ todo'[m] = todo[m] /\ loaded'[m] = loaded[m]
          /\ warned'[m] = warned[m] /\ promised'[m] = promised[m]
          /\ published' = published
    BY <1>3, <1>5, <2>n
  <2>6. PromiseInv'
    BY <2>4, <2>5 DEF PromiseInv
  <2> QED
    BY <2>2, <2>3, <2>6
<1> QED
  BY <1>6, <1>7 DEF ReadCache

LEMMA NextStep == IInv /\ [Next]_vars => IInv'
<1> SUFFICES ASSUME IInv, [Next]_vars PROVE IInv'
  OBVIOUS
<1>1. ASSUME NEW d \in Dates, Announce(d) PROVE IInv'
  BY <1>1, AnnounceStep
<1>2. ASSUME NEW l \in Loaders, NEW years \in YearLists, NEW manual \in {Manual, {}},
             Start(l, years, manual)
      PROVE  IInv'
  BY <1>2, StartStep
<1>3. ASSUME NEW l \in Loaders, StartManual(l) PROVE IInv'
  BY <1>3, StartManualStep
<1>4. ASSUME NEW l \in Loaders, \E dates \in {published[Year(l)], {}} : Fetch(l, dates)
      PROVE  IInv'
  <2>1. Fetch(l, published[Year(l)])
    BY <1>4 DEF Fetch
  <2> QED
    BY <2>1, FetchStep
<1>5. ASSUME NEW l \in Loaders, FetchFails(l) PROVE IInv'
  BY <1>5, FetchFailsStep
<1>6. ASSUME NEW l \in Loaders, OpenCache(l) PROVE IInv'
  BY <1>6, OpenStep
<1>7. ASSUME NEW l \in Loaders, WriteCache(l) PROVE IInv'
  BY <1>7, WriteStep
<1>8. ASSUME NEW l \in Loaders, CacheFails(l) PROVE IInv'
  BY <1>8, CacheFailsStep
<1>9. ASSUME NEW l \in Loaders, ReadCache(l) PROVE IInv'
  BY <1>9, ReadStep
<1>10. ASSUME NEW l \in Loaders, Crash(l) PROVE IInv'
  BY <1>10, CrashStep
<1>11. CASE UNCHANGED vars
  BY <1>11 DEF vars, IInv, TypeOK, CacheIsPublished, AnswerInv, PromiseInv, Year
<1> QED
  BY <1>1, <1>2, <1>3, <1>4, <1>5, <1>6, <1>7, <1>8, <1>9, <1>10, <1>11 DEF Next

LEMMA Invariance == Spec => []IInv
<1> QED
  BY InitInv, NextStep, PTL DEF Spec

\* The variables keep their types, and a loader at work has a year at hand.
THEOREM TypeCorrect == Spec => []TypeOK
<1>1. IInv => TypeOK
  BY DEF IInv
<1> QED
  BY <1>1, Invariance, PTL

LEMMA DoneIsComplete == IInv => CompleteUnlessWarned
<1> SUFFICES ASSUME IInv, NEW l \in Loaders, pc[l] = "done", ~warned[l],
                    NEW d \in promised[l]
             PROVE  d \in loaded[l]
  BY DEF CompleteUnlessWarned
<1>1. d \in loaded[l] \/ \E i \in 1 .. Len(todo[l]) : TRUE
  BY DEF IInv, PromiseInv
<1>2. todo[l] = <<>>
  BY DEF IInv, PromiseInv
<1> QED
  BY <1>1, <1>2

\* A loader that returns without a warning knows every date that was published for
\* its years when it began, whatever the others do to the cache files meanwhile.
THEOREM SilentLoadIsComplete == Spec => []CompleteUnlessWarned
<1> QED
  BY DoneIsComplete, Invariance, PTL

\* The cache holds nothing the service did not list for that year, however many
\* loaders write it.
THEOREM CacheHoldsPublished == Spec => []CacheIsPublished
<1>1. IInv => CacheIsPublished
  BY DEF IInv
<1> QED
  BY <1>1, Invariance, PTL

-----------------------------------------------------------------------------
(* SafeInv, with one loader. *)

LEMMA InitSafe == Init => SafeInv
  BY DEF Init, SafeInv, CacheKeepsDates, KeepInv, OwedInv, IsList, Absent, Loading, Busy

\* A loader whose list of years and whose loaded dates stay loses no date it owes.
LEMMA OwedStays ==
  ASSUME OwedInv, NEW l \in Loaders, Serial,
         pc[l] \in Busy, todo' = todo, owed' = owed, cached' = cached,
         loaded[l] \subseteq loaded'[l],
         pc'[l] \notin {"fetch", "read"} =>
           pc[l] \notin {"fetch", "read"} \/ cached[todo[l][1]] \subseteq loaded'[l]
  PROVE  OwedInv'
<1>1. \A m \in Loaders : m = l
  BY DEF Serial
<1> QED
  BY <1>1 DEF OwedInv

\* What the loop leaves of the list is what is still to be asked.
LEMMA OwedMovesOn ==
  ASSUME IInv, OwedInv, NEW l \in Loaders, Serial,
         pc[l] \in Busy, NextYear(l), owed' = owed,
         \A y \in Years : cached[y] \subseteq cached'[y],
         loaded[l] \subseteq loaded'[l],
         pc[l] \in {"fetch", "read"} => cached[todo[l][1]] \subseteq loaded'[l]
  PROVE  OwedInv'
<1>1. \A m \in Loaders : m = l
  BY DEF Serial
<1>2. TypeOK
  BY DEF IInv
<1>3. \A i \in 1 .. Len(todo[l]) : i # 1 =>
        /\ pc'[l] = "fetch"
        /\ i - 1 \in 1 .. Len(todo'[l])
        /\ todo'[l][i - 1] = todo[l][i]
  BY <1>2, NextYearStep
<1>4. ASSUME NEW d \in owed[l]
      PROVE  d \in loaded'[l] \/
               \E i \in 1 .. Len(todo'[l]) :
                 d \in cached'[todo'[l][i]] /\ (i = 1 => pc'[l] \in {"fetch", "read"})
  <2>1. CASE d \in loaded[l]
    BY <2>1
  <2>2. CASE d \in cached[todo[l][1]] /\ pc[l] \in {"fetch", "read"}
    BY <2>2
  <2>3. CASE \E i \in 1 .. Len(todo[l]) : d \in cached[todo[l][i]] /\ i # 1
    <3>1. PICK i \in 1 .. Len(todo[l]) : d \in cached[todo[l][i]] /\ i # 1
      BY <2>3
    <3>2. /\ pc'[l] = "fetch" /\ i - 1 \in 1 .. Len(todo'[l])
          /\ todo'[l][i - 1] = todo[l][i]
      BY <1>3, <3>1
    <3>3. todo[l][i] \in Years
      BY <1>2, ElementOfSeq DEF TypeOK
    <3> QED
      BY <3>1, <3>2, <3>3
  <2> QED
    BY <2>1, <2>2, <2>3 DEF OwedInv
<1> QED
  BY <1>1, <1>4 DEF OwedInv

LEMMA SafeStart ==
  ASSUME IInv, SafeInv, Serial, NEW l \in Loaders, NEW years \in YearLists,
         NEW manual \in {Manual, {}}, Start(l, years, manual)
  PROVE  SafeInv'
<1>1. \A m \in Loaders : m = l
  BY DEF Serial
<1>2. /\ pc'[l] = "fetch" /\ todo'[l] = years /\ cache' = cache /\ cached' = cached
      /\ owed'[l] = UNION {cached[y] : y \in {years[i] : i \in DOMAIN years}}
  BY DEF Start, Goto, files, IInv, TypeOK
<1>3. years \in Seq(Years)
  BY KrxCalendarAssumption
<1>4. \A d \in owed'[l] : \E i \in 1 .. Len(years) : d \in cached[years[i]]
  BY <1>2, <1>3, LenProperties
<1>5. OwedInv'
  BY <1>1, <1>2, <1>4 DEF OwedInv
<1>6. CacheKeepsDates' /\ KeepInv'
  BY <1>1, <1>2 DEF SafeInv, CacheKeepsDates, KeepInv, Loading
<1> QED
  BY <1>5, <1>6 DEF SafeInv

LEMMA SafeFetch ==
  ASSUME IInv, SafeInv, Serial, NEW l \in Loaders, Fetch(l, published[Year(l)])
  PROVE  SafeInv'
<1>1. \A m \in Loaders : m = l
  BY DEF Serial
<1>2. pc[l] = "fetch" /\ pc[l] \in Busy
  BY DEF Fetch, Busy
<1>3. Year(l) \in Years /\ Year(l) = todo[l][1]
  BY <1>2, YearAtHand DEF IInv
<1>4. cached[Year(l)] \subseteq published[Year(l)]
  BY <1>3 DEF IInv, AnswerInv
<1>5. /\ pc'[l] = "open" /\ todo' = todo /\ cache' = cache /\ cached' = cached
      /\ owed' = owed /\ answer'[l] = published[Year(l)] /\ Year(l)' = Year(l)
      /\ loaded'[l] = loaded[l] \cup published[Year(l)]
  BY DEF Fetch, Goto, Load, files, IInv, TypeOK, Year
<1>6. CacheKeepsDates' /\ KeepInv'
  BY <1>1, <1>4, <1>5 DEF SafeInv, CacheKeepsDates, KeepInv
<1>7. OwedInv'
  BY <1>2, <1>3, <1>4, <1>5, OwedStays DEF SafeInv
<1> QED
  BY <1>6, <1>7 DEF SafeInv

\* A failure or a death leaves the files as they are.
LEMMA SafeFails ==
  ASSUME IInv, SafeInv, Serial, NEW l \in Loaders,
         FetchFails(l) \/ CacheFails(l) \/ Crash(l)
  PROVE  SafeInv'
<1>1. \A m \in Loaders : m = l
  BY DEF Serial
<1>2. /\ pc[l] \in Busy /\ pc'[l] \in {"read", "died"} /\ todo' = todo /\ cache' = cache
      /\ cached' = cached /\ owed' = owed /\ loaded' = loaded
  BY DEF FetchFails, CacheFails, Crash, Goto, files, IInv, TypeOK, Busy
<1>3. CacheKeepsDates' /\ KeepInv'
  BY <1>1, <1>2 DEF SafeInv, CacheKeepsDates, KeepInv, Loading
<1>4. OwedInv'
  <2>1. CASE pc'[l] = "read"
    BY <1>2, <2>1, OwedStays DEF SafeInv
  <2>2. CASE pc'[l] = "died"
    BY <1>1, <2>2 DEF OwedInv, Busy
  <2> QED
    BY <1>2, <2>1, <2>2
<1> QED
  BY <1>3, <1>4 DEF SafeInv

LEMMA SafeOpen ==
  ASSUME IInv, SafeInv, Serial, NEW l \in Loaders, OpenCache(l)
  PROVE  SafeInv'
<1>1. \A m \in Loaders : m = l
  BY DEF Serial
<1>2. pc[l] = "open" /\ pc[l] \in Busy
  BY DEF OpenCache, Busy
<1>3. Year(l) \in Years
  BY <1>2, YearAtHand DEF IInv
<1>4. /\ pc'[l] = "write" /\ todo' = todo /\ cached' = cached /\ owed' = owed
      /\ answer' = answer /\ loaded' = loaded /\ Year(l)' = Year(l)
      /\ cache'[Year(l)] = Torn
      /\ \A y \in Years : y # Year(l) => cache'[y] = cache[y]
  BY <1>3 DEF OpenCache, Goto, histories, IInv, TypeOK, Year
<1>5. CacheKeepsDates'
  BY <1>4 DEF SafeInv, CacheKeepsDates, IsList, Torn
<1>6. KeepInv'
  BY <1>1, <1>2, <1>4 DEF SafeInv, KeepInv, Absent, Torn, Loading
<1>7. OwedInv'
  BY <1>2, <1>4, OwedStays DEF SafeInv
<1> QED
  BY <1>5, <1>6, <1>7 DEF SafeInv

LEMMA SafeWrite ==
  ASSUME IInv, SafeInv, Serial, NEW l \in Loaders, WriteCache(l)
  PROVE  SafeInv'
<1>1. \A m \in Loaders : m = l
  BY DEF Serial
<1>2. pc[l] = "write" /\ pc[l] \in Busy /\ NextYear(l)
  BY DEF WriteCache, Busy
<1>3. Year(l) \in Years
  BY <1>2, YearAtHand DEF IInv
<1>4. pc'[l] \in {"done", "fetch"}
  BY <1>2, NextYearStep DEF IInv
<1>5. cached[Year(l)] \subseteq answer[l]
  BY <1>2 DEF SafeInv, KeepInv, Loading
<1>6. /\ \A y \in Years : y # Year(l) => cache'[y] = cache[y] /\ cached'[y] = cached[y]
      /\ cache'[Year(l)] \in {Torn, List(answer[l])}
      /\ cached'[Year(l)] = cached[Year(l)] \cup answer[l]
      /\ loaded' = loaded /\ owed' = owed
  <2>1. \E file \in {Torn, List(answer[l])} : cache' = [cache EXCEPT ![Year(l)] = file]
    BY DEF WriteCache
  <2>2. /\ cached' = [cached EXCEPT ![Year(l)] = @ \cup answer[l]]
        /\ loaded' = loaded /\ owed' = owed
    BY DEF WriteCache
  <2> QED
    BY <1>3, <2>1, <2>2 DEF IInv, TypeOK
<1>7. CacheKeepsDates'
  BY <1>5, <1>6 DEF SafeInv, CacheKeepsDates, IsList, Torn, List
<1>8. KeepInv'
  BY <1>1, <1>4, <1>6 DEF SafeInv, KeepInv, Absent, Torn, List, Loading
<1>9. \A y \in Years : cached[y] \subseteq cached'[y]
  BY <1>6
<1>10. OwedInv'
  BY <1>2, <1>6, <1>9, OwedMovesOn DEF SafeInv
<1> QED
  BY <1>7, <1>8, <1>10 DEF SafeInv

LEMMA SafeRead ==
  ASSUME IInv, SafeInv, Serial, NEW l \in Loaders, ReadCache(l)
  PROVE  SafeInv'
<1>1. \A m \in Loaders : m = l
  BY DEF Serial
<1>2. pc[l] = "read" /\ pc[l] \in Busy
  BY DEF ReadCache, Busy
<1>3. Year(l) \in Years /\ Year(l) = todo[l][1]
  BY <1>2, YearAtHand DEF IInv
<1>4. cache' = cache /\ cached' = cached /\ owed' = owed
  BY DEF ReadCache, files
<1>5. CASE Goto(l, "died")
  <2>1. pc'[l] = "died"
    BY <1>5 DEF Goto, IInv, TypeOK
  <2> QED
    BY <1>1, <1>4, <2>1
      DEF SafeInv, CacheKeepsDates, KeepInv, OwedInv, Loading, Busy
<1>6. CASE NextYear(l) /\ ~Goto(l, "died")
  <2>1. pc'[l] \in {"done", "fetch"}
    BY <1>2, <1>6, NextYearStep DEF IInv
  <2>2. loaded[l] \subseteq loaded'[l] /\ cached[Year(l)] \subseteq loaded'[l]
    <3>1. CASE cache[Year(l)] = Absent /\ UNCHANGED loaded
      BY <1>3, <3>1 DEF SafeInv, KeepInv
    <3>2. CASE IsList(cache[Year(l)]) /\ Load(l, cache[Year(l)].dates)
      <4>1. loaded'[l] = loaded[l] \cup cache[Year(l)].dates
        BY <3>2 DEF Load, IInv, TypeOK
      <4> QED
        BY <1>3, <3>2, <4>1 DEF SafeInv, CacheKeepsDates
    <3> QED
      BY <1>6, <3>1, <3>2 DEF ReadCache
  <2>3. CacheKeepsDates' /\ KeepInv'
    BY <1>1, <1>4, <2>1 DEF SafeInv, CacheKeepsDates, KeepInv, Loading
  <2>4. OwedInv'
    BY <1>2, <1>3, <1>4, <1>6, <2>2, OwedMovesOn DEF SafeInv
  <2> QED
    BY <2>3, <2>4 DEF SafeInv
<1> QED
  BY <1>5, <1>6 DEF ReadCache

LEMMA SafeNext == Serial /\ IInv /\ SafeInv /\ [Next]_vars => SafeInv'
<1> SUFFICES ASSUME Serial, IInv, SafeInv, [Next]_vars PROVE SafeInv'
  OBVIOUS
<1>1. ASSUME NEW d \in Dates, Announce(d) PROVE SafeInv'
  BY <1>1 DEF Announce, histories, SafeInv, CacheKeepsDates, KeepInv, OwedInv, Year
<1>2. ASSUME NEW l \in Loaders, NEW years \in YearLists, NEW manual \in {Manual, {}},
             Start(l, years, manual)
      PROVE  SafeInv'
  BY <1>2, SafeStart
<1>3. ASSUME NEW l \in Loaders, StartManual(l) PROVE SafeInv'
  <2>1. \A m \in Loaders : m = l
    BY DEF Serial
  <2>2. pc'[l] = "done" /\ owed'[l] = {} /\ cache' = cache /\ cached' = cached
    BY <1>3 DEF StartManual, Goto, files, IInv, TypeOK
  <2> QED
    BY <2>1, <2>2 DEF SafeInv, CacheKeepsDates, KeepInv, OwedInv, Loading
<1>4. ASSUME NEW l \in Loaders, \E dates \in {published[Year(l)], {}} : Fetch(l, dates)
      PROVE  SafeInv'
  <2>1. Fetch(l, published[Year(l)])
    BY <1>4 DEF Fetch
  <2> QED
    BY <2>1, SafeFetch
<1>5. ASSUME NEW l \in Loaders, FetchFails(l) \/ CacheFails(l) \/ Crash(l) PROVE SafeInv'
  BY <1>5, SafeFails
<1>6. ASSUME NEW l \in Loaders, OpenCache(l) PROVE SafeInv'
  BY <1>6, SafeOpen
<1>7. ASSUME NEW l \in Loaders, WriteCache(l) PROVE SafeInv'
  BY <1>7, SafeWrite
<1>8. ASSUME NEW l \in Loaders, ReadCache(l) PROVE SafeInv'
  BY <1>8, SafeRead
<1>9. CASE UNCHANGED vars
  BY <1>9 DEF vars, SafeInv, CacheKeepsDates, KeepInv, OwedInv, Year
<1> QED
  BY <1>1, <1>2, <1>3, <1>4, <1>5, <1>6, <1>7, <1>8, <1>9 DEF Next

\* With one loader at a time, as the single scheduled scan has it, a loader that
\* returns knows every date that had ever been cached for its years, whatever
\* deaths and failures there were.
THEOREM LoadFailsSafe ==
  ASSUME Serial
  PROVE  Spec => []FailsSafe
<1>1. IInv /\ SafeInv => FailsSafe
  <2> SUFFICES ASSUME IInv, SafeInv, NEW l \in Loaders, pc[l] = "done",
                      NEW d \in owed[l]
               PROVE  d \in loaded[l]
    BY DEF FailsSafe
  <2>1. d \in loaded[l] \/ \E i \in 1 .. Len(todo[l]) : TRUE
    BY DEF SafeInv, OwedInv
  <2>2. todo[l] = <<>>
    BY DEF IInv, PromiseInv
  <2> QED
    BY <2>1, <2>2
<1>2. Serial
  OBVIOUS
<1> QED
  BY <1>1, <1>2, InitInv, NextStep, InitSafe, SafeNext, PTL DEF Spec

\* With one loader at a time no write takes a date out of a cache file.
THEOREM CacheNeverForgets ==
  ASSUME Serial
  PROVE  Spec => []CacheKeepsDates
<1>1. SafeInv => CacheKeepsDates
  BY DEF SafeInv
<1>2. Serial
  OBVIOUS
<1> QED
  BY <1>1, <1>2, InitInv, NextStep, InitSafe, SafeNext, PTL DEF Spec

-----------------------------------------------------------------------------
(* The scans and the script start the loads of Spec. *)

LEMMA SessionStarts == SessionInit => Init
  BY DEF SessionInit

LEMMA YearsAreGiven ==
  ASSUME NEW c \in Configs, today \in Days
  PROVE  LoadYears(c) \in YearLists
<1>1. c.years \in YearLists \cup {Unset}
  BY MarketSessionAssumption
<1>2. c.years = Unset => DefaultYears(today) \in YearLists
  BY MarketSessionAssumption
<1> QED
  BY <1>1, <1>2 DEF LoadYears

LEMMA WorkIsNext == Work => Next
<1> SUFFICES ASSUME Work PROVE Next
  OBVIOUS
<1>1. CASE \E d \in Dates : Announce(d)
  BY <1>1 DEF Next
<1>2. ASSUME NEW l \in Loaders,
             pc[l] = "fetch" /\ \E dates \in {published[Year(l)], {}} : Fetch(l, dates)
      PROVE  Next
  BY <1>2 DEF Next
<1>3. ASSUME NEW l \in Loaders,
             FetchFails(l) \/ OpenCache(l) \/ WriteCache(l) \/ CacheFails(l)
               \/ ReadCache(l) \/ Crash(l)
      PROVE  Next
  BY <1>3 DEF Next
<1> QED
  BY <1>1, <1>2, <1>3 DEF Work

LEMMA SessionStep == today \in Days /\ [SessionNext]_sessionVars => [Next]_vars
<1> SUFFICES ASSUME today \in Days, [SessionNext]_sessionVars PROVE [Next]_vars
  OBVIOUS
<1>1. ASSUME NEW l \in Loaders, NEW c \in Configs, StartScan(l, c) PROVE Next
  <2>1. CASE StartManual(l)
    BY <2>1 DEF Next
  <2>2. CASE Start(l, LoadYears(c), Manual)
    BY <2>2, YearsAreGiven DEF Next
  <2> QED
    BY <1>1, <2>1, <2>2 DEF StartScan
<1>2. ASSUME NEW l \in Loaders, NEW years \in YearLists, StartScript(l, years) PROVE Next
  BY <1>2 DEF StartScript, Next
<1>3. ASSUME NEW l \in Loaders, NEW second \in Moments, Decide(l, second)
      PROVE  UNCHANGED vars
  BY <1>3 DEF Decide
<1>4. CASE Work
  BY <1>4, WorkIsNext
<1>5. CASE Midnight
  BY <1>5 DEF Midnight
<1>6. CASE UNCHANGED sessionVars
  BY <1>6 DEF sessionVars
<1> QED
  BY <1>1, <1>2, <1>3, <1>4, <1>5, <1>6 DEF SessionNext

-----------------------------------------------------------------------------
(* SInv: what a scan has loaded, and what its decision says. *)

SessionTypeOK ==
  /\ today \in Days
  /\ config \in [Loaders -> Configs \cup {NoScan}]
  /\ session \in [Loaders ->
       {Undecided} \cup [day : Days, second : Moments, open : BOOLEAN]]
  /\ listed \in [Loaders -> SUBSET Dates]

Published == UNION {published[y] : y \in Years}
IsScan(l) == config[l] # NoScan

\* A loader knows what is configured and nothing but that and the published dates.
ListInv ==
  /\ \A y \in Years : \A d \in published[y] : YearOf[d] = y
  /\ \A l \in Loaders : loaded[l] \subseteq Manual \cup Published
  /\ \A l \in Loaders : IsScan(l) => Manual \subseteq loaded[l]

\* What was published of the days to come is promised to a scan without years of
\* its own, and what was published of its years to one that has such.
CoverInv ==
  \A l \in Loaders : IsScan(l) /\ ~config[l].manual =>
    \A d \in listed[l] \cap Days :
      \/ d \in promised[l]
      \/ IF config[l].years = Unset
         THEN d < today
         ELSE \A i \in DOMAIN config[l].years : config[l].years[i] # YearOfDay[d]

\* DecisionIsRight, with the reason for a day that is taken for closed.
Right(l, now, c) ==
  /\ IsScan(l)
  /\ InHours(now.second) /\ now.day \notin Weekend \cup Manual /\ ~now.open
       => now.day \in Published
  /\ now.open => InHours(now.second) /\ now.day \notin Weekend \cup Manual
  /\ now.open /\ now.day \in listed[l] =>
       \/ warned[l] \/ c.manual
       \/ c.years # Unset /\ \A i \in DOMAIN c.years : c.years[i] # YearOfDay[now.day]

DecisionInv == \A l \in Loaders : session[l] # Undecided => Right(l, session[l], config[l])

SInv == SessionTypeOK /\ ListInv /\ CoverInv /\ DecisionInv

LEMMA SessionInitInv == SessionInit => SInv
<1> SUFFICES ASSUME SessionInit PROVE SInv
  OBVIOUS
<1>1. SessionTypeOK
  <2>1. 0 \in Days
    BY MarketSessionAssumption DEF Days
  <2> QED
    BY <2>1 DEF SessionInit, SessionTypeOK
<1>2. ListInv
  BY DEF SessionInit, Init, ListInv, IsScan
<1>3. CoverInv /\ DecisionInv
  BY DEF SessionInit, CoverInv, DecisionInv, IsScan
<1> QED
  BY <1>1, <1>2, <1>3 DEF SInv

\* What the loaders at work do to what the decisions rest on.
LEMMA WorkGrows ==
  ASSUME IInv, ListInv, Work
  PROVE  /\ promised' = promised
         /\ \A y \in Years : published[y] \subseteq published'[y]
         /\ \A y \in Years : \A d \in published'[y] : YearOf[d] = y
         /\ \A l \in Loaders : loaded[l] \subseteq loaded'[l]
         /\ \A l \in Loaders : loaded'[l] \subseteq loaded[l] \cup Published
         /\ \A l \in Loaders : warned[l] => warned'[l]
<1>1. ASSUME NEW d \in Dates, Announce(d)
      PROVE  /\ promised' = promised /\ loaded' = loaded /\ warned' = warned
             /\ \A y \in Years : published[y] \subseteq published'[y]
             /\ \A y \in Years : \A e \in published'[y] : YearOf[e] = y
  <2>1. YearOf[d] \in Years
    BY KrxCalendarAssumption
  <2> QED
    BY <1>1, <2>1 DEF Announce, histories, IInv, TypeOK, ListInv
<1>2. ASSUME NEW l \in Loaders, pc[l] = "fetch", Fetch(l, published[Year(l)])
      PROVE  /\ promised' = promised /\ warned' = warned /\ published' = published
             /\ loaded' = [loaded EXCEPT ![l] = @ \cup published[Year(l)]]
             /\ Year(l) \in Years
  BY <1>2, YearAtHand DEF Fetch, Load, files, IInv, Busy
<1>3. ASSUME NEW l \in Loaders, FetchFails(l) \/ CacheFails(l)
      PROVE  /\ promised' = promised /\ published' = published /\ loaded' = loaded
             /\ \A m \in Loaders : warned[m] => warned'[m]
  BY <1>3 DEF FetchFails, CacheFails, Warn, files, IInv, TypeOK
<1>4. ASSUME NEW l \in Loaders, OpenCache(l) \/ WriteCache(l) \/ Crash(l)
      PROVE  /\ promised' = promised /\ published' = published /\ loaded' = loaded
             /\ warned' = warned
  BY <1>4 DEF OpenCache, WriteCache, Crash, files, histories
<1>5. ASSUME NEW l \in Loaders, ReadCache(l)
      PROVE  /\ promised' = promised /\ published' = published /\ warned' = warned
             /\ \A m \in Loaders : loaded[m] \subseteq loaded'[m]
             /\ \A m \in Loaders : loaded'[m] \subseteq loaded[m] \cup Published
  <2>1. promised' = promised /\ published' = published /\ warned' = warned
    BY <1>5 DEF ReadCache, files
  <2>2. Year(l) \in Years
    BY <1>5, YearAtHand DEF ReadCache, IInv, Busy
  <2>3. IsList(cache[Year(l)]) => cache[Year(l)].dates \subseteq Published
    BY <2>2 DEF IInv, CacheIsPublished, Published
  <2>4. loaded' = loaded \/ (IsList(cache[Year(l)]) /\ Load(l, cache[Year(l)].dates))
    BY <1>5 DEF ReadCache
  <2> QED
    BY <2>1, <2>3, <2>4 DEF Load, IInv, TypeOK
<1>6. CASE \E d \in Dates : Announce(d)
  BY <1>1, <1>6
<1>7. CASE \E l \in Loaders : pc[l] = "fetch" /\ Fetch(l, published[Year(l)])
  <2>1. PICK l \in Loaders : pc[l] = "fetch" /\ Fetch(l, published[Year(l)])
    BY <1>7
  <2>2. /\ promised' = promised /\ warned' = warned /\ published' = published
        /\ loaded' = [loaded EXCEPT ![l] = @ \cup published[Year(l)]]
        /\ published[Year(l)] \subseteq Published
    BY <1>2, <2>1 DEF Published
  <2> QED
    BY <2>2 DEF ListInv, IInv, TypeOK
<1>8. CASE \E l \in Loaders : \/ FetchFails(l) \/ CacheFails(l) \/ OpenCache(l)
                              \/ WriteCache(l) \/ Crash(l) \/ ReadCache(l)
  BY <1>3, <1>4, <1>5, <1>8 DEF ListInv
<1>9. \A l \in Loaders : ~Fetch(l, {})
  BY DEF Fetch
<1> QED
  BY <1>6, <1>7, <1>8, <1>9 DEF Work

LEMMA WorkKeeps == IInv /\ SInv /\ Work => SInv'
<1> SUFFICES ASSUME IInv, SInv, Work PROVE SInv'
  OBVIOUS
<1>1. UNCHANGED <<today, config, session, listed>>
  BY DEF Work
<1>2. /\ promised' = promised
      /\ \A y \in Years : published[y] \subseteq published'[y]
      /\ \A y \in Years : \A d \in published'[y] : YearOf[d] = y
      /\ \A l \in Loaders : loaded[l] \subseteq loaded'[l]
      /\ \A l \in Loaders : loaded'[l] \subseteq loaded[l] \cup Published
      /\ \A l \in Loaders : warned[l] => warned'[l]
  BY WorkGrows DEF SInv
<1>3. Published \subseteq Published'
  BY <1>2 DEF Published
<1>4. SessionTypeOK'
  BY <1>1 DEF SInv, SessionTypeOK
<1>5. ListInv'
  <2>1. \A l \in Loaders : loaded'[l] \subseteq Manual \cup Published'
    BY <1>2, <1>3 DEF SInv, ListInv
  <2>2. \A l \in Loaders : IsScan(l)' => Manual \subseteq loaded'[l]
    BY <1>1, <1>2 DEF SInv, ListInv, IsScan
  <2> QED
    BY <1>2, <2>1, <2>2 DEF ListInv
<1>6. CoverInv'
  BY <1>1, <1>2 DEF SInv, CoverInv, IsScan
<1>7. DecisionInv'
  BY <1>1, <1>2, <1>3 DEF SInv, DecisionInv, Right, IsScan
<1> QED
  BY <1>4, <1>5, <1>6, <1>7 DEF SInv

\* A load that starts leaves the decisions of the other scans alone.
LEMMA BeginKeeps ==
  ASSUME IInv, SInv, NEW l \in Loaders, NEW c \in Configs \cup {NoScan}, Begin(l, c),
         published' = published,
         \A m \in Loaders : m # l => warned'[m] = warned[m]
  PROVE  /\ SessionTypeOK'
         /\ DecisionInv'
         /\ config'[l] = c /\ listed'[l] = Published /\ today' = today
         /\ Published' = Published
         /\ \A m \in Loaders : m # l =>
              config'[m] = config[m] /\ listed'[m] = listed[m]
<1>1. Published \subseteq Dates /\ Published' = Published
  BY DEF Published, IInv, TypeOK
<1>2. SessionTypeOK'
  BY <1>1 DEF Begin, Published, SInv, SessionTypeOK
<1>3. /\ config'[l] = c /\ listed'[l] = Published /\ today' = today
      /\ session'[l] = Undecided
  BY DEF Begin, Published, SInv, SessionTypeOK
<1>4. \A m \in Loaders : m # l =>
        config'[m] = config[m] /\ listed'[m] = listed[m] /\ session'[m] = session[m]
  BY DEF Begin, SInv, SessionTypeOK
<1>5. DecisionInv'
  BY <1>1, <1>3, <1>4 DEF SInv, DecisionInv, Right, IsScan
<1> QED
  BY <1>1, <1>2, <1>3, <1>4, <1>5

LEMMA StartScanKeeps ==
  ASSUME IInv, SInv, NEW l \in Loaders, NEW c \in Configs, StartScan(l, c)
  PROVE  SInv'
<1>1. Begin(l, c) /\ today \in Days
  BY DEF StartScan, SInv, SessionTypeOK
<1>2. LoadYears(c) \in YearLists
  BY <1>1, YearsAreGiven
<1>3. published' = published /\ loaded'[l] = Manual
  BY DEF StartScan, Start, StartManual, files, IInv, TypeOK
<1>4. \A m \in Loaders : m # l =>
        promised'[m] = promised[m] /\ loaded'[m] = loaded[m] /\ warned'[m] = warned[m]
  BY DEF StartScan, Start, StartManual, IInv, TypeOK
<1>5. /\ SessionTypeOK' /\ DecisionInv'
      /\ config'[l] = c /\ listed'[l] = Published /\ today' = today
      /\ Published' = Published
      /\ \A m \in Loaders : m # l =>
           config'[m] = config[m] /\ listed'[m] = listed[m]
  BY <1>1, <1>3, <1>4, BeginKeeps
<1>6. ListInv'
  BY <1>3, <1>4, <1>5 DEF SInv, ListInv, IsScan
<1>7. ASSUME ~c.manual, NEW d \in Published \cap Days
      PROVE  \/ d \in promised'[l]
             \/ IF c.years = Unset
                THEN d < today
                ELSE \A i \in DOMAIN c.years : c.years[i] # YearOfDay[d]
  <2> DEFINE years == LoadYears(c)
  <2>1. /\ years \in Seq(Years)
        /\ promised'[l] = UNION {published[y] : y \in {years[i] : i \in DOMAIN years}}
    BY <1>2, <1>7, KrxCalendarAssumption DEF StartScan, Start, IInv, TypeOK
  <2>2. PICK y \in Years : d \in published[y]
    BY DEF Published
  <2>3. d \in Dates /\ YearOf[d] = y
    BY <2>2 DEF SInv, ListInv, IInv, TypeOK
  <2>4. YearOfDay[d] = y
    BY <2>3, MarketSessionAssumption
  <2>5. (\E i \in DOMAIN years : years[i] = y) => d \in promised'[l]
    BY <2>1, <2>2
  <2>6. CASE c.years = Unset /\ ~(d < today)
    <3>1. d \in today .. LastDay
      BY <1>1, <2>6, MarketSessionAssumption DEF Days
    <3>2. YearOfDay[d] \in YearOfDay[today] .. YearOfDay[today] + 1 /\ YearOfDay[today] \in Nat
      BY <1>1, <3>1, MarketSessionAssumption
    <3>3. years = <<YearOfDay[today], YearOfDay[today] + 1>>
      BY <2>6 DEF LoadYears, DefaultYears
    <3>4. y = YearOfDay[today] \/ y = YearOfDay[today] + 1
      BY <2>4, <3>2
    <3>5. years[1] = YearOfDay[today] /\ years[2] = YearOfDay[today] + 1 /\ DOMAIN years = 1 .. 2
      BY <3>3
    <3> QED
      BY <2>5, <3>4, <3>5
  <2>7. CASE c.years # Unset
    BY <2>4, <2>5, <2>7 DEF LoadYears
  <2> QED
    BY <2>6, <2>7
<1>8. CoverInv'
  BY <1>4, <1>5, <1>7 DEF SInv, CoverInv, IsScan
<1> QED
  BY <1>5, <1>6, <1>8 DEF SInv

LEMMA StartScriptKeeps ==
  ASSUME IInv, SInv, NEW l \in Loaders, NEW years \in YearLists, StartScript(l, years)
  PROVE  SInv'
<1>1. Begin(l, NoScan) /\ published' = published /\ loaded'[l] = {}
  BY DEF StartScript, Start, files, IInv, TypeOK
<1>2. \A m \in Loaders : m # l =>
        promised'[m] = promised[m] /\ loaded'[m] = loaded[m] /\ warned'[m] = warned[m]
  BY DEF StartScript, Start, IInv, TypeOK
<1>3. /\ SessionTypeOK' /\ DecisionInv'
      /\ config'[l] = NoScan /\ today' = today /\ Published' = Published
      /\ \A m \in Loaders : m # l =>
           config'[m] = config[m] /\ listed'[m] = listed[m]
  BY <1>1, <1>2, BeginKeeps
<1>4. ListInv'
  BY <1>1, <1>2, <1>3 DEF SInv, ListInv, IsScan
<1>5. CoverInv'
  BY <1>2, <1>3 DEF SInv, CoverInv, IsScan
<1> QED
  BY <1>3, <1>4, <1>5 DEF SInv

\* The minutes of market_session_decision are the hours of the market.
LEMMA HoursInMinutes ==
  ASSUME NEW second \in Nat
  PROVE  second \div 60 \in MarketOpen .. MarketClose <=> InHours(second)
<1>1. /\ second \div 60 \in Nat
      /\ 60 * (second \div 60) <= second
      /\ second < 60 * (second \div 60) + 60
  OBVIOUS
<1> QED
  BY <1>1 DEF MarketOpen, MarketClose, InHours

LEMMA DecideKeeps ==
  ASSUME IInv, SInv, NEW l \in Loaders, NEW second \in Moments, Decide(l, second)
  PROVE  SInv'
<1> DEFINE now == [day |-> today, second |-> second, open |-> IsOpen(loaded[l], second)]
<1>1. /\ UNCHANGED <<vars, today, config, listed>>
      /\ pc[l] = "done" /\ IsScan(l)
      /\ session' = [session EXCEPT ![l] = now]
  BY DEF Decide, IsScan
<1>2. second \in Nat /\ today \in Days
  BY MarketSessionAssumption DEF SInv, SessionTypeOK
<1>3. now.day = today /\ now.second = second /\ now.open = IsOpen(loaded[l], second)
  OBVIOUS
<1>4. now.open <=> today \notin Weekend /\ today \notin loaded[l] /\ InHours(second)
  BY <1>2, <1>3, HoursInMinutes DEF IsOpen
<1>5. SessionTypeOK'
  <2>1. now \in [day : Days, second : Moments, open : BOOLEAN]
    BY <1>2 DEF IsOpen
  <2> QED
    BY <1>1, <2>1 DEF SInv, SessionTypeOK
<1>6. ListInv' /\ CoverInv' /\ Published' = Published
  BY <1>1 DEF SInv, ListInv, CoverInv, IsScan, Published, vars
<1>7. Right(l, now, config[l])
  <2>1. Manual \subseteq loaded[l] /\ loaded[l] \subseteq Manual \cup Published
    BY <1>1 DEF SInv, ListInv
  <2>2. ASSUME now.open, today \in listed[l], ~warned[l], ~config[l].manual
        PROVE  /\ config[l].years # Unset
               /\ \A i \in DOMAIN config[l].years : config[l].years[i] # YearOfDay[today]
    <3>1. promised[l] \subseteq loaded[l]
      BY <1>1, <2>2, DoneIsComplete DEF CompleteUnlessWarned
    <3>2. today \notin promised[l] /\ ~(today < today)
      BY <1>2, <1>4, <2>2, <3>1, MarketSessionAssumption DEF Days
    <3> QED
      BY <1>1, <1>2, <2>2, <3>2 DEF SInv, CoverInv
  <2> HIDE DEF now
  <2> QED
    BY <1>1, <1>3, <1>4, <2>1, <2>2 DEF Right
<1>8. DecisionInv'
  <2> HIDE DEF now
  <2>1. ASSUME NEW m \in Loaders, session'[m] # Undecided
        PROVE  Right(m, session'[m], config[m])
    <3>1. CASE m = l
      BY <1>1, <1>7, <3>1 DEF SInv, SessionTypeOK
    <3>2. CASE m # l
      BY <1>1, <2>1, <3>2 DEF SInv, SessionTypeOK, DecisionInv
    <3> QED
      BY <3>1, <3>2
  <2>2. \A m \in Loaders : Right(m, session'[m], config[m]) => Right(m, session[m], config[m])'
    BY <1>1, <1>6 DEF Right, IsScan, vars
  <2> QED
    BY <2>1, <2>2 DEF DecisionInv
<1> QED
  BY <1>5, <1>6, <1>8 DEF SInv

LEMMA MidnightKeeps ==
  ASSUME IInv, SInv, Midnight
  PROVE  SInv'
<1>1. /\ UNCHANGED <<vars, config, session, listed>>
      /\ today \in Nat /\ today' = today + 1 /\ today' \in Days
  BY MarketSessionAssumption DEF Midnight, SInv, SessionTypeOK, Days
<1>2. Days \subseteq Nat
  BY DEF Days
<1>3. SessionTypeOK'
  BY <1>1 DEF SInv, SessionTypeOK
<1>4. ListInv' /\ DecisionInv'
  BY <1>1 DEF SInv, ListInv, DecisionInv, Right, IsScan, Published, vars
<1>5. CoverInv'
  <2>1. \A d \in Days : d < today => d < today'
    BY <1>1, <1>2
  <2> QED
    BY <1>1, <2>1 DEF SInv, CoverInv, IsScan, vars
<1> QED
  BY <1>3, <1>4, <1>5 DEF SInv

LEMMA SessionNextKeeps == IInv /\ SInv /\ [SessionNext]_sessionVars => IInv' /\ SInv'
<1> SUFFICES ASSUME IInv, SInv, [SessionNext]_sessionVars PROVE IInv' /\ SInv'
  OBVIOUS
<1>1. IInv'
  BY SessionStep, NextStep DEF SInv, SessionTypeOK
<1>2. SInv'
  <2>1. CASE UNCHANGED sessionVars
    BY <2>1 DEF sessionVars, vars, SInv, SessionTypeOK, ListInv, CoverInv, DecisionInv,
                Right, IsScan, Published
  <2> QED
    BY <2>1, StartScanKeeps, StartScriptKeeps, DecideKeeps, WorkKeeps, MidnightKeeps
       DEF SessionNext
<1> QED
  BY <1>1, <1>2

LEMMA SessionInvariance == SessionSpec => [](IInv /\ SInv)
<1> QED
  BY SessionStarts, InitInv, SessionInitInv, SessionNextKeeps, PTL DEF SessionSpec

\* The scans and the script, over the days that pass, load as the calendar alone
\* does: what is proved of Spec holds of their loads.
THEOREM SessionsLoad == SessionSpec => Spec
<1>1. SInv => today \in Days
  BY DEF SInv, SessionTypeOK
<1> QED
  BY <1>1, SessionStarts, SessionStep, SessionInvariance, PTL DEF SessionSpec, Spec

\* The decision of a scan is right for the moment at which it is taken, for any
\* years, holidays, hours, loads, failures and deaths, also when the days or the
\* year have changed since the load.
THEOREM SessionsDecideRightly == SessionSpec => []DecisionIsRight
<1>1. IInv /\ SInv => DecisionIsRight
  <2> SUFFICES ASSUME IInv, SInv, NEW l \in Loaders, session[l] # Undecided
               PROVE  LET now == session[l]  c == config[l] IN
                      /\ InHours(now.second) /\ now.day \notin Weekend \cup Manual \cup published[YearOfDay[now.day]]
                           => now.open
                      /\ now.open => InHours(now.second) /\ now.day \notin Weekend \cup Manual
                      /\ now.open /\ now.day \in listed[l] =>
                           \/ warned[l] \/ c.manual
                           \/ c.years # Unset /\ \A i \in DOMAIN c.years : c.years[i] # YearOfDay[now.day]
    BY DEF DecisionIsRight
  <2>1. Right(l, session[l], config[l]) /\ session[l].day \in Days
    BY DEF SInv, SessionTypeOK, DecisionInv
  <2>2. session[l].day \in Published => session[l].day \in published[YearOfDay[session[l].day]]
    <3> SUFFICES ASSUME NEW y \in Years, session[l].day \in published[y]
                 PROVE  session[l].day \in published[YearOfDay[session[l].day]]
      BY DEF Published
    <3>1. session[l].day \in Dates /\ YearOf[session[l].day] = y
      BY DEF SInv, ListInv, IInv, TypeOK
    <3> QED
      BY <2>1, <3>1, MarketSessionAssumption
  <2> QED
    BY <2>1, <2>2 DEF Right
<1> QED
  BY <1>1, SessionInvariance, PTL
=============================================================================
