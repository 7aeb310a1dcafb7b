----------------------------- MODULE ProxyCache -----------------------------
(***************************************************************************)
(* TDatabase of individual/lib/Database.cpp: what may be kept of the       *)
(* origins' responses, and for how long.                                   *)
(*                                                                         *)
(* A Cache-Control header is the sequence of its directives, as SplitValue *)
(* gives them: a word, or the number of a max-age.  A response without     *)
(* that header has no directive.                                           *)
(***************************************************************************)
EXTENDS Integers, Sequences

CONSTANTS Urls,
          Ages,          \* the values of max-age
          Uninitialised  \* what an int may be that nothing has been assigned to
ASSUME AgesAssumption == Ages \subseteq Nat /\ Uninitialised \subseteq Int

\* "max-age=" stands for any without a number after it.
Words == {"private", "no-store", "public", "max-age", "max-age="}
Directives == [word : Words] \cup [age : Ages]
Word(w)    == [word |-> w]
MaxAge(n)  == [age |-> n]
IsAge(d)   == "age" \in DOMAIN d
Forbids(d) == d \in {Word("private"), Word("no-store")}

\* substr takes off what is longer than "max-age", and throws, unless the loop has
\* returned before.  Mutant: it takes off what is longer than "max-age=".
CacheThrowsOneMore(control) ==
    \E k \in DOMAIN control :
        /\ control[k] \in {Word("max-age"), Word("max-age=")}
        /\ \A j \in 1 .. k - 1 : ~Forbids(control[j])
CacheThrows(control) ==
    \E k \in DOMAIN control :
        control[k] = Word("max-age") /\ \A j \in 1 .. k - 1 : ~Forbids(control[j])

\* What CacheDuration may return: the last max-age of the header, unless some directive
\* forbids it.  from_chars assigns nothing when there is no number.  Mutant: the loop
\* returns at the first max-age, and does not see what comes after it.
Assigns(d)  == IsAge(d) \/ d = Word("max-age=")
Assigned(d) == IF IsAge(d) THEN {d.age} ELSE Uninitialised
LastAge(control) == {k \in DOMAIN control :
    Assigns(control[k]) /\ \A j \in DOMAIN control : Assigns(control[j]) => j <= k}
CacheDurationFirst(control) ==
    LET first == {k \in DOMAIN control : \A j \in 1 .. k : Assigns(control[j]) <=> j = k}
    IN  IF first = {} \/ Forbids(control[1]) THEN {0}
        ELSE UNION {Assigned(control[k]) : k \in first}
CacheDuration(control) ==
    IF LastAge(control) = {} \/ (\E k \in DOMAIN control : Forbids(control[k])) THEN {0}
    ELSE UNION {Assigned(control[k]) : k \in LastAge(control)}

\* SavedResponses_: an entry for a URL or none.
NoEntry == [expire |-> -1]
IsSaved(saved, url) == saved[url] # NoEntry

\* ServeCached: what is served, if anything, and what is saved afterwards.
StillGood(saved, url, now) == IsSaved(saved, url) /\ ~(saved[url].expire < now)
AfterServe(saved, url, now) ==
    IF StillGood(saved, url, now) THEN saved ELSE [saved EXCEPT ![url] = NoEntry]

\* CacheResponse: a response that may not be kept leaves an older one in place.
AfterCache(saved, url, response, duration, now) ==
    IF duration > 0 THEN [saved EXCEPT ![url] = [response |-> response, expire |-> now + duration]]
    ELSE saved
=============================================================================
