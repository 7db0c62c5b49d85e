----------------------------- MODULE MCServices -----------------------------
(***************************************************************************)
(* The components beside the queue, for TLC.  They share no state, so each *)
(* is checked alone: part says which one moves, and the others stay where  *)
(* they begin.                                                             *)
(***************************************************************************)
EXTENDS Transcript, RateLimiter, IdleWatchdog, Backups, LiveUpdates, Heartbeats,
        Accounts

VARIABLE part    \* the component that moves

parts == <<tvars, rlvars, wdvars, bkvars, luvars, hbvars, acvars>>
svars == <<part, parts>>

-----------------------------------------------------------------------------
(* Times are in units of 1/40 s.  Answers of the model: one in good order; words *)
(* that collapsed at the end of a recording; none with times; times that are     *)
(* missing, zero, backwards and beyond the end; half of the times; nothing; a    *)
(* text without words; words of ten seconds.                                     *)

Word(t, from, to) == [tok |-> t, s |-> from, e |-> to]
Chunk(ts, from, to) == [toks |-> ts, s |-> from, e |-> to]
Says(text, chunks) == [text |-> text, chunks |-> chunks]
On(t) == [kind |-> "start", at |-> t]
Off(t) == [kind |-> "end", at |-> t]

Steady == Says(<<1, 2, 3>>, <<Word(1, 4, 10), Word(2, 12, 20), Word(3, 70, 78)>>)
AtEnd(d) == Says(<<1, 2, 3, 4>>,
    [i \in 1 .. 4 |-> IF i < 4 THEN Word(i, d - 4, d - 3) ELSE Word(i, None, None)])
Timeless == Says(<<1, 2, 3, 4, 5>>, [i \in 1 .. 5 |-> Word(i, None, None)])
Ragged == Says(<<1, 2, 3, 4>>,
    <<Word(1, None, 30), Word(2, 20, 10), Word(0, 0, 0), Word(3, 0, 0), Word(4, 900, None)>>)
Half == Says(<<1, 2, 3, 4>>,
    <<Word(1, 70, None), Word(2, None, 71), Word(3, None, None), Word(4, None, None)>>)
Mute == Says(<<>>, <<>>)
Untimed == Says(<<1, 2>>, <<>>)
Drawn == Says(<<1, 2>>, <<Word(1, 10, 420), Word(2, 420, 470)>>)

MCLogs ==
    <<{<<>>, <<On(0), Off(80)>>, <<Off(10), On(20), Off(40), On(70)>>,
       <<On(30), Off(41), On(42), Off(56)>>, <<On(0), Off(70)>>},
      {<<On(20), Off(40)>>}>>
MCWords ==
    <<{Steady, AtEnd(80), AtEnd(480), Timeless, Ragged, Half, Mute, Untimed, Drawn},
      {Steady, Timeless}>>
MCFiner == <<{Steady, AtEnd(80), Mute}, {Steady}>>
MCSegments ==
    <<{Says(<<1, 2, 3, 6>>, <<Chunk(<<1, 2>>, 4, 20), Chunk(<<3, 6>>, 40, 90)>>),
       Says(<<>>, <<Chunk(<<6>>, 30, None), Chunk(<<7, 8, 9, 7>>, 0, 60)>>),
       Says(<<1, 2, 3, 6>>, <<Chunk(<<1, 2, 3, 6>>, 70, 80)>>),
       Says(<<5>>, <<Chunk(<<5>>, 60, 60)>>)},
      {Mute}>>

\* Three bootstraps, of which two want the same name and one has blanks around it.
MCWanted == ("b1" :> [name |-> "n", secret |-> 1]) @@ ("b2" :> [name |-> "n", secret |-> 2])
            @@ ("b3" :> [name |-> " n ", secret |-> 3])
MCBootstraps == DOMAIN MCWanted
MCTrimmed == [n \in {"n", " n "} |-> "n"]

MCMostOf == [kind \in Kinds |-> IF kind = "auth" THEN 1 ELSE 2]

-----------------------------------------------------------------------------

\* The initial states of a part that does not move are reduced to one.
One(p, v, set) == part = p \/ v = CHOOSE x \in set : TRUE

SInit ==
    /\ part \in {"words", "limiter", "watchdog", "backups", "updates", "beats", "accounts"}
    /\ TInit /\ RLInit /\ WDInit /\ BKInit /\ LUInit /\ HBInit /\ ACInit
    /\ One("words", channels, 1 .. MaxChannels) /\ One("words", dur, Durations)
    /\ One("watchdog", active, SUBSET LocalJobs)

SNext ==
    /\ UNCHANGED part
    /\ \/ /\ part = "words" /\ TNext
          /\ UNCHANGED <<rlvars, wdvars, bkvars, luvars, hbvars, acvars>>
       \/ /\ part = "limiter" /\ RLNext
          /\ UNCHANGED <<tvars, wdvars, bkvars, luvars, hbvars, acvars>>
       \/ /\ part = "watchdog" /\ WDNext
          /\ UNCHANGED <<tvars, rlvars, bkvars, luvars, hbvars, acvars>>
       \/ /\ part = "backups" /\ BKNext
          /\ UNCHANGED <<tvars, rlvars, wdvars, luvars, hbvars, acvars>>
       \/ /\ part = "updates" /\ LUNext
          /\ UNCHANGED <<tvars, rlvars, wdvars, bkvars, hbvars, acvars>>
       \/ /\ part = "beats" /\ HBNext
          /\ UNCHANGED <<tvars, rlvars, wdvars, bkvars, luvars, acvars>>
       \/ /\ part = "accounts" /\ ACNext
          /\ UNCHANGED <<tvars, rlvars, wdvars, bkvars, luvars, hbvars>>

SSpec == SInit /\ [][SNext]_svars

=============================================================================
