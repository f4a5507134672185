----------------------------- MODULE SettingsProofs -----------------------------
(***************************************************************************)
(* The settings file, proved for any configurations and any number of      *)
(* changes, refusals, launches and damages: a crash is counted, a drained  *)
(* exit has saved everything, a damaged file is not written over, and      *)
(* savedCfg_ is the file but for the one case that split names.            *)
(***************************************************************************)
EXTENDS Settings, TLAPS

(* The writer: behind a write that is out waits the newest request; it is  *)
(* the newest itself when nothing waits; one that has landed is the file.  *)
WriterKnows ==
    /\ queued # None => flight # None /\ queued = requested
    /\ flight # None /\ queued = None => flight.text = requested
    /\ flight # None /\ flight.answer = "ok" => file = flight.text /\ wrote
    /\ phase \in {"off", "loaded", "left"} => flight = None
    /\ abandoned # None => phase = "left" /\ ~drained
    /\ forbidden => flight = None /\ ~lastOk

(* Nothing is on its way to a damaged file.                                *)
DamagedKnows ==
    file = Damaged => flight = None /\ abandoned = None /\ (phase = "off" \/ forbidden)

(* Until its plugins are down a run writes nothing that is marked clean.   *)
Running == {"loaded", "up", "stopping"}
Unclean == file # Damaged /\ ~file.clean
MarkerKnows ==
    /\ phase \in Running =>
        /\ ~requested.clean /\ (flight # None => ~flight.text.clean)
        /\ wrote => Unclean
    /\ phase # "off" => ~died
    /\ phase = "off" /\ died /\ wrote => Unclean

(* The exit asks for the settings as they are, marked, and for nothing     *)
(* after it.                                                               *)
ExitKnows ==
    /\ phase = "stopping" => requested.cfg = cur
    /\ phase = "draining" =>
        /\ requested = Text(cur, TRUE)
        /\ flight = None /\ lastOk => file = requested
    /\ phase \in Running \cup {"draining"} => ~drained
    /\ phase \in {"left", "off"} /\ drained /\ lastOk => file = Text(cur, TRUE)

(* While the window is up, what is booked as saved is what is in the file, *)
(* also under a write that is out or refused; but not behind a write that  *)
(* has landed, nor once one behind it has failed.                          *)
BooksKnow ==
    /\ phase = "loaded" => ~wrote
    /\ phase = "up" /\ wrote /\ ~split
       /\ (flight = None \/ (flight.answer # "ok" /\ ~flight.behind))
         => file.cfg = savedCfg

IInv == TypeOK /\ WriterKnows /\ DamagedKnows /\ MarkerKnows /\ ExitKnows /\ BooksKnow

USE SettingsAssumption

(* The records.                                                            *)
LEMMA TextFields ==
    ASSUME NEW cfg \in Configs, NEW clean \in BOOLEAN
    PROVE  /\ Text(cfg, clean) \in Texts /\ Text(cfg, clean) # None /\ Text(cfg, clean) # Damaged
           /\ Text(cfg, clean).cfg = cfg /\ Text(cfg, clean).clean = clean
BY DEF Text, Texts

LEMMA TextMade ==
    ASSUME NEW t \in Texts
    PROVE  /\ t.cfg \in Configs /\ t.clean \in BOOLEAN /\ t # None /\ t # Damaged
           /\ t = Text(t.cfg, t.clean)
BY DEF Text, Texts

LEMMA WriteFields ==
    ASSUME NEW w \in Writes
    PROVE  /\ w.text \in Texts /\ w.answer \in {"out", "ok", "failed"} /\ w.behind \in BOOLEAN
           /\ w # None
BY DEF Writes

LEMMA Begins ==
    ASSUME NEW text \in Texts, NEW behind \in BOOLEAN
    PROVE  /\ Begin(text, behind) \in Writes /\ Begin(text, behind) # None
           /\ Begin(text, behind).text = text /\ Begin(text, behind).answer = "out"
           /\ Begin(text, behind).behind = behind
BY DEF Begin, Writes

LEMMA Answers ==
    ASSUME NEW w \in Writes, NEW answer \in {"ok", "failed"}
    PROVE  /\ [w EXCEPT !.answer = answer] \in Writes /\ [w EXCEPT !.answer = answer] # None
           /\ [w EXCEPT !.answer = answer].text = w.text
           /\ [w EXCEPT !.answer = answer].answer = answer
           /\ [w EXCEPT !.answer = answer].behind = w.behind
BY DEF Writes

LEMMA InitIInv == Init => IInv
BY TextFields DEF Init, IInv, TypeOK, WriterKnows, DamagedKnows, MarkerKnows, Unclean, Running,
    ExitKnows, BooksKnow

(* A request: what is newest now, and what becomes of what was.            *)
LEMMA Requests ==
    ASSUME TypeOK, WriterKnows, NEW text \in Texts, RequestConfigSave(text)
    PROVE  /\ requested' = text /\ lastOk' = lastOk
           /\ flight' \in Writes \cup {None} /\ queued' \in Texts \cup {None}
           /\ queued' # None => flight' # None /\ queued' = text
           /\ flight' # None /\ queued' = None => flight'.text = text
           /\ flight # None => flight' = flight
           /\ flight = None /\ flight' # None =>
                flight'.text = text /\ flight'.answer = "out" /\ flight'.behind = FALSE
           /\ forbidden => flight' = None
           /\ ~forbidden => flight' # None
<1>1. CASE forbidden
  BY <1>1 DEF TypeOK, WriterKnows, RequestConfigSave, RequestAsync
<1>2. CASE ~forbidden /\ flight = None
  BY <1>2, Begins DEF TypeOK, WriterKnows, RequestConfigSave, RequestAsync
<1>3. CASE ~forbidden /\ flight # None
  BY <1>3, TextMade DEF TypeOK, WriterKnows, RequestConfigSave, RequestAsync
<1> QED BY <1>1, <1>2, <1>3 DEF TypeOK

(* A collection: the answer is kept, and what waited goes out.             *)
LEMMA Collects ==
    ASSUME TypeOK, WriterKnows, Answered, Collect
    PROVE  /\ requested' = requested /\ queued' = None /\ ~forbidden
           /\ lastOk' = (flight.answer = "ok")
           /\ flight' \in Writes \cup {None}
           /\ flight # None /\ flight \in Writes
           /\ queued = None => flight' = None /\ flight.text = requested
           /\ queued # None =>
                /\ flight' # None /\ flight'.text = requested /\ flight'.answer = "out"
                /\ flight'.behind = (flight.answer = "ok")
BY Begins, WriteFields DEF TypeOK, WriterKnows, Answered, Collect, Ok

(* What a step changes of the writer, as far as types go.                  *)
WriterTypes ==
    /\ requested \in Texts /\ flight \in Writes \cup {None} /\ queued \in Texts \cup {None}
    /\ lastOk \in BOOLEAN

LEMMA RequestTypes ==
    ASSUME TypeOK, WriterKnows, NEW cfg \in Configs, NEW clean \in BOOLEAN,
           RequestConfigSave(Text(cfg, clean))
    PROVE  WriterTypes'
<1>1. Text(cfg, clean) \in Texts BY TextFields
<1>2. requested' = Text(cfg, clean) /\ lastOk' = lastOk /\ flight' \in Writes \cup {None}
      /\ queued' \in Texts \cup {None}
  BY <1>1, Requests
<1> QED BY <1>1, <1>2 DEF WriterTypes, TypeOK

LEMMA CollectTypes == ASSUME TypeOK, WriterKnows, Answered, Collect PROVE WriterTypes'
BY Collects DEF WriterTypes, TypeOK

LEMMA TypesStep == IInv /\ [Next]_vars => TypeOK'
<1> SUFFICES ASSUME TypeOK, WriterKnows, [Next]_vars PROVE TypeOK'
  BY DEF IInv
<1>0. /\ cur \in Configs /\ savedCfg \in Configs /\ requested.cfg \in Configs
      /\ file # Damaged => file.cfg \in Configs
  BY TextMade DEF TypeOK
<1> USE DEF settings, writer, history, bounds
<1>1. ASSUME NEW kept \in BOOLEAN, Launch(kept) PROVE TypeOK'
  BY <1>1, <1>0, TextFields DEF Launch, TypeOK
<1>2. CASE OpeningSave
  <2>1. WriterTypes' BY <1>2, <1>0, RequestTypes DEF OpeningSave
  <2> QED BY <1>2, <2>1 DEF OpeningSave, WriterTypes, TypeOK
<1>3. ASSUME NEW cfg \in Configs, Change(cfg) PROVE TypeOK' BY <1>3 DEF Change, TypeOK
<1>4. ASSUME NEW cfg \in Configs, ChangeSaved(cfg) PROVE TypeOK'
  <2>1. WriterTypes' BY <1>4, RequestTypes DEF ChangeSaved
  <2> QED BY <1>4, <2>1 DEF ChangeSaved, WriterTypes, TypeOK
<1>5. CASE PollConfigWriter
  <2>1. WriterTypes' BY <1>5, CollectTypes DEF PollConfigWriter
  <2>2. flight.behind \in BOOLEAN
    BY <1>5, WriteFields DEF PollConfigWriter, Answered, TypeOK
  <2>3. savedCfg' \in Configs BY <1>5, <1>0 DEF PollConfigWriter
  <2>4. split' \in BOOLEAN BY <1>5, <2>2 DEF PollConfigWriter, TypeOK
  <2> QED BY <1>5, <2>1, <2>3, <2>4 DEF PollConfigWriter, WriterTypes, TypeOK
<1>6. CASE SaveClean \/ SaveWatch BY <1>6 DEF SaveClean, SaveWatch, TypeOK
<1>7. CASE SaveDue
  <2>1. WriterTypes' BY <1>7, <1>0, RequestTypes DEF SaveDue
  <2> QED BY <1>7, <2>1 DEF SaveDue, WriterTypes, TypeOK
<1>8. CASE FramesEnd
  <2>1. WriterTypes' BY <1>8, <1>0, RequestTypes DEF FramesEnd
  <2> QED BY <1>8, <2>1 DEF FramesEnd, WriterTypes, TypeOK
<1>9. CASE WriteMarker
  <2>1. WriterTypes' BY <1>9, <1>0, RequestTypes DEF WriteMarker
  <2> QED BY <1>9, <2>1 DEF WriteMarker, WriterTypes, TypeOK
<1>10. CASE Drain
  <2>1. WriterTypes' BY <1>10, CollectTypes DEF Drain
  <2> QED BY <1>10, <2>1 DEF Drain, WriterTypes, TypeOK
<1>11. CASE Drained BY <1>11, <1>0 DEF Drained, TypeOK
<1>12. CASE Abandon
  <2>1. flight.text \in Texts BY <1>12, WriteFields DEF Abandon, TypeOK
  <2> QED BY <1>12, <2>1 DEF Abandon, TypeOK
<1>13. CASE Leave \/ Crash
  <2>1. CASE Leave BY <2>1 DEF Leave, End, TypeOK
  <2>2. CASE Crash
    <3>1. CASE phase \in Running BY <2>2, <3>1 DEF Crash, End, TypeOK, Running
    <3>2. CASE phase \notin Running BY <2>2, <3>2 DEF Crash, End, TypeOK, Running
    <3> QED BY <3>1, <3>2
  <2> QED BY <1>13, <2>1, <2>2
<1>14. CASE Land
  <2>1. flight \in Writes BY <1>14 DEF Land, TypeOK
  <2>2. flight' \in Writes /\ file' \in Texts BY <1>14, <2>1, WriteFields, Answers DEF Land
  <2> QED BY <1>14, <2>2 DEF Land, TypeOK
<1>15. CASE Refuse
  <2>1. flight \in Writes BY <1>15 DEF Refuse, TypeOK
  <2>2. flight' \in Writes BY <1>15, <2>1, Answers DEF Refuse
  <2> QED BY <1>15, <2>2 DEF Refuse, TypeOK
<1>16. CASE LandAbandoned BY <1>16 DEF LandAbandoned, TypeOK
<1>17. CASE Damage BY <1>17 DEF Damage, TypeOK
<1>18. CASE UNCHANGED vars BY <1>18 DEF vars, TypeOK
<1> QED
  BY <1>1, <1>2, <1>3, <1>4, <1>5, <1>6, <1>7, <1>8, <1>9, <1>10, <1>11, <1>12, <1>13, <1>14,
     <1>15, <1>16, <1>17, <1>18 DEF Next, Disk, MaybeSaveConfig, Drainage

(* The writer, over any request and any collection.                        *)
LEMMA RequestWriter ==
    ASSUME TypeOK, WriterKnows, NEW cfg \in Configs, NEW clean \in BOOLEAN,
           RequestConfigSave(Text(cfg, clean)),
           UNCHANGED <<file, forbidden, abandoned, wrote, drained>>,
           phase \notin {"off", "left"}, phase' \notin {"off", "loaded", "left"}
    PROVE  WriterKnows'
<1>1. Text(cfg, clean) \in Texts BY TextFields
<1> QED BY <1>1, Requests DEF WriterKnows

LEMMA CollectWriter ==
    ASSUME TypeOK, WriterKnows, Answered, Collect,
           UNCHANGED <<file, forbidden, abandoned, wrote, drained, phase>>
    PROVE  WriterKnows'
BY Collects DEF WriterKnows

LEMMA WriterStep == IInv /\ [Next]_vars => WriterKnows'
<1> SUFFICES ASSUME TypeOK, WriterKnows, DamagedKnows, MarkerKnows, ExitKnows, [Next]_vars
             PROVE WriterKnows'
  BY DEF IInv
<1>0. cur \in Configs /\ requested.cfg \in Configs
  BY TextMade DEF TypeOK
<1> USE DEF settings, writer, history, bounds
<1>1. ASSUME NEW kept \in BOOLEAN, Launch(kept) PROVE WriterKnows'
  BY <1>1 DEF Launch, WriterKnows
<1>2. CASE OpeningSave BY <1>2, <1>0, RequestWriter DEF OpeningSave
<1>3. ASSUME NEW cfg \in Configs, Change(cfg) PROVE WriterKnows' BY <1>3 DEF Change, WriterKnows
<1>4. ASSUME NEW cfg \in Configs, ChangeSaved(cfg) PROVE WriterKnows'
  BY <1>4, RequestWriter DEF ChangeSaved
<1>5. CASE PollConfigWriter BY <1>5, CollectWriter DEF PollConfigWriter
<1>6. CASE SaveClean \/ SaveWatch BY <1>6 DEF SaveClean, SaveWatch, WriterKnows
<1>7. CASE SaveDue BY <1>7, <1>0, RequestWriter DEF SaveDue
<1>8. CASE FramesEnd BY <1>8, <1>0, RequestWriter DEF FramesEnd
<1>9. CASE WriteMarker BY <1>9, <1>0, RequestWriter DEF WriteMarker
<1>10. CASE Drain BY <1>10, CollectWriter DEF Drain
<1>11. CASE Drained BY <1>11 DEF Drained, WriterKnows, ExitKnows
<1>12. CASE Abandon BY <1>12 DEF Abandon, WriterKnows, ExitKnows, Running
<1>13. CASE Leave \/ Crash BY <1>13 DEF Leave, Crash, End, WriterKnows
<1>14. CASE Land
  <2>1. flight \in Writes BY <1>14 DEF Land, TypeOK
  <2>2. flight' # None /\ flight'.text = flight.text BY <1>14, <2>1, Answers DEF Land
  <2> QED BY <1>14, <2>2 DEF Land, WriterKnows
<1>15. CASE Refuse
  <2>1. flight \in Writes BY <1>15 DEF Refuse, TypeOK
  <2>2. flight' # None /\ flight'.text = flight.text /\ flight'.answer = "failed"
    BY <1>15, <2>1, Answers DEF Refuse
  <2> QED BY <1>15, <2>2 DEF Refuse, WriterKnows
<1>16. CASE LandAbandoned BY <1>16 DEF LandAbandoned, WriterKnows
<1>17. CASE Damage BY <1>17 DEF Damage, WriterKnows
<1>18. CASE UNCHANGED vars BY <1>18 DEF vars, WriterKnows
<1> QED
  BY <1>1, <1>2, <1>3, <1>4, <1>5, <1>6, <1>7, <1>8, <1>9, <1>10, <1>11, <1>12, <1>13, <1>14,
     <1>15, <1>16, <1>17, <1>18 DEF Next, Disk, MaybeSaveConfig, Drainage

LEMMA DamagedStep == IInv /\ [Next]_vars => DamagedKnows'
<1> SUFFICES ASSUME TypeOK, WriterKnows, DamagedKnows, [Next]_vars PROVE DamagedKnows'
  BY DEF IInv
<1>0. cur \in Configs /\ requested.cfg \in Configs
  BY TextMade DEF TypeOK
<1>r. ASSUME NEW cfg \in Configs, NEW clean \in BOOLEAN, RequestConfigSave(Text(cfg, clean)),
             UNCHANGED <<file, forbidden, abandoned>>, phase # "off"
      PROVE  DamagedKnows'
  <2>1. Text(cfg, clean) \in Texts BY TextFields
  <2> QED BY <2>1, <1>r, Requests DEF DamagedKnows
<1> USE DEF settings, writer, history, bounds
<1>1. ASSUME NEW kept \in BOOLEAN, Launch(kept) PROVE DamagedKnows'
  BY <1>1, TextFields DEF Launch, DamagedKnows, WriterKnows
<1>2. CASE OpeningSave BY <1>2, <1>0, <1>r DEF OpeningSave
<1>3. ASSUME NEW cfg \in Configs, Change(cfg) PROVE DamagedKnows' BY <1>3 DEF Change, DamagedKnows
<1>4. ASSUME NEW cfg \in Configs, ChangeSaved(cfg) PROVE DamagedKnows'
  BY <1>4, <1>r DEF ChangeSaved
<1>5. CASE PollConfigWriter BY <1>5 DEF PollConfigWriter, Answered, DamagedKnows
<1>6. CASE SaveClean \/ SaveWatch BY <1>6 DEF SaveClean, SaveWatch, DamagedKnows
<1>7. CASE SaveDue BY <1>7, <1>0, <1>r DEF SaveDue
<1>8. CASE FramesEnd BY <1>8, <1>0, <1>r DEF FramesEnd
<1>9. CASE WriteMarker BY <1>9, <1>0, <1>r DEF WriteMarker
<1>10. CASE Drain BY <1>10 DEF Drain, Answered, DamagedKnows
<1>11. CASE Drained BY <1>11 DEF Drained, DamagedKnows
<1>12. CASE Abandon BY <1>12 DEF Abandon, DamagedKnows
<1>13. CASE Leave \/ Crash BY <1>13 DEF Leave, Crash, End, DamagedKnows
<1>14. CASE Land
  <2>1. flight.text # Damaged BY <1>14, WriteFields, TextMade DEF Land, TypeOK
  <2> QED BY <1>14, <2>1 DEF Land, DamagedKnows
<1>15. CASE Refuse BY <1>15 DEF Refuse, DamagedKnows
<1>16. CASE LandAbandoned
  <2>1. abandoned # Damaged BY <1>16, TextMade DEF LandAbandoned, TypeOK
  <2> QED BY <1>16, <2>1 DEF LandAbandoned, DamagedKnows
<1>17. CASE Damage BY <1>17 DEF Damage, DamagedKnows, WriterKnows
<1>18. CASE UNCHANGED vars BY <1>18 DEF vars, DamagedKnows
<1> QED
  BY <1>1, <1>2, <1>3, <1>4, <1>5, <1>6, <1>7, <1>8, <1>9, <1>10, <1>11, <1>12, <1>13, <1>14,
     <1>15, <1>16, <1>17, <1>18 DEF Next, Disk, MaybeSaveConfig, Drainage

LEMMA MarkerStep == IInv /\ [Next]_vars => MarkerKnows'
<1> SUFFICES ASSUME TypeOK, WriterKnows, DamagedKnows, MarkerKnows, [Next]_vars PROVE MarkerKnows'
  BY DEF IInv
<1>0. cur \in Configs /\ requested.cfg \in Configs
  BY TextMade DEF TypeOK
<1>r. ASSUME NEW cfg \in Configs, RequestConfigSave(Text(cfg, FALSE)), phase \in Running,
             phase' \in Running, UNCHANGED <<file, died, wrote>>
      PROVE  MarkerKnows'
  <2>1. Text(cfg, FALSE) \in Texts /\ Text(cfg, FALSE).clean = FALSE BY TextFields
  <2> QED BY <2>1, <1>r, Requests DEF MarkerKnows, Running, Unclean
<1>c. ASSUME Answered, Collect, UNCHANGED <<file, died, wrote, phase>> PROVE MarkerKnows'
  BY <1>c, Collects DEF MarkerKnows, Running, Unclean
<1> USE DEF settings, writer, history, bounds
<1>1. ASSUME NEW kept \in BOOLEAN, Launch(kept) PROVE MarkerKnows'
  BY <1>1, TextFields DEF Launch, MarkerKnows, WriterKnows, Running
<1>2. CASE OpeningSave BY <1>2, <1>0, <1>r DEF OpeningSave, Running
<1>3. ASSUME NEW cfg \in Configs, Change(cfg) PROVE MarkerKnows'
  BY <1>3 DEF Change, MarkerKnows, Running, Unclean
<1>4. ASSUME NEW cfg \in Configs, ChangeSaved(cfg) PROVE MarkerKnows'
  BY <1>4, <1>r DEF ChangeSaved, Running
<1>5. CASE PollConfigWriter BY <1>5, <1>c DEF PollConfigWriter
<1>6. CASE SaveClean \/ SaveWatch
  BY <1>6 DEF SaveClean, SaveWatch, MarkerKnows, Running, Unclean
<1>7. CASE SaveDue BY <1>7, <1>0, <1>r DEF SaveDue, Running
<1>8. CASE FramesEnd BY <1>8, <1>0, <1>r DEF FramesEnd, Running
<1>9. CASE WriteMarker BY <1>9 DEF WriteMarker, MarkerKnows, Running
<1>10. CASE Drain BY <1>10, <1>c DEF Drain
<1>11. CASE Drained BY <1>11 DEF Drained, MarkerKnows, Running
<1>12. CASE Abandon BY <1>12 DEF Abandon, MarkerKnows, Running
<1>13. CASE Leave \/ Crash
  <2>1. phase # "off" /\ phase' = "off" /\ UNCHANGED <<file, wrote>>
    BY <1>13 DEF Leave, Crash, End
  <2>2. died' => phase \in Running BY <1>13 DEF Leave, Crash, MarkerKnows, Running
  <2> QED BY <2>1, <2>2 DEF MarkerKnows, Running, Unclean
<1>14. CASE Land
  <2>1. flight \in Writes BY <1>14 DEF Land, TypeOK
  <2>2. flight.text # Damaged /\ flight'.text = flight.text
    BY <1>14, <2>1, WriteFields, TextMade, Answers DEF Land
  <2> QED BY <1>14, <2>2 DEF Land, MarkerKnows, WriterKnows, Running, Unclean
<1>15. CASE Refuse
  <2>1. flight \in Writes BY <1>15 DEF Refuse, TypeOK
  <2>2. flight'.text = flight.text BY <1>15, <2>1, Answers DEF Refuse
  <2> QED BY <1>15, <2>2 DEF Refuse, MarkerKnows, Running, Unclean
<1>16. CASE LandAbandoned BY <1>16 DEF LandAbandoned, MarkerKnows, WriterKnows, Running
<1>17. CASE Damage BY <1>17 DEF Damage, MarkerKnows, Running
<1>18. CASE UNCHANGED vars BY <1>18 DEF vars, MarkerKnows, Running, Unclean
<1> QED
  BY <1>1, <1>2, <1>3, <1>4, <1>5, <1>6, <1>7, <1>8, <1>9, <1>10, <1>11, <1>12, <1>13, <1>14,
     <1>15, <1>16, <1>17, <1>18 DEF Next, Disk, MaybeSaveConfig, Drainage

LEMMA ExitStep == IInv /\ [Next]_vars => ExitKnows'
<1> SUFFICES ASSUME TypeOK, WriterKnows, ExitKnows, [Next]_vars PROVE ExitKnows'
  BY DEF IInv
<1>0. cur \in Configs /\ requested.cfg \in Configs
  BY TextMade DEF TypeOK
<1> USE DEF settings, writer, history, bounds
<1>1. ASSUME NEW kept \in BOOLEAN, Launch(kept) PROVE ExitKnows'
  BY <1>1 DEF Launch, ExitKnows, Running
<1>2. CASE OpeningSave BY <1>2 DEF OpeningSave, ExitKnows, Running
<1>3. ASSUME NEW cfg \in Configs, Change(cfg) PROVE ExitKnows' BY <1>3 DEF Change, ExitKnows, Running
<1>4. ASSUME NEW cfg \in Configs, ChangeSaved(cfg) PROVE ExitKnows'
  BY <1>4 DEF ChangeSaved, ExitKnows, Running
<1>5. CASE PollConfigWriter BY <1>5 DEF PollConfigWriter, ExitKnows, Running
<1>6. CASE SaveClean \/ SaveWatch
  <2>1. phase = "up" /\ UNCHANGED <<phase, drained>> BY <1>6 DEF SaveClean, SaveWatch
  <2> QED BY <2>1 DEF ExitKnows, Running
<1>7. CASE SaveDue BY <1>7 DEF SaveDue, ExitKnows, Running
<1>8. CASE FramesEnd
  <2>1. requested'.cfg = cur BY <1>8, <1>0, TextFields DEF FramesEnd, RequestConfigSave
  <2> QED BY <1>8, <2>1 DEF FramesEnd, ExitKnows, Running
<1>9. CASE WriteMarker
  <2>1. Text(requested.cfg, TRUE) \in Texts BY <1>0, TextFields
  <2>2. requested' = Text(cur, TRUE) BY <1>9 DEF WriteMarker, RequestConfigSave, ExitKnows
  <2>3. flight' = None => ~lastOk'
    BY <1>9, <2>1, Requests DEF WriteMarker, WriterKnows, TypeOK
  <2> QED BY <1>9, <2>2, <2>3 DEF WriteMarker, ExitKnows, Running
<1>10. CASE Drain
  <2>1. requested' = requested /\ (flight' = None /\ lastOk' => file = requested)
    BY <1>10, Collects DEF Drain, WriterKnows
  <2> QED BY <1>10, <2>1 DEF Drain, ExitKnows, Running
<1>11. CASE Drained BY <1>11 DEF Drained, ExitKnows, Running
<1>12. CASE Abandon BY <1>12 DEF Abandon, ExitKnows, Running
<1>13. CASE Leave \/ Crash
  <2>1. phase # "off" /\ phase' = "off" /\ UNCHANGED <<file, drained, lastOk, cur>>
    BY <1>13 DEF Leave, Crash, End
  <2>2. phase \in Running \cup {"draining", "left"} BY <2>1 DEF TypeOK, Running
  <2> QED BY <2>1, <2>2 DEF ExitKnows, Running
<1>14. CASE Land
  <2>1. flight' # None BY <1>14, Answers DEF Land, TypeOK
  <2> QED BY <1>14, <2>1 DEF Land, ExitKnows, WriterKnows, Running
<1>15. CASE Refuse
  <2>1. flight' # None BY <1>15, Answers DEF Refuse, TypeOK
  <2> QED BY <1>15, <2>1 DEF Refuse, ExitKnows, WriterKnows, Running
<1>16. CASE LandAbandoned BY <1>16 DEF LandAbandoned, ExitKnows, WriterKnows, Running
<1>17. CASE Damage BY <1>17 DEF Damage, ExitKnows, Running
<1>18. CASE UNCHANGED vars BY <1>18 DEF vars, ExitKnows, Running
<1> QED
  BY <1>1, <1>2, <1>3, <1>4, <1>5, <1>6, <1>7, <1>8, <1>9, <1>10, <1>11, <1>12, <1>13, <1>14,
     <1>15, <1>16, <1>17, <1>18 DEF Next, Disk, MaybeSaveConfig, Drainage

LEMMA BooksStep == IInv /\ [Next]_vars => BooksKnow'
<1> SUFFICES ASSUME TypeOK, WriterKnows, BooksKnow, [Next]_vars PROVE BooksKnow'
  BY DEF IInv
<1>0. cur \in Configs /\ requested.cfg \in Configs
  BY TextMade DEF TypeOK
<1>r. ASSUME NEW cfg \in Configs, NEW clean \in BOOLEAN, RequestConfigSave(Text(cfg, clean)),
             phase = "up", UNCHANGED <<phase, file, wrote, split, savedCfg>>
      PROVE  BooksKnow'
  <2>1. Text(cfg, clean) \in Texts BY TextFields
  <2>2. CASE flight = None
    BY <2>1, <2>2, <1>r, Requests DEF BooksKnow
  <2>3. CASE flight # None
    <3>1. flight' = flight BY <2>1, <2>3, <1>r, Requests
    <3> QED BY <3>1, <2>3, <1>r DEF BooksKnow
  <2> QED BY <2>2, <2>3
<1> USE DEF settings, writer, history, bounds
<1>1. ASSUME NEW kept \in BOOLEAN, Launch(kept) PROVE BooksKnow' BY <1>1 DEF Launch, BooksKnow
<1>2. CASE OpeningSave BY <1>2 DEF OpeningSave, BooksKnow
<1>3. ASSUME NEW cfg \in Configs, Change(cfg) PROVE BooksKnow' BY <1>3 DEF Change, BooksKnow
<1>4. ASSUME NEW cfg \in Configs, ChangeSaved(cfg) PROVE BooksKnow'
  BY <1>4, <1>r DEF ChangeSaved
<1>5. CASE PollConfigWriter
  <2>1. Answered /\ Collect /\ UNCHANGED <<phase, file, wrote>> /\ phase = "up"
    BY <1>5 DEF PollConfigWriter
  <2>2. CASE Ok /\ queued = None
    <3>1. savedCfg' = requested.cfg BY <1>5, <2>2 DEF PollConfigWriter
    <3>2. file = requested BY <2>1, <2>2, Collects DEF WriterKnows, Ok
    <3> QED BY <2>1, <3>1, <3>2 DEF BooksKnow
  <2>3. CASE Ok /\ queued # None
    <3>1. flight' # None /\ flight'.behind BY <2>1, <2>3, Collects DEF Ok
    <3> QED BY <2>1, <3>1 DEF BooksKnow
  <2>4. CASE ~Ok
    <3>1. savedCfg' = savedCfg /\ split' = (split \/ flight.behind)
      BY <1>5, <2>4 DEF PollConfigWriter
    <3>2. flight # None /\ flight.answer # "ok" BY <2>1, <2>4 DEF Answered, Ok
    <3> QED BY <2>1, <3>1, <3>2 DEF BooksKnow
  <2> QED BY <2>2, <2>3, <2>4
<1>6. CASE SaveClean BY <1>6 DEF SaveClean, BooksKnow
<1>7. CASE SaveWatch BY <1>7 DEF SaveWatch, BooksKnow
<1>8. CASE SaveDue BY <1>8, <1>0, <1>r DEF SaveDue
<1>9. CASE FramesEnd \/ WriteMarker \/ Drained \/ Abandon \/ Leave \/ Crash
  BY <1>9 DEF FramesEnd, WriteMarker, Drained, Abandon, Leave, Crash, End, BooksKnow
<1>10. CASE Drain BY <1>10 DEF Drain, BooksKnow
<1>11. CASE Land
  <2>1. flight' # None /\ flight'.answer = "ok" BY <1>11, Answers DEF Land, TypeOK
  <2>2. phase # "loaded" /\ phase' = phase BY <1>11 DEF Land, WriterKnows
  <2> QED BY <2>1, <2>2 DEF BooksKnow
<1>12. CASE Refuse
  <2>1. flight' # None /\ flight # None /\ flight.answer # "ok" /\ flight'.behind = flight.behind
    BY <1>12, Answers DEF Refuse, TypeOK
  <2> QED BY <1>12, <2>1 DEF Refuse, BooksKnow
<1>13. CASE LandAbandoned BY <1>13 DEF LandAbandoned, BooksKnow, WriterKnows
<1>14. CASE Damage BY <1>14 DEF Damage, BooksKnow
<1>15. CASE UNCHANGED vars BY <1>15 DEF vars, BooksKnow
<1> QED
  BY <1>1, <1>2, <1>3, <1>4, <1>5, <1>6, <1>7, <1>8, <1>9, <1>10, <1>11, <1>12, <1>13, <1>14,
     <1>15 DEF Next, Disk, MaybeSaveConfig, Drainage

(* The inductive invariant of the settings file.                           *)
THEOREM SettingsInvariant == Spec => []IInv
<1>1. IInv /\ [Next]_vars => IInv'
  BY TypesStep, WriterStep, DamagedStep, MarkerStep, ExitStep, BooksStep DEF IInv
<1> QED BY <1>1, InitIInv, PTL DEF Spec

(* A run that dies before its plugins are down is counted by the next      *)
(* launch, and a drained one is not.                                       *)
THEOREM SettingsCountCrashes == Spec => CrashIsCounted
<1>1. IInv /\ [Next]_vars =>
        [phase = "off" /\ phase' = "loaded" =>
            /\ died /\ wrote => counted'
            /\ drained /\ lastOk => ~counted']_vars
  <2> SUFFICES ASSUME IInv, [Next]_vars, phase = "off", phase' = "loaded"
               PROVE  (died /\ wrote => counted') /\ (drained /\ lastOk => ~counted')
    OBVIOUS
  <2>1. counted' = (file # Damaged /\ ~file.clean)
    BY DEF Next, Launch, OpeningSave, Change, ChangeSaved, PollConfigWriter, MaybeSaveConfig,
        SaveClean, SaveWatch, SaveDue, FramesEnd, WriteMarker, Drainage, Drain, Drained, Abandon,
        Leave, Crash, End, Disk, Land, Refuse, LandAbandoned, Damage, vars
  <2>2. drained /\ lastOk => file = Text(cur, TRUE) /\ file.clean = TRUE
    BY TextFields DEF IInv, ExitKnows, TypeOK
  <2> QED BY <2>1, <2>2 DEF IInv, MarkerKnows, Unclean
<1> QED BY <1>1, SettingsInvariant, PTL DEF Spec, CrashIsCounted

(* When the exit's drain says that the last write landed, the file is the  *)
(* settings as they were, marked clean.                                    *)
THEOREM SettingsExitSaves == Spec => []ExitSavesAll
<1>1. IInv => ExitSavesAll BY DEF IInv, ExitKnows, ExitSavesAll
<1> QED BY <1>1, SettingsInvariant, PTL

(* A damaged file is replaced only by the launch that kept it aside.       *)
THEOREM SettingsKeepDamaged == Spec => DamagedIsKept
<1>1. IInv /\ [Next]_vars => [file = Damaged /\ file' # Damaged => aside']_vars
  <2> SUFFICES ASSUME IInv, [Next]_vars, file = Damaged, file' # Damaged PROVE aside'
    OBVIOUS
  <2>1. flight = None /\ abandoned = None BY DEF IInv, DamagedKnows
  <2>2. PICK kept \in BOOLEAN : Launch(kept)
    BY <2>1 DEF Next, OpeningSave, Change, ChangeSaved, PollConfigWriter, MaybeSaveConfig,
        SaveClean, SaveWatch, SaveDue, FramesEnd, WriteMarker, Drainage, Drain, Drained, Abandon,
        Leave, Crash, End, Disk, Land, Refuse, LandAbandoned, Damage, vars
  <2> QED BY <2>2 DEF Launch
<1> QED BY <1>1, SettingsInvariant, PTL DEF Spec, DamagedIsKept

(* savedCfg_ is what the file holds, but behind a split.                   *)
THEOREM SettingsBooked == Spec => []SavedUnlessSplit
<1>1. IInv => SavedUnlessSplit BY DEF IInv, BooksKnow, SavedUnlessSplit, SavedCfgIsTheFile, TypeOK
<1> QED BY <1>1, SettingsInvariant, PTL
=============================================================================
