---------------------------- MODULE VideoProofs ----------------------------
(***************************************************************************)
(* Proofs about rvd: encoder channels, OSD regions and the stream table    *)
(* under every command and every refusal, what the rings say of what is in *)
(* them, the settings after any sequence of commands, and the detections.  *)
(*                                                                         *)
(* Each part has an inductive invariant of its own; the parts share no     *)
(* variable, so a step of the suite is a step or a stutter of each.        *)
(***************************************************************************)
EXTENDS MCVideo, SequenceTheorems, FiniteSetTheorems, WellFoundedInduction, TLAPS

-----------------------------------------------------------------------------
(* A step of the suite, as a part sees it. *)
LEMMA PartSteps ==
    ASSUME [VideoNext]_video
    PROVE  /\ PNext \/ UNCHANGED pvars
           /\ TNext \/ UNCHANGED tvars
           /\ SNext \/ UNCHANGED svars
           /\ INext \/ UNCHANGED ivars
           /\ FNext \/ UNCHANGED fvars
           /\ ONext \/ UNCHANGED ovars
<1>1. CASE UNCHANGED video BY <1>1, Zenon DEF video
<1>2. CASE Only("pipeline") /\ PNext BY <1>2, Zenon DEF Only
<1>3. CASE Only("table") /\ TNext BY <1>3, Zenon DEF Only
<1>4. CASE Only("settings") /\ SNext BY <1>4, Zenon DEF Only
<1>5. CASE Only("ivs") /\ INext BY <1>5, Zenon DEF Only
<1>6. CASE Only("publish") /\ FNext BY <1>6, Zenon DEF Only
<1>7. CASE Only("osd") /\ ONext BY <1>7, Zenon DEF Only
<1>8. QED BY <1>1, <1>2, <1>3, <1>4, <1>5, <1>6, <1>7, Zenon DEF VideoNext

-----------------------------------------------------------------------------
(* The settings. *)
EncRecord == [fps : Rates, gop : Nat, qp : Bounds \cup {Unset}]
HalRecord == [fps : Rates, gop : Int, qp : Bounds \cup {Unset}]
Section == [fps : Rates, jpeg_fps : Rates, gop : Gops, qp : Bounds \cup {Unset}, knob : Knobs \cup {Unset}]
SetTyped ==
    /\ ecfg \in [{"v", "j"} -> EncRecord] /\ hal \in [{"v", "j"} -> HalRecord]
    /\ mem \in Section /\ file \in Section
    /\ running \in BOOLEAN /\ sensor \in Rates /\ active \in Rates \cup {None}
    /\ header \in Rates /\ knob \in Knobs \cup {"auto", "neutral"}
SetInv == SetTyped /\ SettingsHeld

\* One field of one stream's record changes.
LEMMA OneField ==
    ASSUME NEW F, NEW s \in {"v", "j"}, NEW R, NEW f \in [{"v", "j"} -> R], NEW r \in R,
           F = [f EXCEPT ![s] = r]
    PROVE  F \in [{"v", "j"} -> R] /\ F[s] = r /\ \A o \in {"v", "j"} : o # s => F[o] = f[o]
BY Zenon

LEMMA SettingsOf ==
    ASSUME SetInv, NEW s \in {"v", "j"}, NEW e \in EncRecord, NEW h \in HalRecord, NEW m \in Section,
           ecfg' = [ecfg EXCEPT ![s] = e], hal' = [hal EXCEPT ![s] = h], mem' = m,
           s = "v" => /\ e.qp # Unset => h.qp = e.qp
                      /\ m.fps = e.fps /\ m.gop = e.gop /\ m.qp = e.qp /\ m.jpeg_fps = mem.jpeg_fps,
           s = "j" => /\ m.fps = mem.fps /\ m.gop = mem.gop /\ m.qp = mem.qp /\ m.jpeg_fps = e.fps,
           m.knob = mem.knob, UNCHANGED <<file, knob, running>>,
           sensor' \in Rates, active' \in Rates \cup {None}, header' \in Rates
    PROVE  SetInv'
<1>1. /\ ecfg' \in [{"v", "j"} -> EncRecord] /\ ecfg'[s] = e /\ \A o \in {"v", "j"} : o # s => ecfg'[o] = ecfg[o]
      /\ hal' \in [{"v", "j"} -> HalRecord] /\ hal'[s] = h /\ \A o \in {"v", "j"} : o # s => hal'[o] = hal[o]
  BY OneField, Zenon DEF SetInv, SetTyped
<1>2. SetTyped' BY <1>1, Zenon DEF SetInv, SetTyped
<1>3. /\ ecfg["v"].qp # Unset => hal["v"].qp = ecfg["v"].qp
      /\ mem.fps = ecfg["v"].fps /\ mem.gop = ecfg["v"].gop /\ mem.qp = ecfg["v"].qp
      /\ mem.jpeg_fps = ecfg["j"].fps /\ (mem.knob # Unset => knob = mem.knob)
  BY SMT DEF SetInv, SettingsHeld
<1>4. CASE s = "v"
  <2>1. ecfg'["v"] = e /\ hal'["v"] = h /\ ecfg'["j"] = ecfg["j"] BY <1>1, <1>4, Zenon
  <2>2. QED BY <1>2, <1>3, <1>4, <2>1, Zenon DEF SetInv, SettingsHeld
<1>5. CASE s = "j"
  <2>1. ecfg'["j"] = e /\ ecfg'["v"] = ecfg["v"] /\ hal'["v"] = hal["v"] BY <1>1, <1>5, Zenon
  <2>2. QED BY <1>2, <1>3, <1>5, <2>1, Zenon DEF SetInv, SettingsHeld
<1>6. QED BY <1>4, <1>5

LEMMA SettingsNow ==
    ASSUME SetInv, NEW s \in {"v", "j"}
    PROVE  /\ ecfg[s] \in EncRecord /\ hal[s] \in HalRecord /\ mem \in Section /\ file \in Section
           /\ ecfg["v"].qp # Unset => hal["v"].qp = ecfg["v"].qp
           /\ mem.fps = ecfg["v"].fps /\ mem.gop = ecfg["v"].gop /\ mem.qp = ecfg["v"].qp
           /\ mem.jpeg_fps = ecfg["j"].fps
           /\ ecfg = [ecfg EXCEPT ![s] = ecfg[s]]
           /\ sensor \in Rates /\ active \in Rates \cup {None} /\ header \in Rates
<1>1. ecfg[s] \in EncRecord /\ hal[s] \in HalRecord /\ mem \in Section /\ file \in Section
  BY Zenon DEF SetInv, SetTyped
<1>2. ecfg = [ecfg EXCEPT ![s] = ecfg[s]] BY Zenon DEF SetInv, SetTyped
<1>3. QED BY <1>1, <1>2, SMT DEF SetInv, SettingsHeld, SetTyped

LEMMA GopSettings ==
    ASSUME SetInv, NEW s \in {"v", "j"}, NEW v \in Gops, SetGop(s, v)
    PROVE  SetInv'
<1> DEFINE e == [ecfg[s] EXCEPT !.gop = v]
           h == [hal[s] EXCEPT !.gop = v]
           m == IF s = "v" THEN [mem EXCEPT !["gop"] = v] ELSE mem
<1>1. v \in Nat /\ v \in Int BY RvdSettingsConstants
<1>3. e \in EncRecord /\ e.qp = ecfg[s].qp /\ e.fps = ecfg[s].fps /\ e.gop = v
  BY <1>1, SettingsNow, Zenon DEF EncRecord
<1>4. h \in HalRecord /\ h.qp = hal[s].qp BY <1>1, SettingsNow, Zenon DEF HalRecord
<1>5. /\ m \in Section /\ m.fps = mem.fps /\ m.jpeg_fps = mem.jpeg_fps /\ m.qp = mem.qp
      /\ m.knob = mem.knob /\ m.gop = IF s = "v" THEN v ELSE mem.gop
  BY SettingsNow, SMT DEF Section
<1>6. ecfg' = [ecfg EXCEPT ![s] = e] /\ hal' = [hal EXCEPT ![s] = h]
  BY Zenon DEF SetGop
<1>7. mem' = m BY Zenon DEF SetGop, Store, rvd_persist_key, Unset
<1>8. UNCHANGED <<active, header, running, sensor, file, knob>> BY Zenon DEF SetGop
<1> HIDE DEF e, h, m
<1>9. sensor' \in Rates /\ active' \in Rates \cup {None} /\ header' \in Rates BY <1>8, SettingsNow, Zenon
<1>10. s = "v" => /\ e.qp # Unset => h.qp = e.qp
                /\ m.fps = e.fps /\ m.gop = e.gop /\ m.qp = e.qp /\ m.jpeg_fps = mem.jpeg_fps
  BY <1>3, <1>4, <1>5, SettingsNow, Zenon
<1>11. s = "j" => /\ m.fps = mem.fps /\ m.gop = mem.gop /\ m.qp = mem.qp /\ m.jpeg_fps = e.fps
  BY <1>3, <1>4, <1>5, SettingsNow, Zenon
<1>12. m.knob = mem.knob BY <1>3, <1>4, <1>5, Zenon
<1>13. QED BY <1>3, <1>4, <1>5, <1>6, <1>7, <1>8, <1>9, <1>10, <1>11, <1>12, SettingsOf, Zenon

LEMMA FpsSettings ==
    ASSUME SetInv, NEW s \in {"v", "j"}, NEW v \in Rates, SetFps(s, v)
    PROVE  SetInv'
<1> DEFINE e == [ecfg[s] EXCEPT !.fps = v]
           h == [hal[s] EXCEPT !.fps = v]
           m == IF s = "v" THEN [mem EXCEPT !["fps"] = v] ELSE [mem EXCEPT !["jpeg_fps"] = v]
<1>1. e \in EncRecord /\ e.qp = ecfg[s].qp /\ e.gop = ecfg[s].gop /\ e.fps = v
  BY SettingsNow, Zenon DEF EncRecord
<1>2. h \in HalRecord /\ h.qp = hal[s].qp BY SettingsNow, Zenon DEF HalRecord
<1>3. /\ m \in Section /\ m.gop = mem.gop /\ m.qp = mem.qp /\ m.knob = mem.knob
      /\ m.fps = (IF s = "v" THEN v ELSE mem.fps) /\ m.jpeg_fps = (IF s = "v" THEN mem.jpeg_fps ELSE v)
  BY SettingsNow, SMT DEF Section
<1>4. ecfg' = [ecfg EXCEPT ![s] = e] /\ hal' = [hal EXCEPT ![s] = h] BY Zenon DEF SetFps
<1>5. mem' = m BY Zenon DEF SetFps, Store, rvd_persist_key, Unset
<1>6. UNCHANGED <<running, sensor, file, knob>> /\ active' \in {active, None} /\ header' = Advertised(active', ecfg')
  BY Zenon DEF SetFps
<1> HIDE DEF e, h, m
<1>7. ecfg' \in [{"v", "j"} -> EncRecord] BY <1>1, <1>4, OneField, Zenon DEF SetInv, SetTyped
<1>8. ecfg'["v"].fps \in Rates BY <1>7, Zenon DEF EncRecord
<1>9. sensor' \in Rates /\ active' \in Rates \cup {None} /\ header' \in Rates
  BY <1>6, <1>8, SettingsNow, Zenon DEF Advertised
<1>10. s = "v" => /\ e.qp # Unset => h.qp = e.qp
                /\ m.fps = e.fps /\ m.gop = e.gop /\ m.qp = e.qp /\ m.jpeg_fps = mem.jpeg_fps
  BY <1>1, <1>2, <1>3, SettingsNow, Zenon
<1>11. s = "j" => /\ m.fps = mem.fps /\ m.gop = mem.gop /\ m.qp = mem.qp /\ m.jpeg_fps = e.fps
  BY <1>1, <1>2, <1>3, SettingsNow, Zenon
<1>12. m.knob = mem.knob BY <1>1, <1>2, <1>3, Zenon
<1>13. QED BY <1>1, <1>2, <1>3, <1>4, <1>5, <1>6, <1>9, <1>10, <1>11, <1>12, SettingsOf, Zenon

LEMMA QpSettings ==
    ASSUME SetInv, NEW s \in {"v", "j"}, NEW b \in Bounds, SetQpBounds(s, b)
    PROVE  SetInv'
<1> DEFINE e == [ecfg[s] EXCEPT !.qp = b]
           h == [hal[s] EXCEPT !.qp = b]
           m == IF s = "v" THEN [mem EXCEPT !["qp"] = b] ELSE mem
<1>1. e \in EncRecord /\ e.qp = b /\ e.gop = ecfg[s].gop /\ e.fps = ecfg[s].fps
  BY SettingsNow, Zenon DEF EncRecord
<1>2. h \in HalRecord /\ h.qp = b BY SettingsNow, Zenon DEF HalRecord
<1>3. /\ m \in Section /\ m.gop = mem.gop /\ m.fps = mem.fps /\ m.knob = mem.knob
      /\ m.jpeg_fps = mem.jpeg_fps /\ m.qp = (IF s = "v" THEN b ELSE mem.qp)
  BY SettingsNow, SMT DEF Section
<1>4. ecfg' = [ecfg EXCEPT ![s] = e] /\ hal' = [hal EXCEPT ![s] = h] BY Zenon DEF SetQpBounds
<1>5. mem' = m BY Zenon DEF SetQpBounds, Store, rvd_persist_key, Unset
<1>6. UNCHANGED <<active, header, running, sensor, file, knob>> BY Zenon DEF SetQpBounds
<1> HIDE DEF e, h, m
<1>7. sensor' \in Rates /\ active' \in Rates \cup {None} /\ header' \in Rates BY <1>6, SettingsNow, Zenon
<1>8. s = "v" => /\ e.qp # Unset => h.qp = e.qp
                /\ m.fps = e.fps /\ m.gop = e.gop /\ m.qp = e.qp /\ m.jpeg_fps = mem.jpeg_fps
  BY <1>1, <1>2, <1>3, SettingsNow, Zenon
<1>9. s = "j" => /\ m.fps = mem.fps /\ m.gop = mem.gop /\ m.qp = mem.qp /\ m.jpeg_fps = e.fps
  BY <1>1, <1>2, <1>3, SettingsNow, Zenon
<1>10. m.knob = mem.knob BY <1>1, <1>2, <1>3, Zenon
<1>11. QED BY <1>1, <1>2, <1>3, <1>4, <1>5, <1>6, <1>7, <1>8, <1>9, <1>10, SettingsOf, Zenon

LEMMA RcModeSettings ==
    ASSUME SetInv, NEW s \in {"v", "j"}, SetRcMode(s)
    PROVE  SetInv'
<1> DEFINE c == [hal[s] EXCEPT !.qp = Unset]
           h == rvd_reapply_qp_bounds(s, c)
<1>1. c \in HalRecord BY SettingsNow, Zenon DEF HalRecord
<1>2. hal' = [hal EXCEPT ![s] = h] BY Zenon DEF SetRcMode
<1> HIDE DEF c
<1>3. h \in HalRecord /\ (s = "v" /\ ecfg["v"].qp # Unset => h.qp = ecfg["v"].qp)
  <2>1. CASE s = "j" \/ ecfg[s].qp = Unset BY <1>1, <2>1, Zenon DEF rvd_reapply_qp_bounds
  <2>2. CASE ~(s = "j" \/ ecfg[s].qp = Unset)
    <3>1. h = [c EXCEPT !.qp = ecfg[s].qp] BY <2>2, Zenon DEF rvd_reapply_qp_bounds
    <3>2. ecfg[s].qp \in Bounds \cup {Unset} BY SettingsNow, Zenon DEF EncRecord
    <3> HIDE DEF h
    <3>3. QED BY <1>1, <3>1, <3>2, Zenon DEF HalRecord
  <2>3. QED BY <2>1, <2>2
<1>4. UNCHANGED <<ecfg, active, header, running, sensor, mem, file, knob>> BY Zenon DEF SetRcMode
<1> HIDE DEF h
<1>5. ecfg' = [ecfg EXCEPT ![s] = ecfg[s]] /\ sensor' \in Rates /\ active' \in Rates \cup {None} /\ header' \in Rates
  BY <1>4, SettingsNow, Zenon
<1>6. QED BY <1>2, <1>3, <1>4, <1>5, SettingsNow, SettingsOf, Zenon

LEMMA SensorSettings ==
    ASSUME SetInv, NEW v \in Rates \cup {0}, SetSensorFps(v)
    PROVE  SetInv'
<1> DEFINE rate == IF v = 0 THEN BaseRate ELSE v
           cfg == ecfg["v"].fps
           eff == IF rate < cfg THEN rate ELSE cfg
           g == ScaledGop(ecfg["v"].gop, eff, cfg)
           h == [hal["v"] EXCEPT !.fps = eff, !.gop = g]
<1>1. rate \in Rates /\ cfg \in Rates /\ eff \in Rates /\ ecfg["v"].gop \in Nat
  <2>1. rate \in Rates BY RvdSettingsConstants, Zenon
  <2>2. cfg \in Rates /\ ecfg["v"].gop \in Nat BY SettingsNow, Zenon DEF EncRecord
  <2>3. QED BY <2>1, <2>2, Zenon
<1>2. g \in Int
  <2>1. eff \in Nat /\ cfg \in Nat \ {0} BY <1>1, RvdSettingsConstants
  <2> DEFINE x == ecfg["v"].gop * eff
  <2>2. x \in Nat BY <1>1, <2>1
  <2>3. g = LET y == (x + cfg \div 2) \div cfg IN IF y < 1 THEN 1 ELSE y BY DEF ScaledGop
  <2> HIDE DEF x, eff, g, cfg
  <2>4. (x + cfg \div 2) \div cfg \in Int BY <2>1, <2>2
  <2>5. QED BY <2>3, <2>4
<1>3. h \in HalRecord /\ h.qp = hal["v"].qp
  <2> HIDE DEF eff, g
  <2>1. QED BY <1>1, <1>2, SettingsNow, Zenon DEF HalRecord
<1>4. UNCHANGED <<ecfg, running, mem, file, knob>> /\ sensor' = rate
  BY Zenon DEF SetSensorFps, rvd_apply_sensor_fps
<1>5. \/ UNCHANGED <<hal, active, header>>
      \/ hal' = [hal EXCEPT !["v"] = h] /\ active' \in {rate, None} /\ header' = Advertised(active', ecfg)
  BY Zenon DEF SetSensorFps, rvd_apply_sensor_fps
<1>6. \/ UNCHANGED <<hal, active, header>>
      \/ hal' = [hal EXCEPT !["v"] = h] /\ active' \in Rates \cup {None} /\ header' \in Rates
  BY <1>1, <1>5, Zenon DEF Advertised
<1>7. sensor' \in Rates BY <1>1, <1>4, Zenon
<1> HIDE DEF rate, cfg, eff, g, h
<1>8. hal = [hal EXCEPT !["v"] = hal["v"]] BY Zenon DEF SetInv, SetTyped
<1>9. ecfg' = [ecfg EXCEPT !["v"] = ecfg["v"]] BY <1>4, SettingsNow, Zenon
<1>10. CASE UNCHANGED <<hal, active, header>>
  BY <1>4, <1>7, <1>8, <1>9, <1>10, SettingsNow, SettingsOf, Zenon
<1>11. CASE hal' = [hal EXCEPT !["v"] = h] /\ active' \in Rates \cup {None} /\ header' \in Rates
  BY <1>3, <1>4, <1>7, <1>9, <1>11, SettingsNow, SettingsOf, Zenon
<1>12. QED BY <1>6, <1>10, <1>11

LEMMA LoadedSettings ==
    ASSUME NEW c \in Section
    PROVE  /\ Loaded(c) \in [{"v", "j"} -> EncRecord]
           /\ Loaded(c)["v"].fps = c.fps /\ Loaded(c)["v"].gop = c.gop /\ Loaded(c)["v"].qp = c.qp
           /\ Loaded(c)["j"].fps = c.jpeg_fps
<1>1. c.gop \in Nat BY RvdSettingsConstants DEF Section
<1>2. c.fps \in Rates /\ c.jpeg_fps \in Rates /\ c.qp \in Bounds \cup {Unset} BY Zenon DEF Section
<1>3. 0 \in Nat OBVIOUS
<1>4. /\ Loaded(c)["v"] = [fps |-> c.fps, gop |-> c.gop, qp |-> c.qp]
      /\ Loaded(c)["j"] = [fps |-> c.jpeg_fps, gop |-> 0, qp |-> Unset]
  BY Zenon DEF Loaded
<1>5. Loaded(c)["v"] \in EncRecord BY <1>1, <1>2, <1>4, SMT DEF EncRecord
<1>6. Loaded(c)["j"] \in EncRecord BY <1>2, <1>3, <1>4, SMT DEF EncRecord
<1>7. Loaded(c) \in [{"v", "j"} -> EncRecord]
  <2>1. Loaded(c) = [s \in {"v", "j"} |-> Loaded(c)[s]] BY Zenon DEF Loaded
  <2> QED BY <2>1, <1>5, <1>6, Zenon
<1>8. QED BY <1>4, <1>7, SMT

LEMMA HalTakes == EncRecord \subseteq HalRecord
<1>1. Nat \subseteq Int OBVIOUS
<1>2. QED BY <1>1, Zenon DEF EncRecord, HalRecord

LEMMA SettingsLoaded ==
    ASSUME NEW c \in Section, mem' = c, file' = c, ecfg' = Loaded(c), hal' = ecfg',
           active' = None, header' = c.fps, running', sensor' = BaseRate,
           knob' \in Knobs \cup {"auto", "neutral"}, c.knob # Unset => knob' = c.knob
    PROVE  SetInv'
<1>1. c.fps \in Rates /\ BaseRate \in Rates BY RvdSettingsConstants, Zenon DEF Section
<1>2. ecfg' \in [{"v", "j"} -> EncRecord] BY LoadedSettings, Zenon
<1>3. hal' \in [{"v", "j"} -> HalRecord] BY <1>2, HalTakes, Zenon
<1>4. SetTyped' BY <1>1, <1>2, <1>3, Zenon DEF SetTyped
<1>5. SettingsHeld'
  <2>1. hal'["v"].qp = ecfg'["v"].qp BY Zenon
  <2>2. /\ mem'.fps = ecfg'["v"].fps /\ mem'.gop = ecfg'["v"].gop /\ mem'.qp = ecfg'["v"].qp
        /\ mem'.jpeg_fps = ecfg'["j"].fps
    BY LoadedSettings, Zenon
  <2>3. mem'.knob # Unset => knob' = mem'.knob BY Zenon
  <2> QED BY <2>1, <2>2, <2>3, Zenon DEF SettingsHeld
<1>6. QED BY <1>4, <1>5, Zenon DEF SetInv

LEMMA SetStep ==
    ASSUME SetInv, SNext \/ UNCHANGED svars
    PROVE  SetInv'
<1>1. CASE UNCHANGED svars BY <1>1, Zenon DEF svars, SetInv, SetTyped, SettingsHeld
<1>2. CASE StopStream \/ StartStream
  BY <1>2, Zenon DEF StopStream, StartStream, SetInv, SetTyped, SettingsHeld
<1>3. CASE ConfigSave BY <1>3, Zenon DEF ConfigSave, SetInv, SetTyped, SettingsHeld
<1>4. CASE RebuildStream
  <2>1. /\ hal' = [hal EXCEPT !["v"] = ecfg["v"]] /\ running' /\ header' = Advertised(active, ecfg)
        /\ UNCHANGED <<ecfg, active, sensor, mem, file, knob>>
    BY <1>4, Zenon DEF RebuildStream
  <2>2. ecfg["v"] \in HalRecord /\ ecfg["v"] \in EncRecord BY SettingsNow, HalTakes, Zenon
  <2>3. header' \in Rates BY <2>1, <2>2, SettingsNow, Zenon DEF Advertised, EncRecord
  <2>4. hal' \in [{"v", "j"} -> HalRecord] /\ hal'["v"] = ecfg["v"] BY <2>1, <2>2, Zenon DEF SetInv, SetTyped
  <2>5. QED BY <2>1, <2>3, <2>4, Zenon DEF SetInv, SetTyped, SettingsHeld
<1>5. ASSUME NEW v \in Knobs, SetKnob(v) PROVE SetInv'
  <2>1. mem' = [mem EXCEPT !.knob = v] /\ knob' = v /\ UNCHANGED <<ecfg, hal, active, header, running, sensor, file>>
    BY <1>5, Zenon DEF SetKnob
  <2>2. mem \in Section BY Zenon DEF SetInv, SetTyped
  <2>3. /\ mem' \in Section /\ mem'.fps = mem.fps /\ mem'.jpeg_fps = mem.jpeg_fps /\ mem'.gop = mem.gop
        /\ mem'.qp = mem.qp /\ mem'.knob = v
    BY <2>1, <2>2, SMT DEF Section
  <2>4. QED BY <2>1, <2>3, Zenon DEF SetInv, SetTyped, SettingsHeld
<1>6. CASE ResetKnob
  <2>1. /\ mem' = [mem EXCEPT !.knob = Unset] /\ knob' \in {"auto", "neutral"}
        /\ UNCHANGED <<ecfg, hal, active, header, running, sensor, file>>
    BY <1>6, Zenon DEF ResetKnob
  <2>2. mem \in Section BY Zenon DEF SetInv, SetTyped
  <2>3. /\ mem' \in Section /\ mem'.fps = mem.fps /\ mem'.jpeg_fps = mem.jpeg_fps /\ mem'.gop = mem.gop
        /\ mem'.qp = mem.qp /\ mem'.knob = Unset
    BY <2>1, <2>2, SMT DEF Section
  <2>4. QED BY <2>1, <2>3, Zenon DEF SetInv, SetTyped, SettingsHeld
<1>7. CASE RestartRvd
  <2>1. /\ mem' = file /\ ecfg' = Loaded(file) /\ hal' = ecfg' /\ active' = None /\ header' = file.fps
        /\ running' /\ sensor' = BaseRate /\ file' = file
        /\ knob' = IF file.knob # Unset THEN file.knob ELSE knob
    BY <1>7, Zenon DEF RestartRvd, rvd_apply_image_defaults, img_asked_for
  <2>2. file \in Section /\ knob \in Knobs \cup {"auto", "neutral"} BY Zenon DEF SetInv, SetTyped
  <2>3. knob' \in Knobs \cup {"auto", "neutral"} BY <2>1, <2>2, Zenon DEF Section
  <2>4. QED BY <2>1, <2>2, <2>3, SettingsLoaded, Zenon
<1>8. QED BY <1>1, <1>2, <1>3, <1>4, <1>5, <1>6, <1>7, GopSettings, FpsSettings, QpSettings,
             RcModeSettings, SensorSettings, Zenon DEF SNext

LEMMA SetStart == ASSUME SInit PROVE SetInv
<1> DEFINE r == CHOOSE x \in Rates : x # BaseRate
           g == CHOOSE x \in Gops : TRUE
           c == [fps |-> BaseRate, jpeg_fps |-> r, gop |-> g, qp |-> Unset, knob |-> Unset]
<1>1. \E x \in Rates : x # BaseRate BY RvdSettingsConstants
<1>2. r \in Rates /\ g \in Gops BY <1>1, RvdSettingsConstants, Zenon
<1>3. BaseRate \in Rates BY RvdSettingsConstants
<1> HIDE DEF r, g
<1>4. c \in Section /\ c.knob = Unset /\ c.fps = BaseRate /\ c.jpeg_fps = r /\ c.gop = g /\ c.qp = Unset
  BY <1>2, <1>3, Zenon DEF Section
<1>5. /\ file = c /\ mem = c /\ ecfg = Loaded(c) /\ hal = Loaded(c) /\ active = None /\ header = c.fps
      /\ running = TRUE /\ sensor = BaseRate /\ knob \in {"auto", "neutral"}
  BY Zenon DEF SInit, r, g
<1> HIDE DEF c
<1>6. Loaded(c) \in [{"v", "j"} -> HalRecord] BY <1>4, LoadedSettings, HalTakes, Zenon
<1>7. SetTyped BY <1>3, <1>4, <1>5, <1>6, LoadedSettings, Zenon DEF SetTyped
<1>8. SettingsHeld
  <2>1. hal["v"].qp = ecfg["v"].qp BY <1>5, Zenon
  <2>2. /\ mem.fps = ecfg["v"].fps /\ mem.gop = ecfg["v"].gop /\ mem.qp = ecfg["v"].qp
        /\ mem.jpeg_fps = ecfg["j"].fps
    BY <1>4, <1>5, LoadedSettings, Zenon
  <2>3. mem.knob # Unset => knob = mem.knob BY <1>4, <1>5, Zenon
  <2> QED BY <2>1, <2>2, <2>3, Zenon DEF SettingsHeld
<1>9. QED BY <1>7, <1>8 DEF SetInv

LEMMA SettingsTyped == ASSUME SetInv PROVE STypeOK
<1>1. \A c \in {mem, file} : c.fps \in Rates /\ c.jpeg_fps \in Rates /\ c.gop \in Gops
  BY Zenon DEF SetInv, SetTyped, Section
<1>2. \A s \in {"v", "j"} : ecfg[s].qp \in Bounds \cup {Unset} BY Zenon DEF SetInv, SetTyped, EncRecord
<1>3. QED BY <1>1, <1>2, Zenon DEF STypeOK, SetInv, SetTyped

-----------------------------------------------------------------------------
(* What is published. *)
LEMMA LeastNumber ==
    ASSUME NEW I \in SUBSET Nat, I # {}
    PROVE  Min(I) \in I /\ \A y \in I : Min(I) <= y
<1>1. \E x \in I : \A y \in I : ~(<<y, x>> \in OpToRel(<, Nat))
  BY NatLessThanWellFounded, WFMin, Zenon
<1>2. PICK x \in I : \A y \in I : ~(<<y, x>> \in OpToRel(<, Nat)) BY <1>1, Zenon
<1>3. ASSUME NEW y \in I PROVE x =< y
  <2>1. <<y, x>> \in Nat \X Nat OBVIOUS
  <2>2. ~(y < x) BY <1>2, <2>1 DEF OpToRel
  <2>3. QED BY <2>2
<1>4. \E z \in I : \A y \in I : z =< y BY <1>3
<1>5. QED BY <1>4, Zenon DEF Min

KindRecord == [jpeg : BOOLEAN, refmode : BOOLEAN, vui : BOOLEAN]
Tally == [made : Nat, sent : Nat, told : Nat, torn : Nat]
Counts ==
    /\ tally \in Tally /\ tally.made <= FrameMax
    /\ tally.sent + tally.told + tally.torn <= tally.made
    /\ ~kind.jpeg => tally.made = tally.sent + tally.told
RefSound(o, pages) ==
    o.ref => /\ o.at >= RefBase /\ o.at + o.len <= RefBase + RefSize
             /\ o.buf \in Nat /\ o.buf < Len(pages) /\ pages[o.buf + 1] = Page(o.at)
Whole(o, k) ==
    /\ k.jpeg => o.tail = "eoi"
    /\ k.vui /\ ~k.jpeg /\ o.key /\ o.was = "plain" => o.sps = "fixed"
PubInv ==
    /\ kind \in KindRecord /\ known \in Seq(Int) /\ Len(known) <= FBufs
    /\ Counts /\ utc \in Int /\ UtcTrue
    /\ out = <<>> \/ \E o : out = <<o>> /\ RefSound(o, known) /\ Whole(o, kind)

LEMMA PageInt == ASSUME NEW a \in Nat PROVE Page(a) \in Int
BY RvdPublishConstants DEF Page

\* The index of a buffer is where its page is, or is going to be.
LEMMA IndexOfPage ==
    ASSUME NEW f \in Frames, known \in Seq(Int), Len(known) <= FBufs, ~Full(f)
    PROVE  /\ Learn(f) \in Seq(Int) /\ Len(Learn(f)) <= FBufs /\ BufIdx(f) \in Nat
           /\ BufIdx(f) < Len(Learn(f)) /\ Learn(f)[BufIdx(f) + 1] = Page(f.at)
           /\ Len(known) <= Len(Learn(f)) /\ \A i \in 1..Len(known) : Learn(f)[i] = known[i]
<1> DEFINE p == Page(f.at)
<1>1. f.at \in Nat BY RvdPublishConstants, Zenon DEF Frames
<1>2. p \in Int BY <1>1, PageInt
<1>3. FBufs \in Nat BY RvdPublishConstants
<1> HIDE DEF p
<1>4. CASE p \in Range(known)
  <2> DEFINE I == {i \in 1..Len(known) : known[i] = p}
  <2>1. I \in SUBSET Nat /\ I # {} BY <1>4 DEF Range
  <2>2. Min(I) \in I BY <2>1, LeastNumber
  <2>3. BufIdx(f) = Min(I) - 1 BY <1>4, <2>1, Zenon DEF BufIdx, SelectInSeq, p
  <2>4. Learn(f) = known BY <1>4, Zenon DEF Learn, p
  <2>5. Min(I) \in 1..Len(known) /\ known[Min(I)] = p BY <2>2
  <2> HIDE DEF I
  <2>6. QED BY <2>3, <2>4, <2>5 DEF p
<1>5. CASE p \notin Range(known)
  <2>1. Learn(f) = Append(known, p) /\ BufIdx(f) = Len(known) BY <1>5, Zenon DEF Learn, BufIdx, p
  <2>2. ~(Len(known) >= FBufs) BY <1>5, Zenon DEF Full, p
  <2>3. QED BY <1>2, <1>3, <2>1, <2>2 DEF p
<1>6. QED BY <1>4, <1>5

LEMMA StillSound ==
    ASSUME NEW o, NEW a \in Seq(Int), NEW b \in Seq(Int), RefSound(o, a), Len(a) <= Len(b),
           \A i \in 1..Len(a) : b[i] = a[i]
    PROVE  RefSound(o, b)
<1>1. SUFFICES ASSUME o.ref PROVE o.buf < Len(b) /\ b[o.buf + 1] = a[o.buf + 1] BY Zenon DEF RefSound
<1>2. PICK n \in Nat : n = o.buf /\ n < Len(a) BY <1>1, Zenon DEF RefSound
<1>3. n + 1 \in 1..Len(a) /\ n < Len(b) BY <1>2
<1>4. b[n + 1] = a[n + 1] BY <1>3, Zenon
<1>5. QED BY <1>2, <1>3, <1>4, Zenon

LEMMA CountsStep ==
    ASSUME Counts, tally.made < FrameMax, kind \in KindRecord, kind' = kind,
           \/ tally' = [tally EXCEPT !.made = @ + 1, !.sent = @ + 1]
           \/ tally' = [tally EXCEPT !.made = @ + 1, !.told = IF kind.jpeg THEN @ ELSE @ + 1]
           \/ kind.jpeg /\ tally' = [tally EXCEPT !.made = @ + 1, !.torn = @ + 1]
    PROVE  Counts'
<1>1. FrameMax \in Nat BY RvdPublishConstants
<1>2. /\ tally.made \in Nat /\ tally.sent \in Nat /\ tally.told \in Nat /\ tally.torn \in Nat
      /\ tally.sent + tally.told + tally.torn <= tally.made
      /\ ~kind.jpeg => tally.made = tally.sent + tally.told
  BY Zenon DEF Counts, Tally
<1>3. tally.made + 1 \in Nat /\ tally.sent + 1 \in Nat /\ tally.told + 1 \in Nat /\ tally.torn + 1 \in Nat
  BY <1>2
<1>4. /\ tally' \in Tally /\ tally'.made = tally.made + 1
      /\ \/ tally'.sent = tally.sent + 1 /\ tally'.told = tally.told /\ tally'.torn = tally.torn
         \/ /\ tally'.sent = tally.sent /\ tally'.torn = tally.torn
            /\ tally'.told = tally.told + 1 \/ (kind.jpeg /\ tally'.told = tally.told)
         \/ kind.jpeg /\ tally'.sent = tally.sent /\ tally'.told = tally.told /\ tally'.torn = tally.torn + 1
  <2>1. CASE tally' = [tally EXCEPT !.made = @ + 1, !.sent = @ + 1]
    BY <1>3, <2>1, Zenon DEF Counts, Tally
  <2>2. CASE kind.jpeg /\ tally' = [tally EXCEPT !.made = @ + 1, !.torn = @ + 1]
    BY <1>3, <2>2, Zenon DEF Counts, Tally
  <2>3. CASE kind.jpeg /\ tally' = [tally EXCEPT !.made = @ + 1, !.told = @]
    BY <1>3, <2>3, Zenon DEF Counts, Tally
  <2>4. CASE tally' = [tally EXCEPT !.made = @ + 1, !.told = @ + 1]
    BY <1>3, <2>4, Zenon DEF Counts, Tally
  <2>5. QED BY <2>1, <2>2, <2>3, <2>4, Zenon
<1>5. tally'.made <= FrameMax /\ tally'.sent + tally'.told + tally'.torn <= tally'.made
  BY <1>1, <1>2, <1>4, SMT
<1>6. ASSUME ~kind.jpeg PROVE tally'.made = tally'.sent + tally'.told
  <2>1. tally.made = tally.sent + tally.told BY <1>2, <1>6, Zenon
  <2>2. /\ tally'.made = tally.made + 1
        /\ \/ tally'.sent = tally.sent + 1 /\ tally'.told = tally.told
           \/ tally'.sent = tally.sent /\ tally'.told = tally.told + 1
    BY <1>4, <1>6, Zenon
  <2>3. QED BY <1>2, <2>1, <2>2, SMT
<1>7. QED BY <1>4, <1>5, <1>6, Zenon DEF Counts

LEMMA PublishedWhole ==
    ASSUME NEW f \in Frames, ~(kind.jpeg /\ f.tail = "torn"),
           NEW o, o.tail = f.tail, o.key = f.key, o.was = f.sps, o.sps = Corrected(f)
    PROVE  Whole(o, kind)
<1>1. kind.jpeg => f.tail = "eoi" BY Zenon DEF Frames
<1>2. kind.vui /\ ~kind.jpeg /\ f.key /\ f.sps = "plain" => Corrected(f) = "fixed"
  BY Zenon DEF Corrected, Declared
<1>3. QED BY <1>1, <1>2, Zenon DEF Whole

LEMMA PubStep ==
    ASSUME PubInv, FNext \/ UNCHANGED fvars
    PROVE  PubInv'
<1>1. CASE UNCHANGED fvars BY <1>1, Zenon DEF fvars, PubInv, Counts, UtcTrue, Whole
<1>2. ASSUME NEW d1 \in Lags, NEW d2 \in Lags, publish_utc_mapping(d1, d2) PROVE PubInv'
  <2>1. UNCHANGED <<kind, known, out, tally>> BY <1>2, Zenon DEF publish_utc_mapping
  <2>2. d1 \in Nat /\ d2 \in Nat /\ ClockGap \in Nat BY RvdPublishConstants
  <2>3. utc' = IF d1 + d2 > ClockGap THEN utc ELSE (d1 + d2) - 2 * d1
    BY <1>2, Zenon DEF publish_utc_mapping
  <2>4. utc \in Int /\ UtcTrue BY Zenon DEF PubInv
  <2>5. utc' \in Int /\ UtcTrue' BY <2>2, <2>3, <2>4, SMT DEF UtcTrue
  <2>6. QED BY <2>1, <2>5, Zenon DEF PubInv, Counts, Whole
<1>3. ASSUME NEW f \in Frames, Frame(f) PROVE PubInv'
  <2>1. tally.made < FrameMax /\ kind' = kind /\ utc' = utc BY <1>3, Zenon DEF Frame
  <2>2. kind \in KindRecord /\ Counts /\ known \in Seq(Int) /\ Len(known) <= FBufs BY Zenon DEF PubInv
  <2>3. utc' \in Int /\ UtcTrue' /\ kind' \in KindRecord BY <2>1, Zenon DEF PubInv, UtcTrue
  \* What is out stays sound over pages that only grow.
  <2>4. ASSUME NEW k \in Seq(Int), Len(k) <= FBufs, Len(known) <= Len(k), \A i \in 1..Len(known) : k[i] = known[i],
               known' = k, out' = out, Counts'
        PROVE  PubInv'
    <3>1. CASE out = <<>> BY <2>3, <2>4, <3>1, Zenon DEF PubInv
    <3>2. CASE out # <<>>
      <4>1. PICK o : out = <<o>> /\ RefSound(o, known) /\ Whole(o, kind) BY <3>2, Zenon DEF PubInv
      <4>2. RefSound(o, k) BY <2>2, <2>4, <4>1, StillSound, Zenon
      <4>3. Whole(o, kind) BY <2>1, <4>1, Zenon DEF Whole
      <4>4. QED BY <2>1, <2>3, <2>4, <4>1, <4>2, <4>3, Zenon DEF PubInv
    <3>3. QED BY <3>1, <3>2
  <2>5. Len(known) <= Len(known) BY <2>2
  <2>6. CASE kind.jpeg /\ f.tail = "torn"
    <3>1. tally' = [tally EXCEPT !.made = @ + 1, !.torn = @ + 1] /\ UNCHANGED <<known, out>>
      BY <1>3, <2>6, Zenon DEF Frame
    <3>2. Counts' BY <2>1, <2>2, <2>6, <3>1, CountsStep, Zenon
    <3>3. QED BY <2>2, <2>4, <2>5, <3>1, <3>2, Zenon
  <2>7. CASE /\ ~(kind.jpeg /\ f.tail = "torn")
             /\ kind.refmode /\ f.whole /\ ~Outside(f) /\ ~Full(f)
    <3>1. known' = Learn(f) /\ \/ Dropped(f) /\ UNCHANGED out
                               \/ Published(f, TRUE, BufIdx(f))
      BY <1>3, <2>7, Zenon DEF Frame, publish_ref
    <3>2. Counts' BY <2>1, <2>2, <3>1, CountsStep, Zenon DEF Dropped, Published
    <3>3. /\ Learn(f) \in Seq(Int) /\ Len(Learn(f)) <= FBufs /\ BufIdx(f) \in Nat
          /\ BufIdx(f) < Len(Learn(f)) /\ Learn(f)[BufIdx(f) + 1] = Page(f.at)
          /\ Len(known) <= Len(Learn(f)) /\ \A i \in 1..Len(known) : Learn(f)[i] = known[i]
      BY <2>2, <2>7, IndexOfPage, Zenon
    <3>4. CASE Dropped(f) /\ UNCHANGED out BY <2>4, <3>1, <3>2, <3>3, <3>4, Zenon
    <3>5. CASE Published(f, TRUE, BufIdx(f))
      <4>0. PICK o : o = [at |-> f.at, len |-> f.len, ref |-> TRUE, buf |-> BufIdx(f),
                          sps |-> Corrected(f), key |-> f.key, was |-> f.sps, tail |-> f.tail]
        OBVIOUS
      <4>1. out' = <<o>> BY <3>5, <4>0, Zenon DEF Published
      <4>6. o.at = f.at /\ o.len = f.len /\ o.buf = BufIdx(f) BY <4>0, Zenon
      <4>7. o.tail = f.tail /\ o.key = f.key /\ o.was = f.sps /\ o.sps = Corrected(f) BY <4>0, Zenon
      <4>8. Whole(o, kind) BY <2>7, <4>7, PublishedWhole, Zenon
      <4>2. f.at >= RefBase /\ f.at + f.len <= RefBase + RefSize
        <5>1. f.at \in Nat /\ f.len \in Nat BY RvdPublishConstants, Zenon DEF Frames
        <5>2. QED BY <2>7, <5>1, RvdPublishConstants DEF Outside
      <4>3. RefSound(o, Learn(f)) BY <3>3, <4>2, <4>6, Zenon DEF RefSound
      <4>4. RefSound(o, known)' BY <3>1, <4>3, Zenon DEF RefSound
      <4>5. QED BY <2>1, <2>3, <3>1, <3>2, <3>3, <4>1, <4>4, <4>8, Zenon DEF PubInv
    <3>6. QED BY <3>1, <3>4, <3>5
  <2>8. CASE embedded_publish(f) /\ ~(kind.jpeg /\ f.tail = "torn")
    <3>1. known' = known /\ ((Dropped(f) /\ UNCHANGED out) \/ Published(f, FALSE, 0))
      BY <2>8, Zenon DEF embedded_publish
    <3>2. Counts' BY <2>1, <2>2, <3>1, CountsStep, Zenon DEF Dropped, Published
    <3>3. CASE Dropped(f) /\ UNCHANGED out BY <2>2, <2>4, <2>5, <3>1, <3>2, <3>3, Zenon
    <3>4. CASE Published(f, FALSE, 0)
      <4>0. PICK o : o = [at |-> f.at, len |-> f.len, ref |-> FALSE, buf |-> 0,
                          sps |-> Corrected(f), key |-> f.key, was |-> f.sps, tail |-> f.tail]
        OBVIOUS
      <4>1. out' = <<o>> BY <3>4, <4>0, Zenon DEF Published
      <4>2. ~o.ref BY <4>0, Zenon
      <4>4. o.tail = f.tail /\ o.key = f.key /\ o.was = f.sps /\ o.sps = Corrected(f) BY <4>0, Zenon
      <4>5. Whole(o, kind) BY <2>8, <4>4, PublishedWhole, Zenon
      <4>6. RefSound(o, known)' BY <4>2, Zenon DEF RefSound
      <4>3. QED BY <2>1, <2>2, <2>3, <3>1, <3>2, <4>1, <4>5, <4>6, Zenon DEF PubInv
    <3>5. QED BY <3>1, <3>3, <3>4
  <2>9. QED BY <1>3, <2>6, <2>7, <2>8, Zenon DEF Frame
<1>4. QED BY <1>1, <1>2, <1>3, Zenon DEF FNext

LEMMA PubStart == ASSUME FInit PROVE PubInv
<1>1. kind \in KindRecord /\ known = <<>> /\ out = <<>> /\ utc = 0 BY Zenon DEF FInit, KindRecord
<1>2. tally = [made |-> 0, sent |-> 0, told |-> 0, torn |-> 0] BY Zenon DEF FInit
<1>3. Counts BY <1>2, RvdPublishConstants DEF Counts, Tally
<1>4. utc \in Int /\ UtcTrue BY <1>1, RvdPublishConstants DEF UtcTrue
<1>5. known \in Seq(Int) /\ Len(known) <= FBufs BY <1>1, RvdPublishConstants
<1>6. QED BY <1>1, <1>3, <1>4, <1>5, Zenon DEF PubInv

LEMMA PubHolds == ASSUME PubInv PROVE RefsSound /\ FramesAccounted /\ UtcTrue /\ FTypeOK
<1>1. ASSUME NEW o \in Range(out) PROVE RefSound(o, known) /\ Whole(o, kind)
  <2>1. out # <<>> BY <1>1 DEF Range
  <2>2. PICK x : out = <<x>> /\ RefSound(x, known) /\ Whole(x, kind) BY <2>1, Zenon DEF PubInv
  <2>3. o = x BY <1>1, <2>2, SMT DEF Range
  <2>4. QED BY <2>2, <2>3
<1>2. RefsSound BY <1>1, Zenon DEF RefsSound, RefSound
<1>3. FramesAccounted BY <1>1, Zenon DEF FramesAccounted, Whole, PubInv, Counts
<1>4. FTypeOK
  <2>1. Counts /\ FrameMax \in Nat BY RvdPublishConstants, Zenon DEF PubInv
  <2>2. tally \in [made : 0..FrameMax, sent : 0..FrameMax, told : 0..FrameMax, torn : 0..FrameMax]
    BY <2>1, SMT DEF Counts, Tally
  <2>3. QED BY <2>2, Zenon DEF FTypeOK, PubInv
<1>5. QED BY <1>2, <1>3, <1>4, Zenon DEF PubInv

-----------------------------------------------------------------------------
(* The detections.  First the geometry of one direction: columns of a      *)
(* width, some of them hit.                                                *)
LEMMA GreatestNumber ==
    ASSUME NEW n \in Int, NEW S \in SUBSET (0..n), S # {}
    PROVE  Max(S) \in S /\ \A y \in S : y <= Max(S)
<1> DEFINE T == {n - x : x \in S}
<1>1. T \in SUBSET Nat /\ T # {}
  <2>1. \A x \in S : n - x \in Nat OBVIOUS
  <2>2. QED BY <2>1, Zenon
<1>2. Min(T) \in T /\ \A y \in T : Min(T) <= y BY <1>1, LeastNumber
<1>3. PICK x \in S : Min(T) = n - x BY <1>2
<1>4. \A y \in S : x >= y
  <2>1. TAKE y \in S
  <2>2. n - y \in T OBVIOUS
  <2>3. n - x <= n - y BY <1>2, <1>3, <2>2, Zenon
  <2>4. QED BY <2>3
<1>5. \E z \in S : \A y \in S : z >= y BY <1>4
<1>6. Max(S) \in S /\ \A y \in S : Max(S) >= y BY <1>5, Zenon DEF Max
<1>7. QED BY <1>6

LEMMA Grows ==
    ASSUME NEW a \in Nat, NEW b \in Nat, NEW w \in Nat, a <= b
    PROVE  a * w <= b * w /\ a * w \in Nat /\ b * w \in Nat
<1>1. PICK d \in Nat : b = a + d BY SMT
<1>2. b * w = a * w + d * w BY <1>1, SMT
<1>3. a * w \in Nat /\ d * w \in Nat BY SMT
<1>4. QED BY <1>2, <1>3, SMT

LEMMA CellsFit ==
    ASSUME NEW n \in Nat \ {0}, NEW w \in Nat
    PROVE  w \div n \in Nat /\ n * (w \div n) <= w
BY SMT

LEMMA Span ==
    ASSUME NEW n \in Nat \ {0}, NEW width \in Nat, NEW S \in SUBSET (0..n - 1), S # {}
    PROVE  LET w == width \div n IN
           /\ \A c \in S : Min(S) * w <= c * w /\ (c + 1) * w - 1 <= (Max(S) + 1) * w - 1
           /\ Min(S) * w >= 0 /\ (Max(S) + 1) * w - 1 < width
<1> DEFINE w == width \div n
<1>1. w \in Nat /\ n * w <= width BY CellsFit
<1>2. S \in SUBSET Nat /\ n - 1 \in Int OBVIOUS
<1>3. Min(S) \in S /\ \A y \in S : Min(S) <= y BY <1>2, LeastNumber
<1>4. Max(S) \in S /\ \A y \in S : y <= Max(S) BY <1>2, GreatestNumber
<1> HIDE DEF w
<1>5. ASSUME NEW c \in S PROVE Min(S) * w <= c * w /\ (c + 1) * w - 1 <= (Max(S) + 1) * w - 1
  <2>1. c \in Nat /\ Min(S) \in Nat /\ Max(S) \in Nat /\ Min(S) <= c /\ c <= Max(S) BY <1>2, <1>3, <1>4
  <2>2. Min(S) * w <= c * w BY <1>1, <2>1, Grows
  <2>3. c + 1 \in Nat /\ Max(S) + 1 \in Nat /\ c + 1 <= Max(S) + 1 BY <2>1
  <2> DEFINE p == (c + 1) * w  q == (Max(S) + 1) * w
  <2>4. p <= q /\ p \in Nat /\ q \in Nat BY <1>1, <2>3, Grows
  <2> HIDE DEF p, q
  <2>5. p - 1 <= q - 1 BY <2>4
  <2>6. QED BY <2>2, <2>5 DEF p, q
<1>6. Min(S) * w >= 0
  <2>1. Min(S) \in Nat BY <1>2, <1>3
  <2>2. Min(S) * w \in Nat BY <1>1, <2>1, Grows
  <2>3. QED BY <2>2
<1>7. (Max(S) + 1) * w - 1 < width
  <2>0. Max(S) \in 0..n - 1 BY <1>4, Zenon
  <2>1. Max(S) + 1 \in Nat /\ n \in Nat /\ Max(S) + 1 <= n BY <2>0
  <2> DEFINE q == (Max(S) + 1) * w  r == n * w
  <2>2. q <= r /\ q \in Nat /\ r \in Nat BY <1>1, <2>1, Grows
  <2>3. r <= width BY <1>1
  <2> HIDE DEF q, r
  <2>4. q - 1 < width BY <2>2, <2>3
  <2>5. QED BY <2>4 DEF q
<1>8. QED BY <1>5, <1>6, <1>7 DEF w

LEMMA GridFits ==
    ASSUME icfg \in [algo : IAlgos, grid : IGrids]
    PROVE  Grid[1] \in Nat \ {0} /\ Grid[2] \in Nat \ {0}
<1> DEFINE dim(g) == IF g < 1 \/ g > IMaxRoi THEN DefaultGrid ELSE g
           gx == dim(icfg.grid[1])
           gy == dim(icfg.grid[2])
<1>1. icfg.grid \in Int \X Int BY RvdIvsConstants, Zenon
<1>2. icfg.grid[1] \in Int /\ icfg.grid[2] \in Int BY <1>1
<1>3. DefaultGrid \in Nat \ {0} /\ IMaxRoi \in Nat BY RvdIvsConstants
<1>4. gx \in Nat \ {0} /\ gy \in Nat \ {0} BY <1>2, <1>3, SMT
<1>5. Grid = <<gx, gy>> \/ Grid = <<DefaultGrid, DefaultGrid>> BY Zenon DEF Grid
<1> HIDE DEF gx, gy
<1>6. QED BY <1>3, <1>4, <1>5, SMT

LEMMA ZonePlaces ==
    ASSUME NEW gx \in Nat \ {0}, NEW gy \in Nat \ {0}, NEW i \in 0..(gx * gy - 1)
    PROVE  i % gx \in 0..gx - 1 /\ i \div gx \in 0..gy - 1
<1> DEFINE q == i \div gx  r == i % gx
<1>1. i \in Nat /\ i < gx * gy BY SMT
<1>2. q \in Nat /\ r \in 0..gx - 1 /\ i = gx * q + r BY <1>1, SMT
<1>3. q < gy
  <2>1. SUFFICES ASSUME gy <= q PROVE FALSE BY <1>2, SMT
  <2> HIDE DEF q, r
  <2>2. gy * gx <= q * gx BY <1>2, <2>1, Grows
  <2>3. gy * gx = gx * gy /\ q * gx = gx * q BY <1>2, SMT
  <2> DEFINE x == gx * gy  y == gx * q
  <2>4. x \in Nat /\ y \in Nat BY <1>2, SMT
  <2>5. i < x /\ i = y + r /\ x <= y BY <1>1, <1>2, <2>2, <2>3, Zenon
  <2> HIDE DEF x, y
  <2>6. QED BY <1>2, <2>4, <2>5, SMT
<1>4. QED BY <1>2, <1>3, SMT

\* The box of what was hit holds it and is in the picture.
Holds(b, hit, f) ==
    /\ \A i \in hit :
          /\ b.x0 <= Roi(i, f).x0 /\ Roi(i, f).x1 <= b.x1
          /\ b.y0 <= Roi(i, f).y0 /\ Roi(i, f).y1 <= b.y1
    /\ b.x0 >= 0 /\ b.x1 < f[1] /\ b.y0 >= 0 /\ b.y1 < f[2]

LEMMA BoxHolds ==
    ASSUME icfg \in [algo : IAlgos, grid : IGrids], NEW hit \in SUBSET Zones, hit # {}, NEW f \in IFrames
    PROVE  Holds(Box(hit, f), hit, f)
<1> DEFINE gx == Grid[1]  gy == Grid[2]  FrameW == f[1]  FrameH == f[2]
           cols == {Column(i) : i \in hit}
           rows == {i \div gx : i \in hit}
<1>1. gx \in Nat \ {0} /\ gy \in Nat \ {0} /\ FrameW \in Nat /\ FrameH \in Nat
  <2>1. f \in Nat \X Nat BY RvdIvsConstants, Zenon
  <2>2. QED BY <2>1, GridFits
<1> HIDE DEF gx, gy, FrameW, FrameH
<1>2. \A i \in hit : i \in 0..(gx * gy - 1) BY Zenon DEF Zones, gx, gy
<1>3. \A i \in hit : i % gx \in 0..gx - 1 /\ i \div gx \in 0..gy - 1 BY <1>1, <1>2, ZonePlaces
<1>4. \A i \in hit : Column(i) = i % gx BY Zenon DEF Column, gx
<1>5. cols \in SUBSET (0..gx - 1) /\ rows \in SUBSET (0..gy - 1) /\ cols # {} /\ rows # {}
  BY <1>3, <1>4, Zenon
<1>6. \A i \in hit : Column(i) \in cols /\ i \div gx \in rows BY Zenon
<1> DEFINE b == Box(hit, f)
<1>7. /\ b.x0 = Min(cols) * (FrameW \div gx) /\ b.x1 = (Max(cols) + 1) * (FrameW \div gx) - 1
      /\ b.y0 = Min(rows) * (FrameH \div gy) /\ b.y1 = (Max(rows) + 1) * (FrameH \div gy) - 1
  BY Zenon DEF Box, CellW, CellH, gx, gy, FrameW, FrameH
<1>8. ASSUME NEW i \in hit
      PROVE  /\ Roi(i, f).x0 = Column(i) * (FrameW \div gx)
             /\ Roi(i, f).x1 = (Column(i) + 1) * (FrameW \div gx) - 1
             /\ Roi(i, f).y0 = (i \div gx) * (FrameH \div gy)
             /\ Roi(i, f).y1 = ((i \div gx) + 1) * (FrameH \div gy) - 1
  BY Zenon DEF Roi, Column, CellW, CellH, gx, gy, FrameW, FrameH
<1> HIDE DEF cols, rows, b
<1>9. /\ \A c \in cols : /\ Min(cols) * (FrameW \div gx) <= c * (FrameW \div gx)
                         /\ (c + 1) * (FrameW \div gx) - 1 <= (Max(cols) + 1) * (FrameW \div gx) - 1
      /\ Min(cols) * (FrameW \div gx) >= 0 /\ (Max(cols) + 1) * (FrameW \div gx) - 1 < FrameW
  BY <1>1, <1>5, Span, Zenon
<1>10. /\ \A c \in rows : /\ Min(rows) * (FrameH \div gy) <= c * (FrameH \div gy)
                          /\ (c + 1) * (FrameH \div gy) - 1 <= (Max(rows) + 1) * (FrameH \div gy) - 1
       /\ Min(rows) * (FrameH \div gy) >= 0 /\ (Max(rows) + 1) * (FrameH \div gy) - 1 < FrameH
  BY <1>1, <1>5, Span, Zenon
<1>11. b.x0 >= 0 /\ b.x1 < FrameW /\ b.y0 >= 0 /\ b.y1 < FrameH BY <1>7, <1>9, <1>10, Zenon
<1>12. ASSUME NEW i \in hit
       PROVE  /\ b.x0 <= Roi(i, f).x0 /\ Roi(i, f).x1 <= b.x1
              /\ b.y0 <= Roi(i, f).y0 /\ Roi(i, f).y1 <= b.y1
  <2>1. Column(i) \in cols /\ i \div gx \in rows BY <1>6
  <2>2. QED BY <1>7, <1>8, <1>9, <1>10, <2>1, Zenon
<1>13. QED BY <1>11, <1>12, Zenon DEF Holds, b, FrameW, FrameH

\* A detection and its box are there or not together, and the phases before the
\* thread runs have none.
SdkRecord == [phase : {"boot", "bound", "ready", "run", "paused", "stopped", "off"},
              group : BOOLEAN, bound : BOOLEAN, chan : {"none", "registered", "receiving"},
              algo : BOOLEAN, streaming : BOOLEAN]
SeenRecord == [motion : BOOLEAN, persons : 0..MaxPersons, age : 0..HoldTime + 1]
SizeRecord == [now : IFrames, zones : IFrames, hit : IFrames]
Persons == {"persondet", "yolo"}
Nothing == /\ ~seen.motion /\ seen.persons = 0 /\ boxes.count = 0
IvsTyped ==
    /\ sdk \in SdkRecord /\ icfg \in [algo : IAlgos, grid : IGrids]
    /\ iact \in BOOLEAN /\ ithr \in BOOLEAN /\ seen \in SeenRecord
    /\ DOMAIN boxes = {"count", "box"} /\ boxes.count \in 0..MaxPersons
    /\ size \in SizeRecord
Resting == sdk.phase \in {"boot", "bound", "ready"} => ~ithr /\ last = {} /\ Nothing
Marked ==
    /\ icfg.algo = "move" => (boxes.count > 0 <=> seen.motion)
    /\ icfg.algo = "move" /\ last # {} => last \subseteq Zones /\ boxes.box = Box(last, size.hit)
    /\ icfg.algo \notin Persons => seen.persons = 0
IvsInv == IvsTyped /\ Resting /\ Marked /\ DetectionsHeld

LEMMA AgeStep ==
    ASSUME IvsTyped
    PROVE  Older \in 0..HoldTime + 1 /\ (Older <= HoldTime => seen.age <= HoldTime) /\ 0 \in 0..HoldTime + 1
<1>1. HoldTime \in Nat BY RvdIvsConstants
<1>2. seen.age \in 0..HoldTime + 1 BY Zenon DEF IvsTyped, SeenRecord
<1>3. QED BY <1>1, <1>2 DEF Older

LEMMA SameGrid == ASSUME icfg' = icfg PROVE Grid' = Grid /\ Zones' = Zones
<1>1. Grid' = Grid BY Zenon DEF Grid
<1>2. QED BY <1>1, Zenon DEF Zones

LEMMA SameBox ==
    ASSUME icfg' = icfg, last' = last, size'.hit = size.hit PROVE Box(last, size.hit)' = Box(last, size.hit)
BY SameGrid, Zenon DEF Box, Column, CellW, CellH

\* Nothing but the SDK, the thread and the picture's size changes.
LEMMA StillBoxed ==
    ASSUME IvsInv, UNCHANGED <<icfg, seen, boxes, last>>, size' \in SizeRecord, size'.hit = size.hit, sdk' \in SdkRecord, iact' \in BOOLEAN, ithr' \in BOOLEAN,
           sdk'.phase \in {"boot", "bound", "ready"} => ~ithr' /\ sdk.phase \in {"boot", "bound", "ready"}
    PROVE  IvsInv'
<1>1. IvsTyped' BY Zenon DEF IvsInv, IvsTyped
<1>2. Resting' BY Zenon DEF IvsInv, Resting, Nothing
<1>3. Marked' BY SameGrid, SameBox, Zenon DEF IvsInv, Marked
<1>4. DetectionsHeld' BY Zenon DEF IvsInv, DetectionsHeld
<1>5. QED BY <1>1, <1>2, <1>3, <1>4, Zenon DEF IvsInv

\* Nothing but the SDK and the thread changes.
LEMMA StillMarked ==
    ASSUME IvsInv, UNCHANGED <<icfg, seen, boxes, last, size>>, sdk' \in SdkRecord, iact' \in BOOLEAN, ithr' \in BOOLEAN,
           sdk'.phase \in {"boot", "bound", "ready"} => ~ithr' /\ sdk.phase \in {"boot", "bound", "ready"}
    PROVE  IvsInv'
<1>1. size' \in SizeRecord /\ size'.hit = size.hit BY Zenon DEF IvsInv, IvsTyped
<1>2. QED BY <1>1, StillBoxed, Zenon

LEMMA ResizedStep == ASSUME IvsInv, NEW f \in IFrames, IvsResized(f) PROVE IvsInv'
<1>1. /\ size' = [size EXCEPT !.now = f] /\ UNCHANGED <<sdk, icfg, iact, ithr, seen, boxes, last>>
      /\ sdk.phase = "paused"
  BY Zenon DEF IvsResized
<1>2. /\ sdk \in SdkRecord /\ iact \in BOOLEAN /\ ithr \in BOOLEAN /\ size \in SizeRecord
  BY Zenon DEF IvsInv, IvsTyped
<1>3. size' \in SizeRecord /\ size'.hit = size.hit BY <1>1, <1>2, Zenon DEF SizeRecord
<1>4. QED BY <1>1, <1>2, <1>3, StillBoxed, Zenon

LEMMA SdkSteps ==
    ASSUME IvsInv,
           \/ \E ok \in BOOLEAN : rvd_ivs_init(ok) \/ FrameLoopStart(ok) \/ rvd_ivs_resume(ok)
           \/ ThreadExits \/ rvd_ivs_pause \/ rvd_ivs_stop \/ rvd_ivs_deinit
    PROVE  IvsInv'
<1>1. sdk \in SdkRecord /\ iact \in BOOLEAN /\ ithr \in BOOLEAN BY Zenon DEF IvsInv, IvsTyped
<1>2. ASSUME NEW ok \in BOOLEAN, rvd_ivs_init(ok) PROVE IvsInv'
  <2>1. sdk' = [sdk EXCEPT !.phase = "bound", !.group = ok, !.bound = ok] /\ sdk.phase = "boot"
    BY <1>2, Zenon DEF rvd_ivs_init
  <2>2. sdk' \in SdkRecord BY <1>1, <1>2, <2>1, Zenon DEF SdkRecord
  <2>3. ~ithr BY <2>1, Zenon DEF IvsInv, Resting
  <2>4. QED BY <1>1, <1>2, <2>1, <2>2, <2>3, StillMarked, Zenon DEF rvd_ivs_init
<1>3. ASSUME NEW ok \in BOOLEAN, FrameLoopStart(ok) PROVE IvsInv'
  <2>1. sdk' = [sdk EXCEPT !.phase = "run", !.streaming = TRUE] BY <1>3, Zenon DEF FrameLoopStart
  <2>2. sdk' \in SdkRecord /\ sdk'.phase = "run" BY <1>1, <2>1, Zenon DEF SdkRecord
  <2>3. ithr' \in BOOLEAN /\ iact' \in BOOLEAN BY <1>3, Zenon DEF FrameLoopStart
  <2>4. UNCHANGED <<icfg, seen, boxes, last, size>> BY <1>3, Zenon DEF FrameLoopStart
  <2>5. QED BY <2>2, <2>3, <2>4, StillMarked, Zenon
<1>4. ASSUME NEW ok \in BOOLEAN, rvd_ivs_resume(ok) PROVE IvsInv'
  <2>1. sdk' = [sdk EXCEPT !.phase = "run", !.streaming = TRUE,
                           !.chan = IF sdk.chan = "registered" THEN "receiving" ELSE sdk.chan]
    BY <1>4, Zenon DEF rvd_ivs_resume
  <2>2. sdk' \in SdkRecord /\ sdk'.phase = "run" BY <1>1, <2>1, Zenon DEF SdkRecord
  <2>3. QED BY <1>4, <2>2, StillMarked, Zenon DEF rvd_ivs_resume
<1>5. CASE ThreadExits BY <1>1, <1>5, StillMarked, Zenon DEF ThreadExits
<1>6. CASE rvd_ivs_pause
  <2>1. sdk' = [sdk EXCEPT !.phase = "paused", !.streaming = FALSE,
                           !.chan = IF sdk.chan = "receiving" THEN "registered" ELSE sdk.chan]
    BY <1>6, Zenon DEF rvd_ivs_pause
  <2>2. sdk' \in SdkRecord /\ sdk'.phase = "paused" BY <1>1, <2>1, Zenon DEF SdkRecord
  <2>3. QED BY <1>1, <1>6, <2>2, StillMarked, Zenon DEF rvd_ivs_pause
<1>7. CASE rvd_ivs_stop
  <2>1. \/ sdk' = [sdk EXCEPT !.phase = "stopped", !.streaming = FALSE, !.chan = "none", !.algo = FALSE]
        \/ sdk' = [sdk EXCEPT !.phase = "stopped", !.streaming = FALSE]
    BY <1>7, Zenon DEF rvd_ivs_stop
  <2>2. sdk' \in SdkRecord /\ sdk'.phase = "stopped" BY <1>1, <2>1, Zenon DEF SdkRecord
  <2>3. QED BY <1>1, <1>7, <2>2, StillMarked, Zenon DEF rvd_ivs_stop
<1>8. CASE rvd_ivs_deinit
  <2>1. sdk' = [sdk EXCEPT !.phase = "off", !.bound = FALSE, !.group = (sdk.group /\ ~iact)]
    BY <1>8, Zenon DEF rvd_ivs_deinit
  <2>2. sdk' \in SdkRecord /\ sdk'.phase = "off" BY <1>1, <2>1, Zenon DEF SdkRecord
  <2>3. QED BY <1>1, <1>8, <2>2, StillMarked, Zenon DEF rvd_ivs_deinit
<1>9. QED BY <1>2, <1>3, <1>4, <1>5, <1>6, <1>7, <1>8

LEMMA StartSteps ==
    ASSUME IvsInv, NEW f \in {"none", "iface", "channel", "register", "start"}, rvd_ivs_start(f)
    PROVE  IvsInv'
<1>1. sdk \in SdkRecord /\ iact \in BOOLEAN /\ ithr \in BOOLEAN /\ size \in SizeRecord
  BY Zenon DEF IvsInv, IvsTyped
<1>8. size' \in SizeRecord /\ size'.hit = size.hit
  <2>1. PICK z \in SizeRecord : z = [size EXCEPT !.zones = size.now] BY <1>1, Zenon DEF SizeRecord
  <2>2. z.hit = size.hit BY <1>1, <2>1, Zenon DEF SizeRecord
  <2>3. size' = size \/ size' = z BY <2>1, Zenon DEF rvd_ivs_start
  <2>4. QED BY <1>1, <2>2, <2>3, Zenon
<1>2. /\ sdk' = [sdk EXCEPT !.phase = "ready",
                  !.chan = IF iact /\ f = "none" /\ icfg.algo # "yolo" THEN "receiving" ELSE "none",
                  !.algo = (iact /\ f = "none")]
      /\ sdk.phase = "bound" /\ iact' \in BOOLEAN /\ UNCHANGED <<icfg, ithr, boxes, last>>
      /\ seen' \in {seen, [motion |-> FALSE, persons |-> 0, age |-> HoldTime + 1]}
  BY Zenon DEF rvd_ivs_start
<1>3. sdk' \in SdkRecord /\ sdk'.phase = "ready" BY <1>1, <1>2, Zenon DEF SdkRecord
<1>4. ~ithr /\ last = {} /\ Nothing BY <1>2, Zenon DEF IvsInv, Resting
<1>5. CASE seen' = seen BY <1>1, <1>2, <1>3, <1>4, <1>5, <1>8, StillBoxed, Zenon
<1>6. CASE seen' = [motion |-> FALSE, persons |-> 0, age |-> HoldTime + 1]
  <2>1. seen'.motion = FALSE /\ seen'.persons = 0 BY <1>6, Zenon
  <2>2. 0 \in 0..MaxPersons /\ HoldTime + 1 \in 0..HoldTime + 1 BY RvdIvsConstants
  <2>3. seen' \in SeenRecord BY <1>6, <2>2, Zenon DEF SeenRecord
  <2>4. IvsTyped' BY <1>2, <1>3, <1>8, <2>3, Zenon DEF IvsInv, IvsTyped
  <2>5. Nothing' BY <1>2, <1>4, <2>1, Zenon DEF Nothing
  <2>6. Resting' BY <1>2, <1>4, <2>5, Zenon DEF Resting
  <2>7. ~(0 > 0) OBVIOUS
  <2>8. Marked' BY <1>2, <1>4, <2>5, <2>7, Zenon DEF Marked, Nothing
  <2>9. DetectionsHeld' BY <1>2, <1>4, <2>5, <2>7, Zenon DEF DetectionsHeld, Nothing
  <2>10. QED BY <2>4, <2>6, <2>8, <2>9, Zenon DEF IvsInv
<1>7. QED BY <1>2, <1>5, <1>6, Zenon

LEMMA NewBox ==
    ASSUME icfg' = icfg, NEW hit, last' = hit, size'.hit = size.now PROVE Box(last, size.hit)' = Box(hit, size.now)
BY SameGrid, Zenon DEF Box, Column, CellW, CellH

\* What one result makes of the flag, the count and the age.
LEMMA ResultSteps ==
    ASSUME IvsInv, UNCHANGED <<sdk, icfg, iact, ithr>>, sdk.phase \notin {"boot", "bound", "ready"},
           seen' \in SeenRecord, DOMAIN boxes' = {"count", "box"}, boxes'.count \in 0..MaxPersons, Marked',
           size' \in SizeRecord,
           icfg.algo \in {"move", "persondet", "yolo"} /\ last' # {} /\ seen'.age <= HoldTime =>
              seen'.motion /\ boxes'.count > 0,
           seen'.persons > 0 => seen'.motion /\ boxes'.count = seen'.persons
    PROVE  IvsInv'
<1>1. IvsTyped' BY Zenon DEF IvsInv, IvsTyped
<1>2. Resting' BY Zenon DEF Resting
<1>3. DetectionsHeld' BY Zenon DEF DetectionsHeld
<1>4. QED BY <1>1, <1>2, <1>3, Zenon DEF IvsInv

LEMMA QuietStep ==
    ASSUME IvsInv, IvsQuiet
    PROVE  IvsInv'
<1>1. seen' = [seen EXCEPT !.age = Older] /\ seen.age <= HoldTime /\ UNCHANGED <<sdk, icfg, iact, ithr, boxes, last, size>>
  BY Zenon DEF IvsQuiet
<1>2. seen \in SeenRecord /\ Older \in 0..HoldTime + 1 BY AgeStep, Zenon DEF IvsInv, IvsTyped
<1>3. seen' \in SeenRecord /\ seen'.motion = seen.motion /\ seen'.persons = seen.persons
  BY <1>1, <1>2, Zenon DEF SeenRecord
<1>4. IvsTyped' BY <1>1, <1>3, Zenon DEF IvsInv, IvsTyped
<1>5. Resting' BY <1>1, <1>3, Zenon DEF IvsInv, Resting, Nothing
<1>6. Marked' BY <1>1, <1>3, SameGrid, SameBox, Zenon DEF IvsInv, Marked
<1>7. DetectionsHeld' BY <1>1, <1>3, Zenon DEF IvsInv, DetectionsHeld
<1>8. QED BY <1>4, <1>5, <1>6, <1>7, Zenon DEF IvsInv

LEMMA MoveStep ==
    ASSUME IvsInv, UNCHANGED <<sdk, icfg, iact, ithr>>, sdk.phase \notin {"boot", "bound", "ready"},
           icfg.algo \notin Persons, NEW hit \in SUBSET Zones,
           ivs_process_move_result(hit), last' = IF hit # {} THEN hit ELSE last,
           size' \in SizeRecord, size'.hit = IF icfg.algo = "move" /\ hit # {} THEN size.now ELSE size.hit
    PROVE  IvsInv'
<1>1. /\ seen \in SeenRecord /\ Older \in 0..HoldTime + 1 /\ 0 \in 0..HoldTime + 1
      /\ DOMAIN boxes = {"count", "box"} /\ boxes.count \in 0..MaxPersons
  BY AgeStep, Zenon DEF IvsInv, IvsTyped
<1>2. 0 \in 0..MaxPersons /\ 1 \in 0..MaxPersons /\ 1 > 0 /\ ~(0 > 0) BY RvdIvsConstants
<1>3. seen.persons = 0 BY Zenon DEF IvsInv, Marked
<1>4. CASE hit # {}
  <2>1. /\ seen' = [seen EXCEPT !.motion = TRUE, !.age = 0] /\ boxes' = [count |-> 1, box |-> Box(hit, size.now)]
        /\ last' = hit
    BY <1>4, Zenon DEF ivs_process_move_result
  <2>2. /\ seen' \in SeenRecord /\ seen'.motion /\ seen'.persons = 0
    BY <1>1, <1>3, <2>1, Zenon DEF SeenRecord
  <2>3. boxes'.count = 1 /\ boxes'.box = Box(hit, size.now) /\ DOMAIN boxes' = {"count", "box"} BY <2>1, SMT
  <2>4. Zones' = Zones /\ (icfg.algo = "move" => Box(last, size.hit)' = Box(hit, size.now))
    BY <1>4, <2>1, SameGrid, NewBox, Zenon
  <2>5. Marked' BY <1>2, <2>1, <2>2, <2>3, <2>4, Zenon DEF Marked
  <2>6. QED BY <1>2, <2>2, <2>3, <2>5, ResultSteps, Zenon
<1>5. CASE hit = {}
  <2>1. /\ seen' = [seen EXCEPT !.motion = (seen.motion /\ ~Released), !.age = Older] /\ last' = last
        /\ boxes' = IF Released THEN [boxes EXCEPT !.count = 0] ELSE boxes
    BY <1>5, Zenon DEF ivs_process_move_result
  <2>2. /\ seen' \in SeenRecord /\ (seen'.motion <=> seen.motion /\ ~Released) /\ seen'.persons = 0 /\ seen'.age = Older
    BY <1>1, <1>3, <2>1, Zenon DEF SeenRecord
  <2>3. /\ boxes'.count = (IF Released THEN 0 ELSE boxes.count) /\ boxes'.box = boxes.box
        /\ DOMAIN boxes' = {"count", "box"}
    BY <1>1, <2>1, Zenon
  <2>4. Zones' = Zones /\ Box(last, size.hit)' = Box(last, size.hit) BY <1>5, <2>1, SameGrid, SameBox, Zenon
  <2>5. Marked' BY <1>2, <2>1, <2>2, <2>3, <2>4, Zenon DEF Marked, IvsInv, Released
  <2>6. ASSUME icfg.algo \in {"move", "persondet", "yolo"}, last' # {}, seen'.age <= HoldTime
        PROVE  seen'.motion /\ boxes'.count > 0
    <3>1. seen.age <= HoldTime BY <2>2, <2>6, AgeStep, Zenon DEF IvsInv
    <3>2. seen.motion /\ boxes.count > 0 BY <2>1, <2>6, <3>1, Zenon DEF IvsInv, DetectionsHeld
    <3>3. ~Released
      <4>1. Older <= HoldTime BY <2>2, <2>6, Zenon
      <4>2. Older \in Int /\ HoldTime \in Int BY <1>1, RvdIvsConstants
      <4>3. ~(Older > HoldTime) BY <4>1, <4>2
      <4>4. QED BY <4>3, Zenon DEF Released
    <3>4. QED BY <2>2, <2>3, <3>2, <3>3, Zenon
  <2>7. QED BY <1>1, <1>2, <2>2, <2>3, <2>5, <2>6, ResultSteps, Zenon
<1>6. QED BY <1>4, <1>5

LEMMA FlagStep ==
    ASSUME IvsInv, UNCHANGED <<sdk, icfg, iact, ithr>>, sdk.phase \notin {"boot", "bound", "ready"},
           icfg.algo \in {"roi", "base_move"}, NEW hit, MoveFlag(hit),
           size' \in SizeRecord
    PROVE  IvsInv'
<1>1. /\ seen \in SeenRecord /\ Older \in 0..HoldTime + 1 /\ 0 \in 0..HoldTime + 1
      /\ DOMAIN boxes = {"count", "box"} /\ boxes.count \in 0..MaxPersons
  BY AgeStep, Zenon DEF IvsInv, IvsTyped
<1>2. boxes' = boxes /\ seen' = [seen EXCEPT !.motion = (hit # {}), !.age = IF hit # {} THEN 0 ELSE Older]
  BY Zenon DEF MoveFlag
<1>3. seen.persons = 0 /\ icfg.algo \notin {"move", "persondet", "yolo"} BY Zenon DEF IvsInv, Marked, Persons
<1>4. seen' \in SeenRecord /\ seen'.persons = 0 BY <1>1, <1>2, <1>3, Zenon DEF SeenRecord
<1>5. Marked' BY <1>3, <1>4, Zenon DEF Marked, Persons
<1>6. ~(0 > 0) OBVIOUS
<1>7. QED BY <1>1, <1>2, <1>3, <1>4, <1>5, <1>6, ResultSteps, Zenon

LEMMA PersonStep ==
    ASSUME IvsInv, UNCHANGED <<sdk, icfg, iact, ithr>>, sdk.phase \notin {"boot", "bound", "ready"},
           icfg.algo \in Persons, NEW n \in -1..MaxPersons + 1,
           ivs_process_persondet_result(n), last' = IF n > 0 THEN {0} ELSE last, size' \in SizeRecord
    PROVE  IvsInv'
<1> DEFINE count == IF n < 0 THEN 0 ELSE IF n > MaxPersons THEN MaxPersons ELSE n
<1>1. /\ seen \in SeenRecord /\ Older \in 0..HoldTime + 1 /\ 0 \in 0..HoldTime + 1
      /\ DOMAIN boxes = {"count", "box"} /\ boxes.count \in 0..MaxPersons
  BY AgeStep, Zenon DEF IvsInv, IvsTyped
<1>2. MaxPersons \in Nat \ {0} /\ 0 \in 0..MaxPersons /\ ~(0 > 0) BY RvdIvsConstants
<1>3. count \in 0..MaxPersons /\ (count > 0 <=> n > 0) BY <1>2, SMT
<1>4. icfg.algo # "move" BY Zenon DEF Persons
<1>5. Marked' BY <1>4, Zenon DEF Marked
<1>6. CASE count > 0
  <2>1. seen' = [motion |-> TRUE, persons |-> count, age |-> 0] /\ boxes' = [boxes EXCEPT !.count = count]
    BY <1>6, Zenon DEF ivs_process_persondet_result
  <2> HIDE DEF count
  <2>2. seen' \in SeenRecord /\ seen'.motion /\ seen'.persons = count BY <1>1, <1>3, <2>1, Zenon DEF SeenRecord
  <2>3. boxes'.count = count /\ DOMAIN boxes' = {"count", "box"} BY <1>1, <2>1, Zenon
  <2>4. QED BY <1>3, <1>5, <1>6, <2>2, <2>3, ResultSteps, Zenon
<1>7. CASE ~(count > 0)
  <2>1. /\ seen' = [seen EXCEPT !.motion = (seen.motion /\ ~Released), !.age = Older,
                                !.persons = IF Released THEN 0 ELSE seen.persons]
        /\ boxes' = IF Released THEN [boxes EXCEPT !.count = 0] ELSE boxes
    BY <1>7, Zenon DEF ivs_process_persondet_result
  <2> HIDE DEF count
  <2>2. last' = last BY <1>3, <1>7, Zenon
  <2>3. seen.persons \in 0..MaxPersons BY <1>1, Zenon DEF SeenRecord
  <2>4. /\ seen' \in SeenRecord /\ (seen'.motion <=> seen.motion /\ ~Released) /\ seen'.age = Older
        /\ seen'.persons = IF Released THEN 0 ELSE seen.persons
    BY <1>1, <1>2, <2>1, <2>3, Zenon DEF SeenRecord
  <2>5. boxes'.count = (IF Released THEN 0 ELSE boxes.count) /\ DOMAIN boxes' = {"count", "box"}
    BY <1>1, <2>1, Zenon
  <2>6. ASSUME icfg.algo \in {"move", "persondet", "yolo"}, last' # {}, seen'.age <= HoldTime
        PROVE  seen'.motion /\ boxes'.count > 0
    <3>1. seen.age <= HoldTime BY <2>4, <2>6, AgeStep, Zenon DEF IvsInv
    <3>2. seen.motion /\ boxes.count > 0 BY <2>2, <2>6, <3>1, Zenon DEF IvsInv, DetectionsHeld
    <3>3. ~Released
      <4>1. Older <= HoldTime BY <2>4, <2>6, Zenon
      <4>2. Older \in Int /\ HoldTime \in Int BY <1>1, RvdIvsConstants
      <4>3. ~(Older > HoldTime) BY <4>1, <4>2
      <4>4. QED BY <4>3, Zenon DEF Released
    <3>4. QED BY <2>4, <2>5, <3>2, <3>3, Zenon
  <2>7. seen'.persons > 0 => seen'.motion /\ boxes'.count = seen'.persons
    BY <1>2, <2>4, <2>5, Zenon DEF IvsInv, DetectionsHeld
  <2>8. QED BY <1>1, <1>2, <1>5, <2>4, <2>5, <2>6, <2>7, ResultSteps, Zenon
<1>8. QED BY <1>6, <1>7

LEMMA IvsStep ==
    ASSUME IvsInv, INext \/ UNCHANGED ivars
    PROVE  IvsInv'
<1>1. CASE UNCHANGED ivars
  <2>1. sdk' \in SdkRecord /\ iact' \in BOOLEAN /\ ithr' \in BOOLEAN BY <1>1, Zenon DEF ivars, IvsInv, IvsTyped
  <2>2. sdk'.phase \in {"boot", "bound", "ready"} => ~ithr' /\ sdk.phase \in {"boot", "bound", "ready"}
    BY <1>1, Zenon DEF ivars, IvsInv, Resting
  <2>3. QED BY <1>1, <2>1, <2>2, StillMarked, Zenon DEF ivars
<1>2. ASSUME NEW hit \in SUBSET Zones, NEW n \in -1 .. MaxPersons + 1, rvd_ivs_thread(hit, n) PROVE IvsInv'
  <2>1. UNCHANGED <<sdk, icfg, iact, ithr>> /\ ithr BY <1>2, Zenon DEF rvd_ivs_thread
  <2>2. sdk.phase \notin {"boot", "bound", "ready"} BY <2>1, Zenon DEF IvsInv, Resting
  <2>7. size' \in SizeRecord /\ size'.hit = IF icfg.algo = "move" /\ hit # {} THEN size.now ELSE size.hit
    <3>1. size \in SizeRecord BY Zenon DEF IvsInv, IvsTyped
    <3>2. PICK z \in SizeRecord : z = [size EXCEPT !.hit = size.now] BY <3>1, Zenon DEF SizeRecord
    <3>3. z.hit = size.now BY <3>1, <3>2, Zenon DEF SizeRecord
    <3>4. size' = IF icfg.algo = "move" /\ hit # {} THEN z ELSE size BY <1>2, <3>2, Zenon DEF rvd_ivs_thread
    <3>5. QED BY <3>1, <3>3, <3>4, Zenon
  <2>3. CASE icfg.algo \in Persons
    <3>1. ivs_process_persondet_result(n) /\ last' = IF n > 0 THEN {0} ELSE last
      BY <1>2, <2>3, SMT DEF rvd_ivs_thread, Persons
    <3>2. QED BY <2>1, <2>2, <2>3, <2>7, <3>1, PersonStep, Zenon
  <2>4. CASE icfg.algo \in {"roi", "base_move"}
    <3>1. MoveFlag(hit) BY <1>2, <2>4, SMT DEF rvd_ivs_thread
    <3>2. QED BY <2>1, <2>2, <2>4, <2>7, <3>1, FlagStep, Zenon
  <2>5. CASE icfg.algo \notin Persons /\ icfg.algo \notin {"roi", "base_move"}
    <3>1. ivs_process_move_result(hit) /\ last' = IF hit # {} THEN hit ELSE last
      BY <1>2, <2>5, SMT DEF rvd_ivs_thread, Persons
    <3>2. QED BY <2>1, <2>2, <2>5, <2>7, <3>1, MoveStep, Zenon
  <2>6. QED BY <2>3, <2>4, <2>5
<1>3. QED BY <1>1, <1>2, SdkSteps, StartSteps, QuietStep, ResizedStep, Zenon DEF INext

LEMMA IvsStarts == ASSUME IInit PROVE IvsInv
<1>1. /\ sdk = [phase |-> "boot", group |-> FALSE, bound |-> FALSE, chan |-> "none",
                algo |-> FALSE, streaming |-> FALSE]
      /\ icfg \in [algo : IAlgos, grid : IGrids] /\ iact = FALSE /\ ithr = FALSE
      /\ seen = [motion |-> FALSE, persons |-> 0, age |-> HoldTime + 1]
      /\ boxes = [count |-> 0, box |-> NoBox] /\ last = {}
      /\ \E f \in IFrames : size = [now |-> f, zones |-> f, hit |-> f]
  BY Zenon DEF IInit
<1>10. size \in SizeRecord
  <2>1. PICK f \in IFrames : size = [now |-> f, zones |-> f, hit |-> f] BY <1>1, Zenon
  <2>2. QED BY <2>1 DEF SizeRecord
<1>2. 0 \in 0..MaxPersons /\ HoldTime + 1 \in 0..HoldTime + 1 /\ ~(0 > 0) BY RvdIvsConstants
<1>3. sdk \in SdkRecord /\ sdk.phase = "boot" BY <1>1, Zenon DEF SdkRecord
<1>4. seen \in SeenRecord /\ ~seen.motion /\ seen.persons = 0 BY <1>1, <1>2, Zenon DEF SeenRecord
<1>5. DOMAIN boxes = {"count", "box"} /\ boxes.count = 0 BY <1>1, SMT
<1>6. IvsTyped BY <1>1, <1>2, <1>3, <1>4, <1>5, <1>10, Zenon DEF IvsTyped
<1>7. Resting BY <1>1, <1>4, <1>5, Zenon DEF Resting, Nothing
<1>8. Marked /\ DetectionsHeld BY <1>1, <1>2, <1>4, <1>5, Zenon DEF Marked, DetectionsHeld
<1>9. QED BY <1>6, <1>7, <1>8, Zenon DEF IvsInv

LEMMA IvsHolds == ASSUME IvsInv PROVE BoxTrue /\ DetectionsHeld /\ ITypeOK
<1>1. ASSUME icfg.algo = "move", last # {}
      PROVE  (boxes.count > 0) = seen.motion /\ Holds(boxes.box, last, size.hit)
  <2>1. last \subseteq Zones /\ boxes.box = Box(last, size.hit) /\ (boxes.count > 0 <=> seen.motion)
    BY <1>1, Zenon DEF IvsInv, Marked
  <2>7. PICK f, h : f = size.hit /\ h = last BY Zenon
  <2>8. f \in IFrames BY <2>7, Zenon DEF IvsInv, IvsTyped, SizeRecord
  <2>9. Holds(Box(h, f), h, f) BY <1>1, <2>1, <2>7, <2>8, BoxHolds, Zenon DEF IvsInv, IvsTyped
  <2>2. Holds(boxes.box, last, size.hit) BY <2>1, <2>7, <2>9, Zenon
  <2>3. CASE seen.motion = TRUE
    <3>1. boxes.count > 0 BY <2>1, <2>3, Zenon
    <3>2. (boxes.count > 0) = TRUE BY <3>1, SMT
    <3>3. QED BY <2>2, <2>3, <3>2, Zenon
  <2>4. CASE seen.motion = FALSE
    <3>1. ~(boxes.count > 0) BY <2>1, <2>4, Zenon
    <3>2. (boxes.count > 0) = FALSE BY <3>1, SMT
    <3>3. QED BY <2>2, <2>4, <3>2, Zenon
  <2>5. seen.motion \in BOOLEAN BY Zenon DEF IvsInv, IvsTyped, SeenRecord
  <2>6. QED BY <2>3, <2>4, <2>5, Zenon
<1>2. BoxTrue BY <1>1, Zenon DEF BoxTrue, Holds
<1>3. ITypeOK BY Zenon DEF IvsInv, IvsTyped, ITypeOK, SdkRecord, SeenRecord, SizeRecord
<1>4. QED BY <1>2, <1>3, Zenon DEF IvsInv

-----------------------------------------------------------------------------
(* The pipeline.  What makes a command safe is the order of its steps: a   *)
(* channel is built or torn down only once its thread is joined, the video *)
(* channel only while no snapshot channel hangs on it.                     *)
StepSet ==
    ({"quit", "join", "deinit", "init", "reinit", "start"} \X Streams)
    \cup ({"fsmake", "destroy", "ivspause", "ivsjoin", "ivsmark", "ivsstart"} \X {"v"})
    \cup ({"resize"} \X Pics)

Touches(x, s) == x[1] \in {"deinit", "init", "reinit"} /\ x[2] = s
Builds(x, s)  == x[1] \in {"init", "reinit"} /\ x[2] = s
Does(x, op, s) == x[1] = op /\ x[2] = s
Wipes(x) == x[1] = "destroy"

\* No step comes after one that undoes what it relies on.
Ordered(t) ==
    \A i \in DOMAIN t : \A k \in 1 .. i - 1 :
        /\ \A s \in Streams : Touches(t[i], s) => ~Does(t[k], "start", s)
        /\ Touches(t[i], "v") \/ Wipes(t[i]) => ~Builds(t[k], "j")
        /\ Wipes(t[i]) => ~Builds(t[k], "v")

\* With the threads of `off' gone and the channels of `un' not made, every
\* step finds what it relies on.
Ready(t, off, un) ==
    \A i \in DOMAIN t :
        /\ \A s \in Streams :
              Touches(t[i], s) => s \in off \/ \E k \in 1 .. i - 1 : Does(t[k], "join", s)
        /\ Touches(t[i], "v") \/ Wipes(t[i])
              => "j" \in un \/ \E k \in 1 .. i - 1 : Does(t[k], "deinit", "j")
        /\ Wipes(t[i]) => "v" \in un \/ \E k \in 1 .. i - 1 : Does(t[k], "deinit", "v")

Sound(t, off, un) == t \in Seq(StepSet) /\ Ordered(t) /\ Ready(t, off, un)

Off(e)   == {s \in Streams : e[s].thread = "off"}
Unmade(e) == {s \in Streams : ~e[s].made}

ChanRecord ==
    [made : BOOLEAN, on : BOOLEAN, active : BOOLEAN, thread : {"off", "top", "poll"},
     ring : Nat, sized : Pics \cup {"none"}, pic : Pics, swapped : BOOLEAN, fresh : BOOLEAN, seen : BOOLEAN]

\* A channel that exists has its ring, and one whose thread has it on exists.
Alive(r) ==
    /\ r.made => r.ring # 0 /\ r.fresh
    /\ r.thread = "poll" => r.on
    /\ r.thread # "off" /\ r.on => r.made

CmdTyped(c) == c.hasIvs \in BOOLEAN /\ c.old \in Pics \cup {"none"}

PipeInv ==
    /\ enc \in [Streams -> ChanRecord]
    /\ fs \in [on : BOOLEAN, vbs : {1, 2}, turned : BOOLEAN]
    /\ ivs \in [active : BOOLEAN, thread : BOOLEAN, bound : BOOLEAN]
    /\ readers \in {"none", "live", "dead"}
    /\ CmdTyped(cmd)
    /\ \A s \in Streams : Alive(enc[s])
    /\ enc["j"].made => enc["v"].made
    /\ Sound(todo, Off(enc), Unmade(enc))

\* A step has run: what it relied on is not needed, what it did is there.
LEMMA SoundTail ==
    ASSUME NEW t, NEW off, NEW un, NEW off2, NEW un2, t # <<>>, Sound(t, off, un),
           \A s \in Streams : s \in off => s \in off2 \/ Does(t[1], "start", s),
           \A s \in Streams : Does(t[1], "join", s) => s \in off2,
           \A s \in Streams : s \in un => s \in un2 \/ Builds(t[1], s),
           \A s \in Streams : Does(t[1], "deinit", s) => s \in un2
    PROVE  Sound(Tail(t), off2, un2)
<1> DEFINE u == Tail(t)
<1>1. /\ u \in Seq(StepSet) /\ DOMAIN u = 1 .. Len(t) - 1 /\ DOMAIN t = 1 .. Len(t) /\ Len(t) \in Nat \ {0}
      /\ \A i \in DOMAIN u : u[i] = t[i + 1]
  BY DEF Sound
<1> HIDE DEF u
<1>2. Ordered(u)
  <2>1. SUFFICES ASSUME NEW i \in DOMAIN u, NEW k \in 1 .. i - 1
                 PROVE  /\ \A s \in Streams : Touches(u[i], s) => ~Does(u[k], "start", s)
                        /\ Touches(u[i], "v") \/ Wipes(u[i]) => ~Builds(u[k], "j")
                        /\ Wipes(u[i]) => ~Builds(u[k], "v")
    BY DEF Ordered
  <2>2. i + 1 \in DOMAIN t /\ k + 1 \in 1 .. (i + 1) - 1 /\ k \in DOMAIN u BY <1>1
  <2>3. u[i] = t[i + 1] /\ u[k] = t[k + 1] BY <1>1, <2>2
  <2>4. QED BY <2>2, <2>3, Zenon DEF Sound, Ordered
<1>3. Ready(u, off2, un2)
  <2>1. SUFFICES ASSUME NEW i \in DOMAIN u
                 PROVE  /\ \A s \in Streams :
                              Touches(u[i], s) => s \in off2 \/ \E k \in 1 .. i - 1 : Does(u[k], "join", s)
                        /\ Touches(u[i], "v") \/ Wipes(u[i])
                              => "j" \in un2 \/ \E k \in 1 .. i - 1 : Does(u[k], "deinit", "j")
                        /\ Wipes(u[i]) => "v" \in un2 \/ \E k \in 1 .. i - 1 : Does(u[k], "deinit", "v")
    BY DEF Ready
  <2>2. i + 1 \in DOMAIN t /\ u[i] = t[i + 1] /\ 1 \in 1 .. (i + 1) - 1 BY <1>1
  <2>3. ASSUME NEW op, NEW s, NEW k \in 1 .. (i + 1) - 1, Does(t[k], op, s)
        PROVE  k = 1 \/ \E m \in 1 .. i - 1 : Does(u[m], op, s)
    <3>1. SUFFICES ASSUME k # 1 PROVE \E m \in 1 .. i - 1 : Does(u[m], op, s) OBVIOUS
    <3>2. k - 1 \in 1 .. i - 1 /\ k - 1 \in DOMAIN u /\ u[k - 1] = t[k - 1 + 1] /\ k - 1 + 1 = k BY <1>1, <3>1, SMTT(30)
    <3>3. QED BY <2>3, <3>2
  <2>4. ASSUME NEW s \in Streams, Touches(u[i], s)
        PROVE  s \in off2 \/ \E k \in 1 .. i - 1 : Does(u[k], "join", s)
    <3>1. ~Does(t[1], "start", s) BY <2>2, <2>4, Zenon DEF Sound, Ordered
    <3>2. s \in off \/ \E k \in 1 .. (i + 1) - 1 : Does(t[k], "join", s) BY <2>2, <2>4, Zenon DEF Sound, Ready
    <3>3. QED BY <2>3, <3>1, <3>2, Zenon
  <2>5. ASSUME Touches(u[i], "v") \/ Wipes(u[i])
        PROVE  "j" \in un2 \/ \E k \in 1 .. i - 1 : Does(u[k], "deinit", "j")
    <3>1. ~Builds(t[1], "j") BY <2>2, <2>5, Zenon DEF Sound, Ordered
    <3>2. "j" \in un \/ \E k \in 1 .. (i + 1) - 1 : Does(t[k], "deinit", "j") BY <2>2, <2>5, Zenon DEF Sound, Ready
    <3>3. "j" \in Streams BY DEF Streams
    <3>4. QED BY <2>3, <3>1, <3>2, <3>3, Zenon
  <2>6. ASSUME Wipes(u[i])
        PROVE  "v" \in un2 \/ \E k \in 1 .. i - 1 : Does(u[k], "deinit", "v")
    <3>1. ~Builds(t[1], "v") BY <2>2, <2>6, Zenon DEF Sound, Ordered
    <3>2. "v" \in un \/ \E k \in 1 .. (i + 1) - 1 : Does(t[k], "deinit", "v") BY <2>2, <2>6, Zenon DEF Sound, Ready
    <3>3. "v" \in Streams BY DEF Streams
    <3>4. QED BY <2>3, <3>1, <3>2, <3>3, Zenon
  <2>7. QED BY <2>4, <2>5, <2>6
<1>4. QED BY <1>1, <1>2, <1>3 DEF Sound, u

\* A thread leaves, a channel is rolled back: a command stays sound.
LEMMA SoundMore ==
    ASSUME NEW t, NEW off, NEW un, NEW off2, NEW un2, Sound(t, off, un),
           \A s \in Streams : s \in off => s \in off2,
           \A s \in Streams : s \in un => s \in un2
    PROVE  Sound(t, off2, un2)
<1>1. "v" \in Streams /\ "j" \in Streams BY DEF Streams
<1>2. QED BY <1>1, Zenon DEF Sound, Ready

\* A command whose steps neither build nor tear down relies on nothing.
Calm(t) == t \in Seq(StepSet) /\ \A i \in DOMAIN t : t[i][1] \notin {"deinit", "init", "reinit", "destroy"}

LEMMA CalmSound == ASSUME NEW t, NEW off, NEW un, Calm(t) PROVE Sound(t, off, un)
BY Zenon DEF Calm, Sound, Ordered, Ready, Touches, Wipes

LEMMA CalmCat == ASSUME NEW a, NEW b, Calm(a), Calm(b) PROVE Calm(a \o b)
<1>1. a \in Seq(StepSet) /\ b \in Seq(StepSet) BY DEF Calm
<1>2. a \o b \in Seq(StepSet) BY <1>1
<1>3. \A i \in DOMAIN (a \o b) : \/ i \in DOMAIN a /\ (a \o b)[i] = a[i]
                                 \/ i - Len(a) \in DOMAIN b /\ (a \o b)[i] = b[i - Len(a)]
  BY <1>1
<1>4. QED BY <1>2, <1>3, Zenon DEF Calm

\* What comes after the channels are built is starts only.
LEMMA SoundEnd ==
    ASSUME NEW a, NEW b, NEW off, NEW un, Sound(a, off, un), Calm(b)
    PROVE  Sound(a \o b, off, un)
<1>1. a \in Seq(StepSet) /\ b \in Seq(StepSet) BY DEF Calm, Sound
<1> DEFINE c == a \o b
<1>2. c \in Seq(StepSet) /\ \A i \in DOMAIN a : c[i] = a[i] /\ \A k \in 1 .. i - 1 : c[k] = a[k] BY <1>1
<1>3. \A i \in DOMAIN c : \/ i \in DOMAIN a
                          \/ i - Len(a) \in DOMAIN b /\ c[i] = b[i - Len(a)]
  BY <1>1
<1> HIDE DEF c
<1>4. \A i \in DOMAIN c : i \in DOMAIN a \/ (~Wipes(c[i]) /\ \A s \in Streams : ~Touches(c[i], s))
  BY <1>3, Zenon DEF Calm, Wipes, Touches
<1>5. "v" \in Streams BY DEF Streams
<1>6. Ordered(c) BY <1>2, <1>4, <1>5, Zenon DEF Sound, Ordered
<1>7. Ready(c, off, un) BY <1>2, <1>4, <1>5, Zenon DEF Sound, Ready
<1>8. QED BY <1>2, <1>6, <1>7 DEF Sound, c

\* The first part of a command joins the threads of J and tears down the
\* channels of D, and neither builds nor starts.
Leads(a, J, D) ==
    /\ \A k \in DOMAIN a : a[k][1] \notin {"start", "init", "reinit"}
    /\ \A s \in J : \E k \in DOMAIN a : Does(a[k], "join", s)
    /\ \A s \in D : \E k \in DOMAIN a : Does(a[k], "deinit", s)

LEMMA SoundCat ==
    ASSUME NEW a, NEW b, NEW J, NEW D, NEW off, NEW un, Sound(a, off, un), Leads(a, J, D), Sound(b, J, D)
    PROVE  Sound(a \o b, off, un)
<1>1. a \in Seq(StepSet) /\ b \in Seq(StepSet) BY DEF Sound
<1> DEFINE c == a \o b
<1>2. /\ c \in Seq(StepSet) /\ \A i \in DOMAIN a : c[i] = a[i] /\ \A k \in 1 .. i - 1 : c[k] = a[k] /\ k \in DOMAIN a
      /\ DOMAIN a = 1 .. Len(a) /\ DOMAIN b = 1 .. Len(b) /\ Len(a) \in Nat /\ Len(b) \in Nat
  BY <1>1
<1>3. /\ \A i \in DOMAIN c : i \in DOMAIN a \/ i - Len(a) \in DOMAIN b
      /\ \A i \in DOMAIN b : c[i + Len(a)] = b[i]
  BY <1>1
<1> HIDE DEF c
<1>4. \A k \in DOMAIN a : \A s \in Streams : ~Does(c[k], "start", s) /\ ~Builds(c[k], s)
  <2>1. ASSUME NEW k \in DOMAIN a, NEW s \in Streams PROVE ~Does(c[k], "start", s) /\ ~Builds(c[k], s)
    <3>1. c[k] = a[k] /\ a[k][1] \notin {"start", "init", "reinit"} BY <1>2, Zenon DEF Leads
    <3>2. QED BY <3>1, Zenon DEF Does, Builds
  <2>2. QED BY <2>1
<1>5. "v" \in Streams /\ "j" \in Streams BY DEF Streams
<1>6. ASSUME NEW i \in DOMAIN c, i - Len(a) \in DOMAIN b
      PROVE  /\ \A k \in DOMAIN a : k \in 1 .. i - 1
             /\ c[i] = b[i - Len(a)]
             /\ \A k \in 1 .. (i - Len(a)) - 1 : k + Len(a) \in 1 .. i - 1 /\ c[k + Len(a)] = b[k]
             /\ \A k \in 1 .. i - 1 : k \in DOMAIN a \/ (k - Len(a) \in 1 .. (i - Len(a)) - 1 /\ c[k] = b[k - Len(a)])
  <2>1. i \in Int /\ i - Len(a) >= 1 /\ i - Len(a) <= Len(b) BY <1>1, <1>2, <1>6 DEF c
  <2>2. i - Len(a) + Len(a) = i BY <1>2, <2>1
  <2>3. c[i] = b[i - Len(a)] BY <1>3, <1>6, <2>2
  <2>4. \A k \in DOMAIN a : k \in 1 .. i - 1 BY <1>2, <2>1
  <2>5. ASSUME NEW k \in 1 .. (i - Len(a)) - 1 PROVE k + Len(a) \in 1 .. i - 1 /\ c[k + Len(a)] = b[k]
    BY <1>2, <1>3, <2>1
  <2>6. ASSUME NEW k \in 1 .. i - 1
        PROVE  k \in DOMAIN a \/ (k - Len(a) \in 1 .. (i - Len(a)) - 1 /\ c[k] = b[k - Len(a)])
    <3>1. k - Len(a) + Len(a) = k BY <1>2, <2>6, <2>1
    <3>2. k \in DOMAIN a \/ (k - Len(a) \in 1 .. (i - Len(a)) - 1 /\ k - Len(a) \in DOMAIN b) BY <1>2, <2>1
    <3>3. QED BY <1>3, <3>1, <3>2
  <2>7. QED BY <2>3, <2>4, <2>5, <2>6
<1>7. Ordered(c)
  <2>1. SUFFICES ASSUME NEW i \in DOMAIN c, NEW k \in 1 .. i - 1
                 PROVE  /\ \A s \in Streams : Touches(c[i], s) => ~Does(c[k], "start", s)
                        /\ Touches(c[i], "v") \/ Wipes(c[i]) => ~Builds(c[k], "j")
                        /\ Wipes(c[i]) => ~Builds(c[k], "v")
    BY DEF Ordered
  <2>2. CASE i \in DOMAIN a BY <1>2, <1>5, <2>2, Zenon DEF Sound, Ordered
  <2>3. CASE k \in DOMAIN a BY <1>4, <1>5, <2>3, Zenon
  <2>4. CASE i - Len(a) \in DOMAIN b /\ k - Len(a) \in 1 .. (i - Len(a)) - 1 /\ c[k] = b[k - Len(a)]
    BY <1>6, <2>4, Zenon DEF Sound, Ordered
  <2>5. QED BY <1>3, <1>6, <2>2, <2>3, <2>4
<1>8. Ready(c, off, un)
  <2>1. SUFFICES ASSUME NEW i \in DOMAIN c
                 PROVE  /\ \A s \in Streams :
                              Touches(c[i], s) => s \in off \/ \E k \in 1 .. i - 1 : Does(c[k], "join", s)
                        /\ Touches(c[i], "v") \/ Wipes(c[i])
                              => "j" \in un \/ \E k \in 1 .. i - 1 : Does(c[k], "deinit", "j")
                        /\ Wipes(c[i]) => "v" \in un \/ \E k \in 1 .. i - 1 : Does(c[k], "deinit", "v")
    BY DEF Ready
  <2>2. CASE i \in DOMAIN a BY <1>2, <1>5, <2>2, Zenon DEF Sound, Ready
  <2>3. CASE i - Len(a) \in DOMAIN b
    <3>1. ASSUME NEW s, NEW op,
                 (\E k \in DOMAIN a : Does(a[k], op, s)) \/ \E k \in 1 .. (i - Len(a)) - 1 : Does(b[k], op, s)
          PROVE  \E k \in 1 .. i - 1 : Does(c[k], op, s)
      BY <1>2, <1>6, <2>3, <3>1, Zenon
    <3>2. c[i] = b[i - Len(a)] BY <1>6, <2>3
    <3>3. \A s \in Streams : Touches(c[i], s) => \E k \in 1 .. i - 1 : Does(c[k], "join", s)
      <4>1. SUFFICES ASSUME NEW s \in Streams, Touches(c[i], s)
                     PROVE  \E k \in 1 .. i - 1 : Does(c[k], "join", s) OBVIOUS
      <4>2. s \in J \/ \E k \in 1 .. (i - Len(a)) - 1 : Does(b[k], "join", s)
        BY <2>3, <3>2, <4>1, Zenon DEF Sound, Ready
      <4>3. QED BY <3>1, <4>2, Zenon DEF Leads
    <3>4. Touches(c[i], "v") \/ Wipes(c[i]) => \E k \in 1 .. i - 1 : Does(c[k], "deinit", "j")
      <4>1. SUFFICES ASSUME Touches(c[i], "v") \/ Wipes(c[i])
                     PROVE  \E k \in 1 .. i - 1 : Does(c[k], "deinit", "j") OBVIOUS
      <4>2. "j" \in D \/ \E k \in 1 .. (i - Len(a)) - 1 : Does(b[k], "deinit", "j")
        BY <2>3, <3>2, <4>1, Zenon DEF Sound, Ready
      <4>3. QED BY <3>1, <4>2, Zenon DEF Leads
    <3>5. Wipes(c[i]) => \E k \in 1 .. i - 1 : Does(c[k], "deinit", "v")
      <4>1. SUFFICES ASSUME Wipes(c[i])
                     PROVE  \E k \in 1 .. i - 1 : Does(c[k], "deinit", "v") OBVIOUS
      <4>2. "v" \in D \/ \E k \in 1 .. (i - Len(a)) - 1 : Does(b[k], "deinit", "v")
        BY <2>3, <3>2, <4>1, Zenon DEF Sound, Ready
      <4>3. QED BY <3>1, <4>2, Zenon DEF Leads
    <3>6. QED BY <3>3, <3>4, <3>5
  <2>4. QED BY <1>3, <2>2, <2>3
<1>9. QED BY <1>2, <1>7, <1>8 DEF Sound, c

LEMMA LeadsCat ==
    ASSUME NEW a, NEW b, NEW J, NEW D, NEW J2, NEW D2, a \in Seq(StepSet), b \in Seq(StepSet),
           Leads(a, J, D), Leads(b, J2, D2)
    PROVE  Leads(a \o b, J \cup J2, D \cup D2)
<1> DEFINE c == a \o b
<1>1. /\ \A i \in DOMAIN c : i \in DOMAIN a \/ i - Len(a) \in DOMAIN b
      /\ \A i \in DOMAIN b : i + Len(a) \in DOMAIN c /\ c[i + Len(a)] = b[i]
      /\ \A i \in DOMAIN a : i \in DOMAIN c /\ c[i] = a[i]
      /\ \A i \in DOMAIN c : i - Len(a) \in DOMAIN b => c[i] = b[i - Len(a)]
  OBVIOUS
<1> HIDE DEF c
<1>2. \A k \in DOMAIN c : c[k][1] \notin {"start", "init", "reinit"} BY <1>1, Zenon DEF Leads
<1>3. ASSUME NEW op, NEW s,
             (\E k \in DOMAIN a : Does(a[k], op, s)) \/ \E k \in DOMAIN b : Does(b[k], op, s)
      PROVE  \E k \in DOMAIN c : Does(c[k], op, s)
  BY <1>1, <1>3, Zenon
<1>4. \A s \in J \cup J2 : \E k \in DOMAIN c : Does(c[k], "join", s) BY <1>3, Zenon DEF Leads
<1>5. \A s \in D \cup D2 : \E k \in DOMAIN c : Does(c[k], "deinit", s) BY <1>3, Zenon DEF Leads
<1>6. QED BY <1>2, <1>4, <1>5, Zenon DEF Leads, c

\* The pieces the commands are made of.
LEMMA CalmPieces ==
    /\ \A h \in BOOLEAN : Calm(IvsDown(h)) /\ Calm(IvsMark(h)) /\ Calm(IvsUp(h))
    /\ Calm(StartPair) /\ Calm(StopPair)
    /\ Calm(SubSeq(StopPair, 3, 4)) /\ Calm(SubSeq(StopPair, 1, 2))
    /\ \A s \in Streams : Calm(<< <<"start", s>> >>) /\ Calm(<< <<"quit", s>>, <<"join", s>> >>)
    /\ Calm(<< <<"fsmake", "v">> >>) /\ Calm(<<>>)
    /\ \A p \in Pics : Calm(<< <<"resize", p>> >>)
<1>1. ASSUME NEW op \in {"quit", "join", "start"}, NEW s \in Streams
      PROVE  <<op, s>> \in StepSet /\ <<op, s>>[1] \notin {"deinit", "init", "reinit", "destroy"}
  BY DEF StepSet
<1>2. ASSUME NEW op \in {"fsmake", "ivspause", "ivsjoin", "ivsmark", "ivsstart"}
      PROVE  <<op, "v">> \in StepSet /\ <<op, "v">>[1] \notin {"deinit", "init", "reinit", "destroy"}
  BY DEF StepSet
<1>3. ASSUME NEW p \in Pics
      PROVE  <<"resize", p>> \in StepSet /\ <<"resize", p>>[1] \notin {"deinit", "init", "reinit", "destroy"}
  BY DEF StepSet
<1>4. Calm(<<>>) BY DEF Calm
<1>5. ASSUME NEW x \in StepSet, x[1] \notin {"deinit", "init", "reinit", "destroy"} PROVE Calm(<<x>>)
  BY <1>5 DEF Calm
<1>6. ASSUME NEW x \in StepSet, x[1] \notin {"deinit", "init", "reinit", "destroy"},
             NEW y \in StepSet, y[1] \notin {"deinit", "init", "reinit", "destroy"} PROVE Calm(<<x, y>>)
  BY <1>6 DEF Calm
<1>7. "v" \in Streams /\ "j" \in Streams BY DEF Streams
<1>8. ASSUME NEW s \in Streams PROVE Calm(<< <<"start", s>> >>) /\ Calm(<< <<"quit", s>>, <<"join", s>> >>)
  <2>1. Calm(<< <<"start", s>> >>) BY <1>1, <1>5
  <2>2. Calm(<< <<"quit", s>>, <<"join", s>> >>) BY <1>1, <1>6
  <2>3. QED BY <2>1, <2>2
<1>9. Calm(StartPair) BY <1>1, <1>6, <1>7 DEF StartPair
<1>10. Calm(StopPair)
  <2>1. \A k \in DOMAIN StopPair : StopPair[k] \in StepSet /\ StopPair[k][1] \notin {"deinit", "init", "reinit", "destroy"}
    BY <1>1, <1>7 DEF StopPair
  <2>2. StopPair \in Seq(StepSet) BY <1>1, <1>7 DEF StopPair
  <2>3. QED BY <2>1, <2>2 DEF Calm
<1>11. Calm(SubSeq(StopPair, 3, 4)) /\ Calm(SubSeq(StopPair, 1, 2))
  <2>1. ASSUME NEW t, Calm(t), Len(t) = 4, NEW m \in 1 .. 3 PROVE Calm(SubSeq(t, m, m + 1))
    <3>1. t \in Seq(StepSet) BY <2>1 DEF Calm
    <3>2. SubSeq(t, m, m + 1) \in Seq(StepSet) /\ Len(SubSeq(t, m, m + 1)) = 2 BY <2>1, <3>1, SubSeqProperties
    <3>3. \A i \in DOMAIN SubSeq(t, m, m + 1) : SubSeq(t, m, m + 1)[i] = t[m + i - 1] /\ m + i - 1 \in DOMAIN t
      BY <2>1, <3>1, <3>2, SubSeqProperties
    <3>4. QED BY <2>1, <3>2, <3>3, Zenon DEF Calm
  <2>2. Len(StopPair) = 4 BY DEF StopPair
  <2>3. 3 \in 1 .. 3 /\ 1 \in 1 .. 3 /\ 3 + 1 = 4 /\ 1 + 1 = 2 OBVIOUS
  <2>4. Calm(SubSeq(StopPair, 3, 3 + 1)) /\ Calm(SubSeq(StopPair, 1, 1 + 1)) BY <1>10, <2>1, <2>2, <2>3, Zenon
  <2>5. QED BY <2>3, <2>4
<1>12. Calm(<< <<"fsmake", "v">> >>) BY <1>2, <1>5
<1>13. Calm(<< <<"ivspause", "v">>, <<"ivsjoin", "v">> >>) BY <1>2, <1>6
<1>14. Calm(<< <<"ivsmark", "v">> >>) /\ Calm(<< <<"ivsstart", "v">> >>) BY <1>2, <1>5
<1>15. \A h \in BOOLEAN : Calm(IvsDown(h)) /\ Calm(IvsMark(h)) /\ Calm(IvsUp(h))
  BY <1>4, <1>13, <1>14, Zenon DEF IvsDown, IvsMark, IvsUp
<1>16. \A p \in Pics : Calm(<< <<"resize", p>> >>) BY <1>3, <1>5
<1>17. QED BY <1>4, <1>8, <1>9, <1>10, <1>11, <1>12, <1>15, <1>16

LEMMA LeadPieces ==
    /\ \A h \in BOOLEAN : Leads(IvsDown(h), {}, {}) /\ Leads(IvsMark(h), {}, {})
    /\ Leads(StopPair, Streams, {}) /\ Leads(DeinitPair, {}, Streams)
    /\ Leads(SubSeq(StopPair, 3, 4), {"v"}, {}) /\ Leads(SubSeq(StopPair, 1, 2), {"j"}, {})
    /\ \A s \in Streams : Leads(<< <<"quit", s>>, <<"join", s>> >>, {s}, {})
    /\ Leads(<< <<"fsmake", "v">> >>, {}, {}) /\ Leads(<<>>, {}, {})
    /\ \A p \in Pics : Leads(<< <<"resize", p>> >>, {}, {})
<1>1. ASSUME NEW x, x[1] \notin {"start", "init", "reinit"} PROVE Leads(<<x>>, {}, {})
  BY <1>1 DEF Leads
<1>2. Leads(<<>>, {}, {}) BY DEF Leads
<1>3. Leads(<< <<"ivspause", "v">>, <<"ivsjoin", "v">> >>, {}, {}) BY DEF Leads
<1>4. ASSUME NEW op \in {"ivsmark", "fsmake", "resize"}, NEW p PROVE Leads(<< <<op, p>> >>, {}, {})
  BY <1>1
<1>5. \A h \in BOOLEAN : Leads(IvsDown(h), {}, {}) /\ Leads(IvsMark(h), {}, {})
  BY <1>2, <1>3, <1>4, Zenon DEF IvsDown, IvsMark
<1>6. ASSUME NEW s \in Streams PROVE Leads(<< <<"quit", s>>, <<"join", s>> >>, {s}, {})
  <2> DEFINE a == << <<"quit", s>>, <<"join", s>> >>
  <2>1. 2 \in DOMAIN a /\ Does(a[2], "join", s) BY DEF Does
  <2>2. \A k \in DOMAIN a : a[k][1] \notin {"start", "init", "reinit"} OBVIOUS
  <2>3. QED BY <2>1, <2>2 DEF Leads
<1>7. Leads(StopPair, Streams, {})
  <2>1. 2 \in DOMAIN StopPair /\ Does(StopPair[2], "join", "j") /\ 4 \in DOMAIN StopPair /\ Does(StopPair[4], "join", "v")
    BY DEF Does, StopPair
  <2>2. \A k \in DOMAIN StopPair : StopPair[k][1] \notin {"start", "init", "reinit"} BY DEF StopPair
  <2>3. QED BY <2>1, <2>2, Zenon DEF Leads, Streams
<1>8. Leads(DeinitPair, {}, Streams)
  <2>1. 1 \in DOMAIN DeinitPair /\ Does(DeinitPair[1], "deinit", "j") /\ 2 \in DOMAIN DeinitPair /\ Does(DeinitPair[2], "deinit", "v")
    BY DEF Does, DeinitPair
  <2>2. \A k \in DOMAIN DeinitPair : DeinitPair[k][1] \notin {"start", "init", "reinit"} BY DEF DeinitPair
  <2>3. QED BY <2>1, <2>2, Zenon DEF Leads, Streams
<1>9. Leads(SubSeq(StopPair, 3, 4), {"v"}, {}) /\ Leads(SubSeq(StopPair, 1, 2), {"j"}, {})
  <2>1. /\ \A k \in DOMAIN StopPair : StopPair[k][1] \notin {"start", "init", "reinit"}
        /\ StopPair[2] = <<"join", "j">> /\ StopPair[4] = <<"join", "v">>
        /\ StopPair \in Seq(StepSet) /\ Len(StopPair) = 4
    BY CalmPieces DEF StopPair, Calm
  <2>2. ASSUME NEW t \in Seq(StepSet), Len(t) = 4, NEW m \in 1 .. 3, NEW s, t[m + 1] = <<"join", s>>,
               \A k \in DOMAIN t : t[k][1] \notin {"start", "init", "reinit"}
        PROVE  Leads(SubSeq(t, m, m + 1), {s}, {})
    <3> DEFINE u == SubSeq(t, m, m + 1)
    <3>0. m \in Int /\ m + 1 \in Int /\ m <= m + 1 /\ \A i \in m .. m + 1 : t[i] \in StepSet BY <2>2
    <3>1. u \in Seq(StepSet) /\ Len(u) = 2 BY <3>0, SubSeqProperties
    <3>2. \A i \in DOMAIN u : u[i] = t[m + i - 1] /\ m + i - 1 \in DOMAIN t BY <2>2, <3>1, SubSeqProperties
    <3>3. 2 \in DOMAIN u /\ m + 2 - 1 = m + 1 BY <3>1
    <3>4. Does(u[2], "join", s) BY <2>2, <3>2, <3>3 DEF Does
    <3>5. QED BY <2>2, <3>2, <3>3, <3>4, Zenon DEF Leads
  <2>3. 3 \in 1 .. 3 /\ 1 \in 1 .. 3 /\ 3 + 1 = 4 /\ 1 + 1 = 2 OBVIOUS
  <2>4. Leads(SubSeq(StopPair, 3, 3 + 1), {"v"}, {}) /\ Leads(SubSeq(StopPair, 1, 1 + 1), {"j"}, {})
    BY <2>1, <2>2, <2>3
  <2>5. QED BY <2>3, <2>4
<1>10. QED BY <1>2, <1>4, <1>5, <1>6, <1>7, <1>8, <1>9, Zenon

\* Tearing the pair down relies on its threads being gone, building it on
\* its channels being gone too.
LEMMA BuildPieces ==
    /\ Sound(DeinitPair, Streams, {})
    /\ Sound(<< <<"init", "v">>, <<"init", "j">> >>, Streams, Streams)
    /\ Sound(<< <<"deinit", "j">>, <<"init", "j">> >>, {"j"}, {})
    /\ Sound(<< <<"destroy", "v">> >>, Streams, Streams)
    /\ \A s \in Streams : Sound(<< <<"reinit", s>> >>, {s}, {"j"})
<1>1. "v" \in Streams /\ "j" \in Streams BY DEF Streams
<1>2. Sound(DeinitPair, Streams, {})
  <2>1. DeinitPair \in Seq(StepSet) BY <1>1 DEF DeinitPair, StepSet
  <2>2. Ordered(DeinitPair) BY DEF DeinitPair, Ordered, Touches, Does, Builds, Wipes
  <2>3. Ready(DeinitPair, Streams, {}) BY <1>1 DEF DeinitPair, Ready, Touches, Does, Wipes
  <2>4. QED BY <2>1, <2>2, <2>3 DEF Sound
<1>3. Sound(<< <<"init", "v">>, <<"init", "j">> >>, Streams, Streams)
  <2> DEFINE t == << <<"init", "v">>, <<"init", "j">> >>
  <2>1. t \in Seq(StepSet) BY <1>1 DEF StepSet
  <2>2. Ordered(t) BY DEF Ordered, Touches, Does, Builds, Wipes
  <2>3. Ready(t, Streams, Streams) BY <1>1 DEF Ready, Touches, Does, Wipes
  <2>4. QED BY <2>1, <2>2, <2>3 DEF Sound
<1>4. Sound(<< <<"deinit", "j">>, <<"init", "j">> >>, {"j"}, {})
  <2> DEFINE t == << <<"deinit", "j">>, <<"init", "j">> >>
  <2>1. t \in Seq(StepSet) BY <1>1 DEF StepSet
  <2>2. Ordered(t) BY DEF Ordered, Touches, Does, Builds, Wipes
  <2>3. Ready(t, {"j"}, {}) BY <1>1 DEF Ready, Touches, Does, Wipes
  <2>4. QED BY <2>1, <2>2, <2>3 DEF Sound
<1>5. Sound(<< <<"destroy", "v">> >>, Streams, Streams)
  <2> DEFINE t == << <<"destroy", "v">> >>
  <2>1. t \in Seq(StepSet) BY <1>1 DEF StepSet
  <2>2. Ordered(t) BY DEF Ordered, Touches, Does, Builds, Wipes
  <2>3. Ready(t, Streams, Streams) BY <1>1 DEF Ready, Touches, Does, Wipes
  <2>4. QED BY <2>1, <2>2, <2>3 DEF Sound
<1>6. ASSUME NEW s \in Streams PROVE Sound(<< <<"reinit", s>> >>, {s}, {"j"})
  <2> DEFINE t == << <<"reinit", s>> >>
  <2>1. t \in Seq(StepSet) BY <1>1 DEF StepSet
  <2>2. Ordered(t) BY DEF Ordered, Touches, Does, Builds, Wipes
  <2>3. Ready(t, {s}, {"j"}) BY <1>1 DEF Ready, Touches, Does, Wipes
  <2>4. QED BY <2>1, <2>2, <2>3 DEF Sound
<1>7. QED BY <1>2, <1>3, <1>4, <1>5, <1>6

\* Taking the pair down, as every command that rebuilds it does.
Down(a) == a \in Seq(StepSet) /\ Sound(a, {}, {}) /\ Leads(a, Streams, Streams)

LEMMA DownCat == ASSUME NEW a, NEW b, Down(a), Calm(b), Leads(b, {}, {}) PROVE Down(a \o b)
<1>1. b \in Seq(StepSet) /\ a \in Seq(StepSet) BY DEF Calm, Down
<1>2. Sound(a \o b, {}, {}) BY SoundEnd DEF Down
<1>3. Leads(a \o b, Streams \cup {}, Streams \cup {}) BY <1>1, LeadsCat, Zenon DEF Down
<1>4. QED BY <1>1, <1>2, <1>3 DEF Down

LEMMA DownSteps ==
    ASSUME NEW a, Calm(a), Leads(a, Streams, {}) PROVE Down(a \o DeinitPair)
<1>1. Sound(a, {}, {}) BY CalmSound
<1>2. Sound(a \o DeinitPair, {}, {}) BY <1>1, BuildPieces, SoundCat, Zenon
<1>3. a \in Seq(StepSet) /\ DeinitPair \in Seq(StepSet) BY BuildPieces DEF Calm, Sound
<1>4. Leads(a \o DeinitPair, Streams \cup {}, {} \cup Streams) BY <1>3, LeadPieces, LeadsCat, Zenon
<1>5. a \o DeinitPair \in Seq(StepSet) BY <1>3
<1>6. Streams \cup {} = Streams /\ {} \cup Streams = Streams OBVIOUS
<1>7. QED BY <1>2, <1>4, <1>5, <1>6, Zenon DEF Down

\* Building it again and starting it.
LEMMA UpSteps ==
    ASSUME NEW a, Down(a), NEW h \in BOOLEAN
    PROVE  Sound(a \o << <<"init", "v">>, <<"init", "j">> >> \o StartPair \o IvsUp(h), {}, {})
<1>1. Sound(a \o << <<"init", "v">>, <<"init", "j">> >>, {}, {}) BY BuildPieces, SoundCat, Zenon DEF Down
<1>2. Calm(StartPair) /\ Calm(IvsUp(h)) BY CalmPieces
<1>3. Sound(a \o << <<"init", "v">>, <<"init", "j">> >> \o StartPair, {}, {}) BY <1>1, <1>2, SoundEnd
<1>4. QED BY <1>2, <1>3, SoundEnd

LEMMA StopLeads ==
    ASSUME NEW h \in BOOLEAN
    PROVE  Calm(IvsDown(h) \o StopPair) /\ Leads(IvsDown(h) \o StopPair, Streams, {})
<1>1. Calm(IvsDown(h)) /\ Calm(StopPair) BY CalmPieces
<1>2. Leads(IvsDown(h) \o StopPair, {} \cup Streams, {} \cup {}) BY <1>1, LeadPieces, LeadsCat, Zenon DEF Calm
<1>3. {} \cup Streams = Streams /\ {} \cup {} = {} OBVIOUS
<1>4. QED BY <1>1, <1>2, <1>3, CalmCat, Zenon

\* Every command is sound whatever it interrupts.
LEMMA RestartSound ==
    ASSUME NEW h \in BOOLEAN, NEW r \in BOOLEAN PROVE Sound(do_stream_restart(h, r), {}, {})
<1>1. Down(IvsDown(h) \o StopPair \o DeinitPair) BY StopLeads, DownSteps
<1>2. Down(IvsDown(h) \o StopPair \o DeinitPair \o IvsMark(h)) BY <1>1, CalmPieces, LeadPieces, DownCat
<1> DEFINE f == IF r THEN << <<"fsmake", "v">> >> ELSE <<>>
<1>3. Calm(f) /\ Leads(f, {}, {}) BY CalmPieces, LeadPieces
<1> HIDE DEF f
<1>4. Down(IvsDown(h) \o StopPair \o DeinitPair \o IvsMark(h) \o f) BY <1>2, <1>3, DownCat
<1>5. Sound((IvsDown(h) \o StopPair \o DeinitPair \o IvsMark(h) \o f)
              \o << <<"init", "v">>, <<"init", "j">> >> \o StartPair \o IvsUp(h), {}, {})
  BY <1>4, UpSteps
<1>6. QED BY <1>5, Zenon DEF do_stream_restart, f

LEMMA ResolutionSound ==
    ASSUME NEW h \in BOOLEAN, NEW p \in Pics
    PROVE  Sound(IvsDown(h) \o StopPair \o << <<"resize", p>> >> \o DeinitPair \o IvsMark(h)
               \o << <<"init", "v">>, <<"init", "j">> >> \o StartPair \o IvsUp(h), {}, {})
<1> DEFINE a == IvsDown(h) \o StopPair
<1> DEFINE b == << <<"resize", p>> >>
<1>1. Calm(a) /\ Leads(a, Streams, {}) BY StopLeads
<1>2. Calm(b) /\ Leads(b, {}, {}) BY CalmPieces, LeadPieces
<1> HIDE DEF a, b
<1>3. Leads(a \o b, Streams \cup {}, {} \cup {}) BY <1>1, <1>2, LeadsCat, Zenon DEF Calm
<1>4. Streams \cup {} = Streams /\ {} \cup {} = {} OBVIOUS
<1>5. Calm(a \o b) /\ Leads(a \o b, Streams, {}) BY <1>1, <1>2, <1>3, <1>4, CalmCat, Zenon
<1>6. Down(a \o b \o DeinitPair) BY <1>5, DownSteps
<1>7. Down(a \o b \o DeinitPair \o IvsMark(h)) BY <1>6, CalmPieces, LeadPieces, DownCat
<1>8. QED BY <1>7, UpSteps, Zenon DEF a, b

LEMMA DownSound ==
    ASSUME NEW h \in BOOLEAN
    PROVE  Sound(SubSeq(StopPair, 3, 4) \o SubSeq(StopPair, 1, 2) \o IvsDown(h)
                 \o DeinitPair \o << <<"destroy", "v">> >>, {}, {})
<1> DEFINE a == SubSeq(StopPair, 3, 4)
<1> DEFINE b == SubSeq(StopPair, 1, 2)
<1>1. Calm(a) /\ Calm(b) /\ Calm(IvsDown(h)) BY CalmPieces
<1>2. Leads(a, {"v"}, {}) /\ Leads(b, {"j"}, {}) /\ Leads(IvsDown(h), {}, {}) BY LeadPieces
<1> HIDE DEF a, b
<1>3. Calm(a \o b) /\ Leads(a \o b, {"v"} \cup {"j"}, {} \cup {}) BY <1>1, <1>2, LeadsCat, CalmCat, Zenon DEF Calm
<1>4. /\ Calm(a \o b \o IvsDown(h))
      /\ Leads(a \o b \o IvsDown(h), ({"v"} \cup {"j"}) \cup {}, ({} \cup {}) \cup {})
  BY <1>1, <1>2, <1>3, LeadsCat, CalmCat, Zenon DEF Calm
<1>5. ({"v"} \cup {"j"}) \cup {} = Streams /\ ({} \cup {}) \cup {} = {} BY DEF Streams
<1>6. Down(a \o b \o IvsDown(h) \o DeinitPair) BY <1>4, <1>5, DownSteps
<1>7. QED BY <1>6, BuildPieces, SoundCat, Zenon DEF Down, a, b

LEMMA QualitySound ==
    Sound(<< <<"quit", "j">>, <<"join", "j">>, <<"deinit", "j">>, <<"init", "j">>, <<"start", "j">> >>, {}, {})
<1> DEFINE t == << <<"quit", "j">>, <<"join", "j">>, <<"deinit", "j">>, <<"init", "j">>, <<"start", "j">> >>
<1>1. "j" \in Streams BY DEF Streams
<1>2. t \in Seq(StepSet) BY <1>1 DEF StepSet
<1>3. Ordered(t) BY DEF Ordered, Touches, Does, Builds, Wipes
<1>4. /\ 2 \in DOMAIN t /\ Does(t[2], "join", "j") /\ DOMAIN t = 1 .. 5
      /\ \A i \in DOMAIN t : ~Touches(t[i], "v") /\ ~Wipes(t[i]) /\ (Touches(t[i], "j") => i > 2)
  BY DEF Does, Touches, Wipes
<1> HIDE DEF t
<1>5. \A i \in DOMAIN t : i > 2 => 2 \in 1 .. i - 1 BY <1>4
<1>6. Ready(t, {}, {}) BY <1>4, <1>5, Zenon DEF Ready, Streams
<1>7. QED BY <1>2, <1>3, <1>6 DEF Sound, t

-----------------------------------------------------------------------------
(* The pipeline's steps. *)

\* A ring of the size the code chooses holds a frame of its picture.
LEMMA RingSizes ==
    \A s \in Streams, p \in Pics :
        /\ NewRing(s, p) \in Nat \ {0}
        /\ s = "j" => NewRing(s, p) >= rvd_jpeg_frame_bound(PicW[p], PicH[p])
<1>1. ASSUME NEW p \in Pics
      PROVE  NewRing("j", p) \in Nat \ {0} /\ NewRing("j", p) >= rvd_jpeg_frame_bound(PicW[p], PicH[p])
  <2>1. PicW[p] \in Nat /\ PicH[p] \in Nat BY RvdPipelineConstants
  <2> DEFINE area == PicW[p] * PicH[p]
  <2>2. area \in Nat BY <2>1
  <2>3. rvd_jpeg_ring_slots(1) = 4 BY DEF rvd_jpeg_ring_slots
  <2>4. NewRing("j", p) = AtLeast(AtMost(AtLeast(area \div 16, 16384) * 4, RVD_JPEG_RING_MAX), area \div 2 + 32768)
    BY <2>3 DEF NewRing, rvd_jpeg_ring_data, rvd_jpeg_frame_bound
  <2>5. rvd_jpeg_frame_bound(PicW[p], PicH[p]) = area \div 2 + 32768 BY DEF rvd_jpeg_frame_bound
  <2> HIDE DEF area
  <2>6. area \div 16 \in Nat /\ area \div 2 \in Nat BY <2>2
  <2>7. QED BY <2>4, <2>5, <2>6 DEF AtLeast, AtMost, RVD_JPEG_RING_MAX
<1>2. ASSUME NEW p \in Pics PROVE NewRing("v", p) \in Nat \ {0}
  <2> DEFINE n == AtMost(AtLeast(32, 2), RSS_RING_MAX_SLOTS)
  <2>1. n = 32 BY DEF AtMost, AtLeast, RSS_RING_MAX_SLOTS
  <2> DEFINE c == CHOOSE q \in {1, 2, 4, 8, 16, 32, 64} : q <= 32 /\ q * 2 > 32
  <2>2. 32 \in {1, 2, 4, 8, 16, 32, 64} /\ 32 <= 32 /\ 32 * 2 > 32 OBVIOUS
  <2>3. c \in {1, 2, 4, 8, 16, 32, 64} BY <2>2
  <2>4. clamp_ring_slots(32) = c BY <2>1 DEF clamp_ring_slots
  <2> HIDE DEF c
  <2>5. clamp_ring_slots(32) \in Nat BY <2>3, <2>4
  <2>6. AtLeast(((3000000 * 4) \div 8) \div 25, 8192) \in Nat BY DEF AtLeast
  <2>7. AtLeast(((3000000 * 4) \div 8) \div 25, 8192) * clamp_ring_slots(32) \in Nat BY <2>5, <2>6
  <2> DEFINE d == AtLeast(((3000000 * 4) \div 8) \div 25, 8192) * clamp_ring_slots(32)
  <2>8. NewRing("v", p) = AtMost(AtLeast(d, 262144), 8388608) BY DEF NewRing, VideoRingData
  <2>9. d \in Nat BY <2>7
  <2> HIDE DEF d
  <2>10. QED BY <2>8, <2>9 DEF AtMost, AtLeast
<1>3. QED BY <1>1, <1>2 DEF Streams

\* One channel changes to a record it may have.
LEMMA ChanStep ==
    ASSUME PipeInv, NEW s \in Streams, NEW r \in ChanRecord, Alive(r), enc' = [enc EXCEPT ![s] = r],
           s = "v" /\ enc["j"].made => r.made, s = "j" /\ r.made => enc["v"].made
    PROVE  /\ enc' \in [Streams -> ChanRecord] /\ enc'[s] = r
           /\ \A o \in Streams : o # s => enc'[o] = enc[o]
           /\ \A o \in Streams : Alive(enc'[o])
           /\ enc'["j"].made => enc'["v"].made
<1>1. /\ enc' \in [Streams -> ChanRecord] /\ enc'[s] = r
      /\ \A o \in Streams : o # s => enc'[o] = enc[o]
  BY Zenon DEF PipeInv
<1>2. \A o \in Streams : Alive(enc'[o]) BY <1>1, Zenon DEF PipeInv
<1>3. s = "v" \/ s = "j" BY DEF Streams
<1>4. "v" \in Streams /\ "j" \in Streams /\ "v" # "j" BY DEF Streams
<1>5. enc["j"].made => enc["v"].made BY Zenon DEF PipeInv
<1>6. CASE s = "v"
  <2>1. enc'["j"] = enc["j"] /\ enc'["v"] = r BY <1>1, <1>4, <1>6, Zenon
  <2>2. QED BY <1>1, <1>2, <1>6, <2>1, Zenon
<1>7. CASE s = "j"
  <2>1. enc'["v"] = enc["v"] /\ enc'["j"] = r BY <1>1, <1>4, <1>7, Zenon
  <2>2. QED BY <1>1, <1>2, <1>7, <2>1, Zenon
<1>8. QED BY <1>3, <1>6, <1>7

\* The control thread advances past its step.
LEMMA Advanced ==
    ASSUME PipeInv, todo # <<>>, Advance,
           \A s \in Streams : s \in Off(enc) => s \in Off(enc') \/ Does(Step, "start", s),
           \A s \in Streams : Does(Step, "join", s) => s \in Off(enc'),
           \A s \in Streams : s \in Unmade(enc) => s \in Unmade(enc') \/ Builds(Step, s),
           \A s \in Streams : Does(Step, "deinit", s) => s \in Unmade(enc')
    PROVE  Sound(todo', Off(enc'), Unmade(enc')) /\ CmdTyped(cmd')
<1>1. todo' = Tail(todo) /\ Sound(todo, Off(enc), Unmade(enc)) BY Zenon DEF Advance, PipeInv
<1>2. todo \in Seq(StepSet) BY <1>1 DEF Sound
<1>3. Step = todo[1] BY <1>2 DEF Step
<1>4. PICK t, off, un, off2, un2 :
        t = todo /\ off = Off(enc) /\ un = Unmade(enc) /\ off2 = Off(enc') /\ un2 = Unmade(enc')
  BY Zenon
<1>5. Sound(Tail(t), off2, un2) BY <1>1, <1>3, <1>4, SoundTail, Zenon
<1>6. CmdTyped(cmd) BY Zenon DEF PipeInv
<1>7. NoCommand.hasIvs = FALSE /\ NoCommand.old = "none" BY DEF NoCommand
<1>8. CmdTyped(NoCommand) BY <1>7, Zenon DEF CmdTyped
<1>9. cmd' = NoCommand \/ cmd' = cmd BY Zenon DEF Advance
<1>10. QED BY <1>1, <1>4, <1>5, <1>6, <1>8, <1>9, Zenon

LEMMA StepKnown ==
    ASSUME PipeInv, todo # <<>>
    PROVE  /\ Step[1] \in {"quit", "join", "deinit", "init", "reinit", "start"} => Step[2] \in Streams
           /\ Step[1] = "resize" => Step[2] \in Pics
           /\ \A s \in Streams : Touches(Step, s) => enc[s].thread = "off"
           /\ Touches(Step, "v") \/ Wipes(Step) => ~enc["j"].made
           /\ Wipes(Step) => ~enc["v"].made
<1>1. Sound(todo, Off(enc), Unmade(enc)) BY Zenon DEF PipeInv
<1>2. todo \in Seq(StepSet) BY <1>1 DEF Sound
<1>3. Step = todo[1] /\ Step \in StepSet /\ 1 \in DOMAIN todo /\ 1 .. 1 - 1 = {} BY <1>2 DEF Step
<1>4. /\ Step[1] \in {"quit", "join", "deinit", "init", "reinit", "start"} => Step[2] \in Streams
      /\ Step[1] = "resize" => Step[2] \in Pics
  BY <1>3 DEF StepSet
<1>5. /\ \A s \in Streams : Touches(Step, s) => s \in Off(enc)
      /\ Touches(Step, "v") \/ Wipes(Step) => "j" \in Unmade(enc)
      /\ Wipes(Step) => "v" \in Unmade(enc)
  BY <1>1, <1>3, Zenon DEF Sound, Ready
<1>6. QED BY <1>4, <1>5, Zenon DEF Off, Unmade

\* A step that leaves the channels alone.
LEMMA EncSame ==
    ASSUME PipeInv, todo # <<>>, Advance, enc' = enc, Step[1] \notin {"join", "deinit"},
           fs' \in [on : BOOLEAN, vbs : {1, 2}, turned : BOOLEAN],
           ivs' \in [active : BOOLEAN, thread : BOOLEAN, bound : BOOLEAN], readers' = readers
    PROVE  PipeInv'
<1>1. Off(enc') = Off(enc) /\ Unmade(enc') = Unmade(enc) BY Zenon
<1>2. \A s \in Streams : ~Does(Step, "join", s) /\ ~Does(Step, "deinit", s) BY Zenon DEF Does
<1>3. Sound(todo', Off(enc'), Unmade(enc')) /\ CmdTyped(cmd') BY <1>1, <1>2, Advanced, Zenon
<1>4. QED BY <1>3, Zenon DEF PipeInv

\* A step that changes one channel.
LEMMA EncOne ==
    ASSUME PipeInv, todo # <<>>, Advance, NEW s \in Streams, NEW r \in ChanRecord, Alive(r),
           enc' = [enc EXCEPT ![s] = r],
           s = "v" /\ enc["j"].made => r.made, s = "j" /\ r.made => enc["v"].made,
           Step[1] \in {"join", "deinit"} => Step[2] = s,
           enc[s].thread = "off" => r.thread = "off" \/ Does(Step, "start", s),
           Step[1] = "join" => r.thread = "off",
           ~enc[s].made => ~r.made \/ Builds(Step, s),
           Step[1] = "deinit" => ~r.made,
           fs' \in [on : BOOLEAN, vbs : {1, 2}, turned : BOOLEAN],
           ivs' \in [active : BOOLEAN, thread : BOOLEAN, bound : BOOLEAN], readers' = readers
    PROVE  PipeInv'
<1>1. /\ enc' \in [Streams -> ChanRecord] /\ enc'[s] = r
      /\ \A o \in Streams : o # s => enc'[o] = enc[o]
      /\ \A o \in Streams : Alive(enc'[o])
      /\ enc'["j"].made => enc'["v"].made
  BY ChanStep, Zenon
<1>2. \A o \in Streams : o \in Off(enc) => o \in Off(enc') \/ Does(Step, "start", o) BY <1>1, Zenon DEF Off
<1>3. \A o \in Streams : Does(Step, "join", o) => o \in Off(enc') BY <1>1, Zenon DEF Off, Does
<1>4. \A o \in Streams : o \in Unmade(enc) => o \in Unmade(enc') \/ Builds(Step, o) BY <1>1, Zenon DEF Unmade
<1>5. \A o \in Streams : Does(Step, "deinit", o) => o \in Unmade(enc') BY <1>1, Zenon DEF Unmade, Does
<1>6. Sound(todo', Off(enc'), Unmade(enc')) /\ CmdTyped(cmd') BY <1>2, <1>3, <1>4, <1>5, Advanced, Zenon
<1>7. QED BY <1>1, <1>6, Zenon DEF PipeInv

\* A step of an encoder thread.
LEMMA EncThread ==
    ASSUME PipeInv, NEW s \in Streams, NEW r \in ChanRecord, Alive(r), enc' = [enc EXCEPT ![s] = r],
           r.made = enc[s].made, enc[s].thread = "off" => r.thread = "off",
           UNCHANGED <<fs, ivs, todo, cmd, readers>>
    PROVE  PipeInv'
<1>1. /\ s = "v" /\ enc["j"].made => r.made
      /\ s = "j" /\ r.made => enc["v"].made
  BY Zenon DEF PipeInv
<1>2. /\ enc' \in [Streams -> ChanRecord] /\ enc'[s] = r
      /\ \A o \in Streams : o # s => enc'[o] = enc[o]
      /\ \A o \in Streams : Alive(enc'[o])
      /\ enc'["j"].made => enc'["v"].made
  BY <1>1, ChanStep, Zenon
<1>3. \A o \in Streams : o \in Off(enc) => o \in Off(enc') BY <1>2, Zenon DEF Off
<1>4. \A o \in Streams : o \in Unmade(enc) => o \in Unmade(enc') BY <1>2, Zenon DEF Unmade
<1>5. Sound(todo, Off(enc), Unmade(enc)) BY Zenon DEF PipeInv
<1>6. PICK t, off, un, off2, un2 :
        t = todo /\ off = Off(enc) /\ un = Unmade(enc) /\ off2 = Off(enc') /\ un2 = Unmade(enc')
  BY Zenon
<1>7. Sound(todo, Off(enc'), Unmade(enc')) BY <1>3, <1>4, <1>5, <1>6, SoundMore, Zenon
<1>8. QED BY <1>2, <1>7, Zenon DEF PipeInv

\* A command is accepted, and a command goes on with other steps.
LEMMA NewTodo ==
    ASSUME PipeInv, enc' = enc, NEW t, todo' = t, Sound(t, {}, {}), CmdTyped(cmd'),
           fs' \in [on : BOOLEAN, vbs : {1, 2}, turned : BOOLEAN], UNCHANGED <<ivs, readers>>
    PROVE  PipeInv'
<1>1. PICK off2, un2 : off2 = Off(enc') /\ un2 = Unmade(enc') BY Zenon
<1>a. (\A s \in Streams : s \in {} => s \in off2) /\ (\A s \in Streams : s \in {} => s \in un2) BY Zenon
<1>2. Sound(t, off2, un2) BY <1>a, SoundMore
<1>3. Sound(todo', Off(enc'), Unmade(enc')) BY <1>1, <1>2, Zenon
<1>4. QED BY <1>3, Zenon DEF PipeInv

LEMMA BeginStep ==
    ASSUME PipeInv, NEW k, NEW t, NEW o \in Pics \cup {"none"}, Begin(k, t, o), UNCHANGED enc, Sound(t, {}, {})
    PROVE  PipeInv'
<1>1. ivs.active \in BOOLEAN /\ fs \in [on : BOOLEAN, vbs : {1, 2}, turned : BOOLEAN] BY Zenon DEF PipeInv
<1>2. todo' = t /\ cmd' = [kind |-> k, hasIvs |-> HasIvs, old |-> o] /\ UNCHANGED <<fs, ivs, readers>>
  BY Zenon DEF Begin
<1>3. CmdTyped(cmd') BY <1>1, <1>2, Zenon DEF CmdTyped, HasIvs
<1>4. QED BY <1>1, <1>2, <1>3, NewTodo, Zenon

LEMMA CommandSteps == ASSUME PipeInv, Commands \/ VbsFallback PROVE PipeInv'
<1>1. /\ ivs.active \in BOOLEAN /\ fs \in [on : BOOLEAN, vbs : {1, 2}, turned : BOOLEAN]
      /\ enc \in [Streams -> ChanRecord] /\ "none" \in Pics \cup {"none"}
  BY Zenon DEF PipeInv
<1>2. enc["v"].pic \in Pics \cup {"none"} BY <1>1, Zenon DEF Streams, ChanRecord
<1>3. PICK h \in BOOLEAN : h = HasIvs BY <1>1, Zenon DEF HasIvs
<1>4. Sound(do_stream_restart(h, FALSE), {}, {}) /\ Sound(do_stream_restart(h, TRUE), {}, {}) BY RestartSound
<1>5. CASE StreamRestart \/ OsdRestart
  <2>1. PICK k : Begin(k, do_stream_restart(HasIvs, FALSE), "none") /\ UNCHANGED enc
    BY <1>5, Zenon DEF StreamRestart, OsdRestart
  <2>2. QED BY <1>1, <1>3, <1>4, <2>1, BeginStep, Zenon
<1>6. CASE VbsFallback
  <2>1. /\ enc' = enc /\ todo' = do_stream_restart(h, TRUE) /\ UNCHANGED <<ivs, readers>>
        /\ cmd' = [kind |-> "vbs", hasIvs |-> h, old |-> "none"]
        /\ fs' = [fs EXCEPT !.vbs = 1]
    BY <1>3, <1>6, Zenon DEF VbsFallback
  <2>2. fs' \in [on : BOOLEAN, vbs : {1, 2}, turned : BOOLEAN] BY <1>1, <2>1, Zenon
  <2>3. CmdTyped(cmd') BY <2>1, Zenon DEF CmdTyped
  <2>4. QED BY <1>4, <2>1, <2>2, <2>3, NewTodo, Zenon
<1>7. CASE StreamStop
  <2> DEFINE b == IF enc["j"].active THEN StopPair ELSE SubSeq(StopPair, 3, 4)
  <2>1. Begin("stop", IvsDown(HasIvs) \o b, "none") /\ UNCHANGED enc BY <1>7, Zenon DEF StreamStop
  <2>2. PICK c : c = b /\ Calm(c) BY CalmPieces, Zenon
  <2>3. Calm(IvsDown(h) \o c) BY <2>2, CalmPieces, CalmCat, Zenon
  <2>4. Sound(IvsDown(h) \o c, {}, {}) BY <2>3, CalmSound, Zenon
  <2> HIDE DEF b
  <2>5. Begin("stop", IvsDown(h) \o c, "none") BY <1>3, <2>1, <2>2, Zenon
  <2>6. QED BY <1>1, <2>1, <2>4, <2>5, BeginStep, Zenon
<1>8. CASE StreamStart
  <2> DEFINE b == IF enc["j"].ring # 0 /\ ~enc["j"].active THEN << <<"start", "j">> >> ELSE <<>>
  <2>1. Begin("start", << <<"start", "v">> >> \o b \o IvsUp(~ivs.active), "none") /\ UNCHANGED enc
    BY <1>8, Zenon DEF StreamStart
  <2>2. "v" \in Streams /\ "j" \in Streams BY DEF Streams
  <2>3. PICK c : c = b /\ Calm(c) BY <2>2, CalmPieces, Zenon
  <2>4. PICK g \in BOOLEAN : IvsUp(~ivs.active) = IvsUp(g) BY <1>1, Zenon
  <2>5. Calm(<< <<"start", "v">> >> \o c) BY <2>2, <2>3, CalmPieces, CalmCat, Zenon
  <2>6. Calm(<< <<"start", "v">> >> \o c \o IvsUp(g)) BY <2>5, CalmPieces, CalmCat, Zenon
  <2>7. Sound(<< <<"start", "v">> >> \o c \o IvsUp(g), {}, {}) BY <2>6, CalmSound, Zenon
  <2> HIDE DEF b
  <2>8. Begin("start", << <<"start", "v">> >> \o c \o IvsUp(g), "none") BY <2>1, <2>3, <2>4, Zenon
  <2>9. QED BY <1>1, <2>1, <2>7, <2>8, BeginStep, Zenon
<1>9. CASE SetJpegQuality BY <1>1, <1>9, QualitySound, BeginStep, Zenon DEF SetJpegQuality
<1>10. CASE Shutdown BY <1>1, <1>3, <1>10, DownSound, BeginStep, Zenon DEF Shutdown
<1>11. ASSUME NEW p \in Pics, SetResolution(p) PROVE PipeInv'
  <2>1. PICK o \in Pics \cup {"none"} : o = enc["v"].pic BY <1>2, Zenon
  <2>2. Begin("resolution",
             IvsDown(h) \o StopPair \o << <<"resize", p>> >> \o DeinitPair \o IvsMark(h)
               \o << <<"init", "v">>, <<"init", "j">> >> \o StartPair \o IvsUp(h), o) /\ UNCHANGED enc
    BY <1>3, <1>11, <2>1, Zenon DEF SetResolution
  <2>3. QED BY <2>2, ResolutionSound, BeginStep, Zenon
<1>12. QED BY <1>5, <1>6, <1>7, <1>8, <1>9, <1>10, <1>11, Zenon DEF Commands

LEMMA ThreadSteps ==
    ASSUME PipeInv, Threads \/ Attach \/ Detach \/ ReaderDies PROVE PipeInv'
<1>1. /\ enc \in [Streams -> ChanRecord] /\ \A s \in Streams : Alive(enc[s])
      /\ "j" \in Streams /\ "v" \in Streams
  BY Zenon DEF PipeInv, Streams
<1>2. ASSUME NEW s \in Streams, Leave(s) PROVE PipeInv'
  <2>1. enc' = [enc EXCEPT ![s].thread = "off"] /\ UNCHANGED <<fs, ivs, todo, cmd, readers>>
    BY <1>2, Zenon DEF Leave, EncOnly
  <2>2. PICK r : r = [enc[s] EXCEPT !.thread = "off"] BY Zenon
  <2>3. enc' = [enc EXCEPT ![s] = r] BY <2>1, <2>2, Zenon
  <2>4. r \in ChanRecord /\ r.made = enc[s].made /\ r.thread = "off" /\ r.ring = enc[s].ring /\ r.fresh = enc[s].fresh
    BY <1>1, <2>2, Zenon DEF ChanRecord
  <2>5. Alive(r) BY <1>1, <2>4, Zenon DEF Alive
  <2>6. QED BY <2>1, <2>3, <2>4, <2>5, EncThread, Zenon
<1>3. ASSUME NEW s \in Streams, EnterPoll(s) PROVE PipeInv'
  <2>1. /\ enc' = [enc EXCEPT ![s].thread = "poll"] /\ UNCHANGED <<fs, ivs, todo, cmd, readers>>
        /\ enc[s].thread = "top" /\ enc[s].on
    BY <1>3, Zenon DEF EnterPoll, EncOnly
  <2>2. PICK r : r = [enc[s] EXCEPT !.thread = "poll"] BY Zenon
  <2>3. enc' = [enc EXCEPT ![s] = r] BY <2>1, <2>2, Zenon
  <2>4. /\ r \in ChanRecord /\ r.made = enc[s].made /\ r.thread = "poll" /\ r.ring = enc[s].ring
        /\ r.fresh = enc[s].fresh /\ r.on = enc[s].on
    BY <1>1, <2>2, Zenon DEF ChanRecord
  <2>5. Alive(r) BY <1>1, <2>1, <2>4, Zenon DEF Alive
  <2>6. QED BY <2>1, <2>3, <2>4, <2>5, EncThread, Zenon
<1>4. ASSUME NEW s \in Streams, PollFrame(s) PROVE PipeInv'
  <2>1. /\ enc' = [enc EXCEPT ![s].thread = "top", ![s].seen = (s = "v"), ![s].on = @ /\ ~(s = "j" /\ Pulse)]
        /\ UNCHANGED <<fs, ivs, todo, cmd, readers>>
        /\ enc[s].thread = "poll"
    BY <1>4, Zenon DEF PollFrame, EncOnly
  <2>2. PICK r : r = [enc[s] EXCEPT !.thread = "top", !.seen = (s = "v"), !.on = enc[s].on /\ ~(s = "j" /\ Pulse)] BY Zenon
  <2>3. enc' = [enc EXCEPT ![s] = r] BY <2>1, <2>2, Zenon
  <2>4. /\ r \in ChanRecord /\ r.made = enc[s].made /\ r.thread = "top" /\ r.ring = enc[s].ring
        /\ r.fresh = enc[s].fresh /\ (r.on => enc[s].on)
    BY <1>1, <2>2, Zenon DEF ChanRecord
  <2>5. Alive(r) BY <1>1, <2>1, <2>4, Zenon DEF Alive
  <2>6. QED BY <2>1, <2>3, <2>4, <2>5, EncThread, Zenon
<1>5. ASSUME NEW s \in Streams, PollTimeout(s) PROVE PipeInv'
  <2>1. /\ enc' = [enc EXCEPT ![s].thread = "top"] /\ UNCHANGED <<fs, ivs, todo, cmd, readers>>
        /\ enc[s].thread = "poll"
    BY <1>5, Zenon DEF PollTimeout, EncOnly
  <2>2. PICK r : r = [enc[s] EXCEPT !.thread = "top"] BY Zenon
  <2>3. enc' = [enc EXCEPT ![s] = r] BY <2>1, <2>2, Zenon
  <2>4. /\ r \in ChanRecord /\ r.made = enc[s].made /\ r.thread = "top" /\ r.ring = enc[s].ring
        /\ r.fresh = enc[s].fresh /\ r.on = enc[s].on
    BY <1>1, <2>2, Zenon DEF ChanRecord
  <2>5. Alive(r) BY <1>1, <2>1, <2>4, Zenon DEF Alive
  <2>6. QED BY <2>1, <2>3, <2>4, <2>5, EncThread, Zenon
<1>6. CASE SnapIdle
  <2>1. /\ enc' = [enc EXCEPT !["j"].on = FALSE] /\ UNCHANGED <<fs, ivs, todo, cmd, readers>>
        /\ enc["j"].thread = "top"
    BY <1>6, Zenon DEF SnapIdle, EncOnly
  <2>2. PICK r : r = [enc["j"] EXCEPT !.on = FALSE] BY Zenon
  <2>3. enc' = [enc EXCEPT !["j"] = r] BY <2>1, <2>2, Zenon
  <2>4. /\ r \in ChanRecord /\ r.made = enc["j"].made /\ r.thread = enc["j"].thread /\ r.ring = enc["j"].ring
        /\ r.fresh = enc["j"].fresh /\ ~r.on
    BY <1>1, <2>2, Zenon DEF ChanRecord
  <2>5. Alive(r) BY <1>1, <2>1, <2>4, Zenon DEF Alive
  <2>6. QED BY <1>1, <2>1, <2>3, <2>4, <2>5, EncThread, Zenon
<1>7. CASE SnapStart
  <2>1. /\ enc' = [enc EXCEPT !["j"].on = TRUE, !["j"].thread = "poll"] /\ UNCHANGED <<fs, ivs, todo, cmd, readers>>
        /\ enc["j"].thread = "top" /\ enc["j"].made
    BY <1>7, Zenon DEF SnapStart, EncOnly
  <2>2. PICK r : r = [enc["j"] EXCEPT !.on = TRUE, !.thread = "poll"] BY Zenon
  <2>3. enc' = [enc EXCEPT !["j"] = r] BY <2>1, <2>2, Zenon
  <2>4. /\ r \in ChanRecord /\ r.made = enc["j"].made /\ r.thread = "poll" /\ r.ring = enc["j"].ring
        /\ r.fresh = enc["j"].fresh /\ r.on
    BY <1>1, <2>2, Zenon DEF ChanRecord
  <2>5. Alive(r) BY <1>1, <2>1, <2>4, Zenon DEF Alive
  <2>6. QED BY <1>1, <2>1, <2>3, <2>4, <2>5, EncThread, Zenon
<1>8. CASE Reap \/ Attach \/ Detach \/ ReaderDies
  <2>1. readers' \in {"none", "live", "dead"} /\ UNCHANGED <<enc, fs, ivs, todo, cmd>>
    BY <1>8, Zenon DEF Reap, Attach, Detach, ReaderDies
  <2>2. QED BY <2>1, Zenon DEF PipeInv
<1>9. CASE IvsThread
  <2>1. ivs' = [ivs EXCEPT !.thread = FALSE] /\ UNCHANGED <<enc, fs, todo, cmd, readers>>
    BY <1>9, Zenon DEF IvsThread
  <2>2. ivs' \in [active : BOOLEAN, thread : BOOLEAN, bound : BOOLEAN] BY <2>1, Zenon DEF PipeInv
  <2>3. QED BY <2>1, <2>2, Zenon DEF PipeInv
<1>10. QED BY <1>2, <1>3, <1>4, <1>5, <1>6, <1>7, <1>8, <1>9, Zenon DEF Threads

\* What a channel is when it has been built, rolled back or torn down.
LEMMA Built ==
    ASSUME NEW s \in Streams, NEW r \in ChanRecord, r.thread = "off"
    PROVE  /\ Init1(r, s) \in ChanRecord /\ Alive(Init1(r, s)) /\ Init1(r, s).made /\ Init1(r, s).thread = "off"
           /\ Rollback(r) \in ChanRecord /\ Alive(Rollback(r)) /\ ~Rollback(r).made /\ Rollback(r).thread = "off"
           /\ (r.made => r.ring # 0) => /\ Deinit1(r) \in ChanRecord /\ Alive(Deinit1(r))
                                        /\ ~Deinit1(r).made /\ Deinit1(r).thread = "off"
<1>1. r.pic \in Pics /\ r.ring \in Nat BY Zenon DEF ChanRecord
<1>2. PICK n : n = IF r.ring = 0 THEN NewRing(s, r.pic) ELSE r.ring BY Zenon
<1>3. n \in Nat /\ n # 0
  <2>1. NewRing(s, r.pic) \in Nat /\ NewRing(s, r.pic) # 0 BY <1>1, RingSizes
  <2>2. QED BY <1>1, <1>2, <2>1, Zenon
<1>17. PICK z : z = IF r.ring = 0 THEN r.pic ELSE r.sized BY Zenon
<1>18. z \in Pics \cup {"none"} BY <1>17, Zenon DEF ChanRecord
<1>4. Init1(r, s) = [r EXCEPT !.made = TRUE, !.fresh = TRUE, !.ring = n, !.sized = z] BY <1>2, <1>17, Zenon DEF Init1
<1>5. PICK i : i = [r EXCEPT !.made = TRUE, !.fresh = TRUE, !.ring = n, !.sized = z] BY Zenon
<1>6. i \in ChanRecord /\ i.made /\ i.fresh /\ i.ring = n /\ i.thread = "off" BY <1>3, <1>5, <1>18, Zenon DEF ChanRecord
<1>7. Alive(i) BY <1>3, <1>6, Zenon DEF Alive
<1>8. PICK b : b = [r EXCEPT !.made = FALSE] BY Zenon
<1>9. b \in ChanRecord /\ ~b.made /\ b.thread = "off" BY <1>8, Zenon DEF ChanRecord
<1>10. Alive(b) BY <1>9, Zenon DEF Alive
<1>11. PICK d : d = [r EXCEPT !.made = FALSE, !.fresh = FALSE] BY Zenon
<1>12. d \in ChanRecord /\ ~d.made /\ d.thread = "off" BY <1>11, Zenon DEF ChanRecord
<1>13. Alive(d) BY <1>12, Zenon DEF Alive
<1>14. ASSUME r.made => r.ring # 0
       PROVE  /\ Deinit1(r) \in ChanRecord /\ Alive(Deinit1(r))
              /\ ~Deinit1(r).made /\ Deinit1(r).thread = "off"
  <2>1. CASE r.ring = 0
    <3>1. Deinit1(r) = r /\ ~r.made BY <1>14, <2>1, Zenon DEF Deinit1
    <3>2. Alive(r) BY <3>1, Zenon DEF Alive
    <3>3. QED BY <3>1, <3>2, Zenon
  <2>2. CASE r.ring # 0
    <3>1. Deinit1(r) = d BY <1>11, <2>2, Zenon DEF Deinit1
    <3>2. QED BY <1>12, <1>13, <3>1, Zenon
  <2>3. QED BY <2>1, <2>2
<1>15. Init1(r, s) = i /\ Rollback(r) = b BY <1>4, <1>5, <1>8, Zenon DEF Rollback
<1>16. QED BY <1>6, <1>7, <1>9, <1>10, <1>14, <1>15, Zenon

LEMMA PlainSteps ==
    ASSUME PipeInv, IvsPause \/ IvsJoin \/ IvsMarkActive \/ FsRemake \/ \E ok \in BOOLEAN : IvsStart(ok)
    PROVE  PipeInv'
<1>1. /\ fs \in [on : BOOLEAN, vbs : {1, 2}, turned : BOOLEAN]
      /\ ivs \in [active : BOOLEAN, thread : BOOLEAN, bound : BOOLEAN]
  BY Zenon DEF PipeInv
<1>2. CASE IvsPause
  <2>1. todo # <<>> /\ Step[1] = "ivspause" /\ Advance /\ UNCHANGED <<enc, fs, readers>> /\ ivs' = [ivs EXCEPT !.active = FALSE]
    BY <1>2, Zenon DEF IvsPause
  <2>2. ivs' \in [active : BOOLEAN, thread : BOOLEAN, bound : BOOLEAN] BY <1>1, <2>1, Zenon
  <2>3. QED BY <1>1, <2>1, <2>2, EncSame, Zenon
<1>3. CASE IvsJoin BY <1>1, <1>3, EncSame, Zenon DEF IvsJoin
<1>4. CASE IvsMarkActive
  <2>1. todo # <<>> /\ Step[1] = "ivsmark" /\ Advance /\ UNCHANGED <<enc, fs, readers>> /\ ivs' = [ivs EXCEPT !.active = TRUE]
    BY <1>4, Zenon DEF IvsMarkActive
  <2>2. ivs' \in [active : BOOLEAN, thread : BOOLEAN, bound : BOOLEAN] BY <1>1, <2>1, Zenon
  <2>3. QED BY <1>1, <2>1, <2>2, EncSame, Zenon
<1>5. CASE FsRemake
  <2>1. todo # <<>> /\ Step[1] = "fsmake" /\ Advance /\ UNCHANGED <<enc, ivs, readers>> /\ fs' = [fs EXCEPT !.turned = FALSE]
    BY <1>5, Zenon DEF FsRemake
  <2>2. fs' \in [on : BOOLEAN, vbs : {1, 2}, turned : BOOLEAN] BY <1>1, <2>1, Zenon
  <2>3. QED BY <1>1, <2>1, <2>2, EncSame, Zenon
<1>6. ASSUME NEW ok \in BOOLEAN, IvsStart(ok) PROVE PipeInv'
  <2>1. /\ todo # <<>> /\ Step[1] = "ivsstart" /\ Advance /\ UNCHANGED <<enc, fs, readers>>
        /\ ivs' = [ivs EXCEPT !.active = ok, !.thread = ok]
    BY <1>6, Zenon DEF IvsStart
  <2>2. ivs' \in [active : BOOLEAN, thread : BOOLEAN, bound : BOOLEAN] BY <1>1, <2>1, Zenon
  <2>3. QED BY <1>1, <2>1, <2>2, EncSame, Zenon
<1>7. QED BY <1>2, <1>3, <1>4, <1>5, <1>6, Zenon

LEMMA StopSteps == ASSUME PipeInv, Quit \/ Join \/ Resize PROVE PipeInv'
<1>1. /\ fs \in [on : BOOLEAN, vbs : {1, 2}, turned : BOOLEAN]
      /\ ivs \in [active : BOOLEAN, thread : BOOLEAN, bound : BOOLEAN]
      /\ enc \in [Streams -> ChanRecord] /\ \A s \in Streams : Alive(enc[s])
      /\ "v" \in Streams /\ (enc["j"].made => enc["v"].made)
  BY Zenon DEF PipeInv, Streams
<1>2. CASE Quit
  <2>1. /\ todo # <<>> /\ Step[1] = "quit" /\ Advance /\ UNCHANGED <<fs, ivs, readers>>
        /\ enc' = [enc EXCEPT ![Step[2]].active = FALSE]
    BY <1>2, Zenon DEF Quit, OnlyEnc
  <2>2. Step[2] \in Streams BY <2>1, StepKnown, Zenon
  <2>3. PICK s \in Streams : s = Step[2] BY <2>2, Zenon
  <2>4. PICK r : r = [enc[s] EXCEPT !.active = FALSE] BY Zenon
  <2>5. enc' = [enc EXCEPT ![s] = r] BY <2>1, <2>3, <2>4, Zenon
  <2>6. /\ r \in ChanRecord /\ r.made = enc[s].made /\ r.thread = enc[s].thread /\ r.ring = enc[s].ring
        /\ r.fresh = enc[s].fresh /\ r.on = enc[s].on
    BY <1>1, <2>4, ZenonT(60) DEF ChanRecord
  <2>7. Alive(r) BY <1>1, <2>6, Zenon DEF Alive
  <2>8. /\ s = "v" /\ enc["j"].made => r.made
        /\ s = "j" /\ r.made => enc["v"].made
        /\ ~enc[s].made => ~r.made
        /\ fs' \in [on : BOOLEAN, vbs : {1, 2}, turned : BOOLEAN] /\ readers' = readers
        /\ ivs' \in [active : BOOLEAN, thread : BOOLEAN, bound : BOOLEAN]
    BY <1>1, <2>1, <2>6, Zenon
  <2>9. QED BY <2>1, <2>3, <2>5, <2>6, <2>7, <2>8, EncOne, ZenonT(60)
<1>3. CASE Join
  <2>1. /\ todo # <<>> /\ Step[1] = "join" /\ Advance /\ UNCHANGED <<ivs, readers>> /\ enc[Step[2]].thread = "off"
        /\ enc' = [enc EXCEPT ![Step[2]].on = FALSE]
        /\ fs' = IF Step[2] = "v" THEN [fs EXCEPT !.on = FALSE] ELSE fs
    BY <1>3, Zenon DEF Join, Joined
  <2>2. Step[2] \in Streams BY <2>1, StepKnown, Zenon
  <2>3. PICK s \in Streams : s = Step[2] BY <2>2, Zenon
  <2>4. PICK r : r = [enc[s] EXCEPT !.on = FALSE] BY Zenon
  <2>5. enc' = [enc EXCEPT ![s] = r] /\ enc[s].thread = "off" BY <2>1, <2>3, <2>4, Zenon
  <2>6. /\ r \in ChanRecord /\ r.made = enc[s].made /\ r.thread = enc[s].thread /\ r.ring = enc[s].ring
        /\ r.fresh = enc[s].fresh
    BY <1>1, <2>4, ZenonT(60) DEF ChanRecord
  <2>7. Alive(r) BY <1>1, <2>5, <2>6, Zenon DEF Alive
  <2>8. fs' \in [on : BOOLEAN, vbs : {1, 2}, turned : BOOLEAN] BY <1>1, <2>1, Zenon
  <2>9. /\ s = "v" /\ enc["j"].made => r.made
        /\ s = "j" /\ r.made => enc["v"].made
        /\ ~enc[s].made => ~r.made
        /\ fs' \in [on : BOOLEAN, vbs : {1, 2}, turned : BOOLEAN] /\ readers' = readers
        /\ ivs' \in [active : BOOLEAN, thread : BOOLEAN, bound : BOOLEAN]
    BY <1>1, <2>1, <2>6, <2>8, Zenon
  <2>10. QED BY <2>1, <2>3, <2>5, <2>6, <2>7, <2>9, EncOne, ZenonT(60)
<1>4. CASE Resize
  <2>1. /\ todo # <<>> /\ Step[1] = "resize" /\ Advance /\ UNCHANGED <<fs, ivs, readers>>
        /\ enc' = [enc EXCEPT !["v"].pic = Step[2], !["v"].swapped = FALSE]
    BY <1>4, Zenon DEF Resize, OnlyEnc
  <2>2. Step[2] \in Pics BY <2>1, StepKnown, Zenon
  <2>3. PICK e \in ChanRecord : e = enc["v"] BY <1>1, Zenon
  <2>9. PICK p \in Pics : p = Step[2] BY <2>2, Zenon
  <2>4. PICK r : r = [e EXCEPT !.pic = p, !.swapped = FALSE] BY Zenon
  <2>5. enc' = [enc EXCEPT !["v"] = r] BY <2>1, <2>3, <2>4, <2>9, Zenon
  <2>6. /\ r \in ChanRecord /\ r.made = enc["v"].made /\ r.thread = enc["v"].thread /\ r.ring = enc["v"].ring
        /\ r.fresh = enc["v"].fresh /\ r.on = enc["v"].on
    <3>1. r \in ChanRecord BY <2>4, Zenon DEF ChanRecord
    <3>2. r.made = e.made /\ r.thread = e.thread /\ r.ring = e.ring /\ r.fresh = e.fresh /\ r.on = e.on
      BY <2>4, Zenon DEF ChanRecord
    <3>3. QED BY <2>3, <3>1, <3>2, Zenon
  <2>7. Alive(r) BY <1>1, <2>6, Zenon DEF Alive
  <2>8. QED BY <1>1, <2>1, <2>5, <2>6, <2>7, EncOne, ZenonT(60)
<1>5. QED BY <1>2, <1>3, <1>4

\* "j" takes the picture of "v" and keeps everything else.
LEMMA Inherited ==
    ASSUME PipeInv, NEW s \in Streams
    PROVE  /\ Inherit(s) \in ChanRecord /\ Inherit(s).made = enc[s].made /\ Inherit(s).thread = enc[s].thread
<1>1. enc \in [Streams -> ChanRecord] /\ "v" \in Streams /\ "j" \in Streams BY Zenon DEF PipeInv, Streams
<1>2. PICK p, w : p = enc["v"].pic /\ w = enc["v"].swapped BY Zenon
<1>3. p \in Pics /\ w \in BOOLEAN BY <1>1, <1>2, Zenon DEF ChanRecord
<1>4. PICK r : r = [enc["j"] EXCEPT !.pic = p, !.swapped = w] BY Zenon
<1>5. r \in ChanRecord /\ r.made = enc["j"].made /\ r.thread = enc["j"].thread
  BY <1>1, <1>3, <1>4, Zenon DEF ChanRecord
<1>6. (s = "j" /\ Inherit(s) = r) \/ Inherit(s) = enc[s] BY <1>2, <1>4, Zenon DEF Inherit
<1>7. QED BY <1>1, <1>5, <1>6, Zenon

LEMMA BuildSteps == ASSUME PipeInv, Deinit \/ InitOk PROVE PipeInv'
<1>1. /\ fs \in [on : BOOLEAN, vbs : {1, 2}, turned : BOOLEAN]
      /\ ivs \in [active : BOOLEAN, thread : BOOLEAN, bound : BOOLEAN]
      /\ enc \in [Streams -> ChanRecord] /\ \A s \in Streams : Alive(enc[s])
      /\ "v" \in Streams /\ (enc["j"].made => enc["v"].made)
  BY Zenon DEF PipeInv, Streams
<1>2. CASE Deinit
  <2>1. /\ todo # <<>> /\ Step[1] = "deinit" /\ Advance /\ UNCHANGED <<fs, readers>>
        /\ enc' = [enc EXCEPT ![Step[2]] = Deinit1(enc[Step[2]])]
        /\ ivs' = IF Step[2] = "v" /\ enc["v"].ring # 0 THEN [ivs EXCEPT !.bound = FALSE] ELSE ivs
    BY <1>2, Zenon DEF Deinit
  <2>2. Step[2] \in Streams BY <2>1, StepKnown, Zenon
  <2>3. PICK s \in Streams : s = Step[2] BY <2>2, Zenon
  <2>4. Touches(Step, s) BY <2>1, <2>3, Zenon DEF Touches
  <2>5. enc[s].thread = "off" /\ (s = "v" => ~enc["j"].made) BY <2>1, <2>4, StepKnown, Zenon
  <2>6. PICK q, r : q = enc[s] /\ r = Deinit1(q) BY Zenon
  <2>7. q \in ChanRecord /\ q.thread = "off" /\ (q.made => q.ring # 0) BY <1>1, <2>5, <2>6, Zenon DEF Alive
  <2>8. r \in ChanRecord /\ Alive(r) /\ ~r.made /\ r.thread = "off" BY <2>6, <2>7, Built, Zenon
  <2>9. enc' = [enc EXCEPT ![s] = r] BY <2>1, <2>3, <2>6, Zenon
  <2>10. ivs' \in [active : BOOLEAN, thread : BOOLEAN, bound : BOOLEAN] BY <1>1, <2>1, Zenon
  <2>11. /\ s = "v" /\ enc["j"].made => r.made
         /\ s = "j" /\ r.made => enc["v"].made
         /\ Step[1] = "join" => r.thread = "off"
         /\ fs' \in [on : BOOLEAN, vbs : {1, 2}, turned : BOOLEAN] /\ readers' = readers
    BY <1>1, <2>1, <2>5, <2>8, Zenon
  <2>12. QED BY <2>1, <2>3, <2>8, <2>9, <2>10, <2>11, EncOne, Zenon
<1>3. CASE InitOk
  <2>1. /\ todo # <<>> /\ Step[1] = "init" /\ Advance /\ UNCHANGED <<fs, readers>>
        /\ (Step[2] = "j" => enc["v"].made)
        /\ enc' = [enc EXCEPT ![Step[2]] = Init1(Inherit(Step[2]), Step[2])]
        /\ ivs' = IF Step[2] = "v" THEN BuildChain(TRUE) ELSE ivs
    BY <1>3, Zenon DEF InitOk
  <2>2. Step[2] \in Streams BY <2>1, StepKnown, Zenon
  <2>3. PICK s \in Streams : s = Step[2] BY <2>2, Zenon
  <2>4. Touches(Step, s) /\ Builds(Step, s) BY <2>1, <2>3, Zenon DEF Touches, Builds
  <2>5. enc[s].thread = "off" BY <2>1, <2>4, StepKnown, Zenon
  <2>6. PICK q, r : q = Inherit(s) /\ r = Init1(q, s) BY Zenon
  <2>7. q \in ChanRecord /\ q.thread = "off" BY <2>5, <2>6, Inherited, Zenon
  <2>8. r \in ChanRecord /\ Alive(r) /\ r.made /\ r.thread = "off" BY <2>6, <2>7, Built, Zenon
  <2>9. enc' = [enc EXCEPT ![s] = r] BY <2>1, <2>3, <2>6, Zenon
  <2>10. ivs' \in [active : BOOLEAN, thread : BOOLEAN, bound : BOOLEAN] BY <1>1, <2>1, Zenon DEF BuildChain
  <2>11. QED BY <1>1, <2>1, <2>3, <2>4, <2>8, <2>9, <2>10, EncOne, ZenonT(60)
<1>4. QED BY <1>2, <1>3

LEMMA StartStep == ASSUME PipeInv, NEW ok \in BOOLEAN, Start(ok) PROVE PipeInv'
<1>1. /\ fs \in [on : BOOLEAN, vbs : {1, 2}, turned : BOOLEAN]
      /\ ivs \in [active : BOOLEAN, thread : BOOLEAN, bound : BOOLEAN]
      /\ enc \in [Streams -> ChanRecord] /\ \A s \in Streams : Alive(enc[s])
      /\ "v" \in Streams /\ (enc["j"].made => enc["v"].made)
  BY Zenon DEF PipeInv, Streams
<1>2. /\ todo # <<>> /\ Step[1] = "start" /\ Advance /\ UNCHANGED <<ivs, readers>>
      /\ (Step[2] = "v" /\ ok => enc["v"].made)
      /\ \E left \in BOOLEAN : fs' = IF Step[2] = "v" THEN [fs EXCEPT !.on = ok \/ left] ELSE fs
      /\ enc' = IF ~ok THEN enc
                ELSE [enc EXCEPT ![Step[2]].active = TRUE, ![Step[2]].thread = "top", ![Step[2]].on = (Step[2] = "v")]
  BY Zenon DEF Start
<1>3. Step[2] \in Streams BY <1>2, StepKnown, Zenon
<1>4. PICK s \in Streams : s = Step[2] BY <1>3, Zenon
<1>5. PICK left \in BOOLEAN : fs' = IF s = "v" THEN [fs EXCEPT !.on = ok \/ left] ELSE fs BY <1>2, <1>4, Zenon
<1>6. fs' \in [on : BOOLEAN, vbs : {1, 2}, turned : BOOLEAN] BY <1>1, <1>5, Zenon
<1>7. CASE ~ok BY <1>1, <1>2, <1>6, <1>7, EncSame, Zenon
<1>8. CASE ok
  <2>1. PICK r : r = [enc[s] EXCEPT !.active = TRUE, !.thread = "top", !.on = (s = "v")] BY Zenon
  <2>2. enc' = [enc EXCEPT ![s] = r] BY <1>2, <1>4, <1>8, <2>1, Zenon
  <2>3. /\ r \in ChanRecord /\ r.made = enc[s].made /\ r.thread = "top" /\ r.ring = enc[s].ring
        /\ r.fresh = enc[s].fresh /\ (r.on => s = "v")
    BY <1>1, <2>1, ZenonT(60) DEF ChanRecord
  <2>4. r.on => r.made BY <1>2, <1>4, <1>8, <2>3, Zenon
  <2>5. Alive(r) BY <1>1, <2>3, <2>4, Zenon DEF Alive
  <2>6. Does(Step, "start", s) BY <1>2, <1>4, Zenon DEF Does
  <2>7. QED BY <1>1, <1>2, <1>6, <2>2, <2>3, <2>5, <2>6, EncOne, ZenonT(60)
<1>9. QED BY <1>7, <1>8

LEMMA DestroyStep == ASSUME PipeInv, RingsDestroyed PROVE PipeInv'
<1>1. /\ enc \in [Streams -> ChanRecord] /\ (\A s \in Streams : Alive(enc[s])) /\ CmdTyped(cmd)
      /\ "v" \in Streams /\ "j" \in Streams
  BY Zenon DEF PipeInv, Streams
<1>2. /\ todo # <<>> /\ Step[1] = "destroy" /\ Advance /\ UNCHANGED <<fs, ivs, readers>>
      /\ enc' = [s \in Streams |-> [enc[s] EXCEPT !.ring = 0]]
  BY Zenon DEF RingsDestroyed, OnlyEnc
<1>3. ~enc["j"].made /\ ~enc["v"].made BY <1>2, StepKnown, Zenon DEF Wipes
<1>4. \A s \in Streams : ~enc[s].made BY <1>3, Zenon DEF Streams
<1>5. 0 \in Nat OBVIOUS
<1>6. ASSUME NEW s \in Streams
      PROVE  /\ enc'[s] \in ChanRecord /\ enc'[s].made = enc[s].made /\ enc'[s].thread = enc[s].thread
             /\ enc'[s].on = enc[s].on
  <2>1. enc'[s] = [enc[s] EXCEPT !.ring = 0] BY <1>2, Zenon
  <2>2. QED BY <1>1, <1>5, <2>1, Zenon DEF ChanRecord
<1>7. \A s \in Streams : Alive(enc'[s]) BY <1>1, <1>4, <1>6, Zenon DEF Alive
<1>8. enc' \in [Streams -> ChanRecord] BY <1>2, <1>6, Zenon
<1>9. \A s \in Streams : s \in Off(enc) => s \in Off(enc') BY <1>6, Zenon DEF Off
<1>10. \A s \in Streams : s \in Unmade(enc) => s \in Unmade(enc') BY <1>6, Zenon DEF Unmade
<1>11. \A s \in Streams : ~Does(Step, "join", s) /\ ~Does(Step, "deinit", s) BY <1>2, Zenon DEF Does
<1>12. Sound(todo', Off(enc'), Unmade(enc')) /\ CmdTyped(cmd') BY <1>2, <1>9, <1>10, <1>11, Advanced, Zenon
<1>13. ~enc'["j"].made BY <1>1, <1>3, <1>6, Zenon
<1>14. QED BY <1>2, <1>7, <1>8, <1>12, <1>13, Zenon DEF PipeInv

\* A failed build goes on with what its handler does next.
LEMMA OnwardStep ==
    ASSUME PipeInv, NEW s \in Streams, NEW r \in ChanRecord, Alive(r), enc' = [enc EXCEPT ![s] = r],
           s = "v" /\ enc["j"].made => r.made, s = "j" /\ r.made => enc["v"].made,
           NEW t, todo' = t, NEW off, NEW un, Sound(t, off, un), off \subseteq Off(enc'), un \subseteq Unmade(enc'),
           CmdTyped(cmd'), fs' = fs, readers' = readers,
           ivs' \in [active : BOOLEAN, thread : BOOLEAN, bound : BOOLEAN]
    PROVE  PipeInv'
<1>1. /\ enc' \in [Streams -> ChanRecord]
      /\ \A o \in Streams : Alive(enc'[o])
      /\ enc'["j"].made => enc'["v"].made
  BY ChanStep, Zenon
<1>2. PICK off2, un2 : off2 = Off(enc') /\ un2 = Unmade(enc') BY Zenon
<1>3. (\A o \in Streams : o \in off => o \in off2) /\ (\A o \in Streams : o \in un => o \in un2) BY <1>2, Zenon
<1>4. Sound(t, off2, un2) BY <1>3, SoundMore
<1>5. Sound(todo', Off(enc'), Unmade(enc')) BY <1>2, <1>4, Zenon
<1>6. QED BY <1>1, <1>5, Zenon DEF PipeInv

LEMMA VideoFailsStep ==
    ASSUME PipeInv, todo # <<>>, Step[1] = "init", Step[2] = "v", AfterVideoFails PROVE PipeInv'
<1>1. /\ ivs \in [active : BOOLEAN, thread : BOOLEAN, bound : BOOLEAN]
      /\ enc \in [Streams -> ChanRecord] /\ CmdTyped(cmd) /\ "v" \in Streams /\ "j" \in Streams
  BY Zenon DEF PipeInv, Streams
<1>2. Touches(Step, "v") BY Zenon DEF Touches
<1>3. enc["v"].thread = "off" /\ ~enc["j"].made BY <1>1, <1>2, StepKnown, Zenon
<1>4. PICK p : p = IF cmd.old = "none" THEN enc["v"].pic ELSE cmd.old BY Zenon
<1>5. p \in Pics BY <1>1, <1>4, Zenon DEF CmdTyped, ChanRecord
<1>6. PICK r : r = [enc["v"] EXCEPT !.made = FALSE, !.pic = p] BY Zenon
<1>7. r \in ChanRecord /\ ~r.made /\ r.thread = "off" BY <1>1, <1>3, <1>5, <1>6, Zenon DEF ChanRecord
<1>8. Alive(r) BY <1>7, Zenon DEF Alive
<1>9. /\ todo' = CASE cmd.kind = "resolution" -> << <<"reinit", "v">> >>
                   [] cmd.kind = "osd" -> IvsUp(cmd.hasIvs)
                   [] OTHER -> <<>>
      /\ cmd' = IF todo' = <<>> THEN NoCommand ELSE cmd
      /\ enc' = [enc EXCEPT !["v"] = [Rollback(enc["v"]) EXCEPT !.pic = IF cmd.old = "none" THEN enc["v"].pic ELSE cmd.old]]
      /\ ivs' = IF cmd.hasIvs /\ cmd.kind \notin {"osd", "resolution"} THEN [ivs EXCEPT !.active = FALSE] ELSE ivs
      /\ fs' = fs /\ readers' = readers
  BY Zenon DEF AfterVideoFails
<1>10. [Rollback(enc["v"]) EXCEPT !.pic = IF cmd.old = "none" THEN enc["v"].pic ELSE cmd.old] = r
  BY <1>1, <1>4, <1>6, Zenon DEF Rollback
<1>11. enc' = [enc EXCEPT !["v"] = r] BY <1>9, <1>10, Zenon
<1>12. ivs' \in [active : BOOLEAN, thread : BOOLEAN, bound : BOOLEAN] BY <1>1, <1>9, Zenon
<1>13. CmdTyped(cmd')
  <2>1. NoCommand.hasIvs = FALSE /\ NoCommand.old = "none" BY DEF NoCommand
  <2>2. CmdTyped(NoCommand) BY <2>1, Zenon DEF CmdTyped
  <2>3. QED BY <1>1, <1>9, <2>2, Zenon
<1>14. {"v"} \subseteq Off(enc') /\ {"j"} \subseteq Unmade(enc')
  <2>1. enc'["v"] = r /\ enc'["j"] = enc["j"] BY <1>1, <1>11, Zenon
  <2>2. QED BY <1>1, <1>3, <1>7, <2>1, Zenon DEF Off, Unmade
<1>15. PICK h \in BOOLEAN : h = cmd.hasIvs BY <1>1, Zenon DEF CmdTyped
<1>16. /\ Sound(<< <<"reinit", "v">> >>, {"v"}, {"j"})
       /\ Sound(IvsUp(h), {"v"}, {"j"}) /\ Sound(<<>>, {"v"}, {"j"})
  BY <1>1, BuildPieces, CalmPieces, CalmSound
<1>17. todo' = << <<"reinit", "v">> >> \/ todo' = IvsUp(h) \/ todo' = <<>> BY <1>9, <1>15, SMT
<1>18. PICK t : todo' = t /\ Sound(t, {"v"}, {"j"}) BY <1>16, <1>17, Zenon
<1>19. "v" = "v" /\ enc["j"].made => r.made BY <1>3
<1>20. PICK off, un : off = {"v"} /\ un = {"j"} BY Zenon
<1>21. Sound(t, off, un) /\ off \subseteq Off(enc') /\ un \subseteq Unmade(enc') BY <1>14, <1>18, <1>20, Zenon
<1>22. "v" # "j" OBVIOUS
<1>23. QED BY <1>1, <1>7, <1>8, <1>9, <1>11, <1>12, <1>13, <1>18, <1>19, <1>21, <1>22, OnwardStep, Zenon

LEMMA SnapFailsStep ==
    ASSUME PipeInv, todo # <<>>, Step[1] = "init", Step[2] = "j", AfterSnapFails PROVE PipeInv'
<1>1. /\ ivs \in [active : BOOLEAN, thread : BOOLEAN, bound : BOOLEAN]
      /\ enc \in [Streams -> ChanRecord] /\ CmdTyped(cmd) /\ "v" \in Streams /\ "j" \in Streams
      /\ Sound(todo, Off(enc), Unmade(enc))
  BY Zenon DEF PipeInv, Streams
<1>2. Touches(Step, "j") /\ Builds(Step, "j") BY Zenon DEF Touches, Builds
<1>3. enc["j"].thread = "off" BY <1>1, <1>2, StepKnown, Zenon
<1>4. PICK q, r : q = Inherit("j") /\ r = Rollback(q) BY Zenon
<1>5. q \in ChanRecord /\ q.thread = "off" BY <1>1, <1>3, <1>4, Inherited, Zenon
<1>6. r \in ChanRecord /\ Alive(r) /\ ~r.made /\ r.thread = "off" BY <1>1, <1>4, <1>5, Built, Zenon
<1>7. /\ todo' = IF cmd.kind = "quality" THEN << <<"reinit", "j">> >>
                 ELSE IF cmd.kind = "osd" \/ enc["j"].ring = 0
                      THEN << <<"start", "v">> >> \o IvsUp(cmd.hasIvs)
                      ELSE Tail(todo)
      /\ enc' = [enc EXCEPT !["j"] = r] /\ UNCHANGED <<cmd, fs, ivs, readers>>
  BY <1>4, Zenon DEF AfterSnapFails
<1>8. enc'["j"] = r /\ enc'["v"] = enc["v"] BY <1>1, <1>7, Zenon
<1>9. PICK h \in BOOLEAN : h = cmd.hasIvs BY <1>1, Zenon DEF CmdTyped
<1>10. {"j"} \subseteq Off(enc') /\ {"j"} \subseteq Unmade(enc') BY <1>1, <1>6, <1>8, Zenon DEF Off, Unmade
<1>11. CASE todo' = << <<"reinit", "j">> >>
  <2>1. Sound(<< <<"reinit", "j">> >>, {"j"}, {"j"}) BY <1>1, BuildPieces, Zenon
  <2>2. PICK t, off, un : t = << <<"reinit", "j">> >> /\ off = {"j"} /\ un = {"j"} BY Zenon
  <2>3. Sound(t, off, un) /\ off \subseteq Off(enc') /\ un \subseteq Unmade(enc') /\ todo' = t
    BY <1>10, <1>11, <2>1, <2>2, Zenon
  <2>4. CmdTyped(cmd') BY <1>1, <1>7, Zenon
  <2>5. QED BY <1>1, <1>6, <1>7, <2>3, <2>4, OnwardStep, Zenon
<1>12. CASE todo' = << <<"start", "v">> >> \o IvsUp(h)
  <2>1. Calm(<< <<"start", "v">> >> \o IvsUp(h)) BY <1>1, CalmPieces, CalmCat, Zenon
  <2>2. Sound(<< <<"start", "v">> >> \o IvsUp(h), {"j"}, {"j"}) BY <2>1, CalmSound, Zenon
  <2>3. PICK t, off, un : t = << <<"start", "v">> >> \o IvsUp(h) /\ off = {"j"} /\ un = {"j"} BY Zenon
  <2>4. Sound(t, off, un) /\ off \subseteq Off(enc') /\ un \subseteq Unmade(enc') /\ todo' = t
    BY <1>10, <1>12, <2>2, <2>3, Zenon
  <2>5. CmdTyped(cmd') BY <1>1, <1>7, Zenon
  <2>6. QED BY <1>1, <1>6, <1>7, <2>4, <2>5, OnwardStep, Zenon
<1>13. CASE todo' = Tail(todo)
  <2>1. PICK t, off, un, off2, un2 :
          t = todo /\ off = Off(enc) /\ un = Unmade(enc) /\ off2 = Off(enc') /\ un2 = Unmade(enc')
    BY Zenon
  <2>2. todo[1] = Step BY <1>1 DEF Sound, Step
  <2>3. \A o \in Streams : o \in Off(enc) => o \in Off(enc') BY <1>6, <1>8, Zenon DEF Off, Streams
  <2>4. \A o \in Streams : o \in Unmade(enc) => o \in Unmade(enc') BY <1>6, <1>8, Zenon DEF Unmade, Streams
  <2>5. \A o \in Streams : ~Does(Step, "join", o) /\ ~Does(Step, "deinit", o) BY Zenon DEF Does
  <2>6. Sound(Tail(t), off2, un2) BY <1>1, <2>1, <2>2, <2>3, <2>4, <2>5, SoundTail, Zenon
  <2>7. off2 \subseteq Off(enc') /\ un2 \subseteq Unmade(enc') /\ todo' = Tail(t) BY <1>13, <2>1, Zenon
  <2>8. QED BY <1>1, <1>6, <1>7, <2>6, <2>7, OnwardStep, Zenon
<1>14. QED BY <1>7, <1>9, <1>11, <1>12, <1>13, Zenon

LEMMA ReinitStep == ASSUME PipeInv, NEW ok \in BOOLEAN, Reinit(ok) PROVE PipeInv'
<1>1. /\ ivs \in [active : BOOLEAN, thread : BOOLEAN, bound : BOOLEAN]
      /\ enc \in [Streams -> ChanRecord] /\ CmdTyped(cmd) /\ "v" \in Streams /\ "j" \in Streams
  BY Zenon DEF PipeInv, Streams
<1>2. /\ todo # <<>> /\ Step[1] = "reinit" /\ (Step[2] = "j" /\ ok => enc["v"].made)
      /\ enc' = [enc EXCEPT ![Step[2]] = IF ok THEN Init1(enc[Step[2]], Step[2]) ELSE Rollback(enc[Step[2]])]
      /\ ivs' = IF Step[2] = "j" THEN ivs
                ELSE IF ok THEN BuildChain(TRUE)
                ELSE IF cmd.hasIvs THEN [ivs EXCEPT !.active = FALSE] ELSE ivs
      /\ todo' = IF ~ok THEN <<>>
                 ELSE << <<"start", Step[2]>> >> \o (IF Step[2] = "v" THEN IvsUp(cmd.hasIvs) ELSE <<>>)
      /\ cmd' = IF todo' = <<>> THEN NoCommand ELSE cmd
      /\ fs' = fs /\ readers' = readers
  BY Zenon DEF Reinit
<1>3. Step[2] \in Streams BY <1>2, StepKnown, Zenon
<1>4. PICK s \in Streams : s = Step[2] BY <1>3, Zenon
<1>5. Touches(Step, s) BY <1>2, <1>4, Zenon DEF Touches
<1>6. enc[s].thread = "off" /\ (s = "v" => ~enc["j"].made) BY <1>2, <1>5, StepKnown, Zenon
<1>7. PICK q, r : q = enc[s] /\ r = IF ok THEN Init1(q, s) ELSE Rollback(q) BY Zenon
<1>8. q \in ChanRecord /\ q.thread = "off" BY <1>1, <1>6, <1>7, Zenon
<1>9. r \in ChanRecord /\ Alive(r) /\ (r.made => ok) BY <1>7, <1>8, Built, Zenon
<1>10. enc' = [enc EXCEPT ![s] = r] BY <1>2, <1>4, <1>7, Zenon
<1>11. ivs' \in [active : BOOLEAN, thread : BOOLEAN, bound : BOOLEAN] BY <1>1, <1>2, Zenon DEF BuildChain
<1>12. CmdTyped(cmd')
  <2>1. NoCommand.hasIvs = FALSE /\ NoCommand.old = "none" BY DEF NoCommand
  <2>2. CmdTyped(NoCommand) BY <2>1, Zenon DEF CmdTyped
  <2>3. QED BY <1>1, <1>2, <2>2, Zenon
<1>13. PICK h \in BOOLEAN : h = cmd.hasIvs BY <1>1, Zenon DEF CmdTyped
<1>14. PICK c : c = IF s = "v" THEN IvsUp(h) ELSE <<>> BY Zenon
<1>15. Calm(c) BY <1>14, CalmPieces, Zenon
<1>16. PICK t : t = IF ~ok THEN <<>> ELSE << <<"start", s>> >> \o c BY Zenon
<1>17. Calm(t)
  <2>1. Calm(<< <<"start", s>> >> \o c) BY <1>15, CalmPieces, CalmCat, Zenon
  <2>2. QED BY <1>16, <2>1, CalmPieces, Zenon
<1>18. todo' = t BY <1>2, <1>4, <1>13, <1>14, <1>16, Zenon
<1>19. PICK off, un : off = {} /\ un = {} BY Zenon
<1>20. Sound(t, off, un) BY <1>17, CalmSound, Zenon
<1>21. off \subseteq Off(enc') /\ un \subseteq Unmade(enc') BY <1>19, Zenon
<1>22. (s = "v" /\ enc["j"].made => r.made) /\ (s = "j" /\ r.made => enc["v"].made)
  BY <1>2, <1>4, <1>6, <1>9, Zenon
<1>23. QED BY <1>2, <1>9, <1>10, <1>11, <1>12, <1>18, <1>20, <1>21, <1>22, OnwardStep, Zenon

LEMMA PipeStep == ASSUME PipeInv, PNext \/ UNCHANGED pvars PROVE PipeInv'
<1>1. CASE UNCHANGED pvars BY <1>1, Zenon DEF PipeInv, pvars
<1>2. CASE Control
  <2>1. CASE InitFails
    <3>1. todo # <<>> /\ Step[1] = "init" /\ IF Step[2] = "v" THEN AfterVideoFails ELSE AfterSnapFails
      BY <2>1, Zenon DEF InitFails
    <3>2. Step[2] = "v" \/ Step[2] = "j" BY <3>1, StepKnown, Zenon DEF Streams
    <3>3. "v" # "j" OBVIOUS
    <3>4. QED BY <3>1, <3>2, <3>3, VideoFailsStep, SnapFailsStep, Zenon
  <2>2. QED BY <1>2, <2>1, PlainSteps, StopSteps, BuildSteps, DestroyStep, StartStep, ReinitStep, Zenon DEF Control
<1>3. QED BY <1>1, <1>2, CommandSteps, ThreadSteps, Zenon DEF PNext

LEMMA PipeStart == ASSUME PInit PROVE PipeInv
<1>1. /\ enc = [s \in Streams |-> Init1([Stopped EXCEPT !.pic = BootPic, !.swapped = Turned], s)]
      /\ fs = [on |-> FALSE, vbs |-> 2, turned |-> Turned]
      /\ ivs = [active |-> TRUE, thread |-> TRUE, bound |-> TRUE]
      /\ todo = StartPair /\ cmd = [NoCommand EXCEPT !.kind = "boot"]
      /\ readers = "none"
  BY Zenon DEF PInit
<1>2. BootPic \in Pics /\ Turned \in BOOLEAN /\ 0 \in Nat BY RvdPipelineConstants
<1>3. PICK q : q = [Stopped EXCEPT !.pic = BootPic, !.swapped = Turned] BY Zenon
<1>4. q \in ChanRecord /\ q.thread = "off"
  <2>1. q = [made |-> FALSE, on |-> FALSE, active |-> FALSE, thread |-> "off", ring |-> 0, sized |-> "none",
             pic |-> BootPic, swapped |-> Turned, fresh |-> FALSE, seen |-> FALSE]
    BY <1>3, Zenon DEF Stopped
  <2>2. QED BY <1>2, <2>1, Zenon DEF ChanRecord
<1>5. \A s \in Streams : /\ enc[s] = Init1(q, s) /\ enc[s] \in ChanRecord /\ Alive(enc[s])
                         /\ enc[s].made
  BY <1>1, <1>3, <1>4, Built, Zenon
<1>6. enc \in [Streams -> ChanRecord] BY <1>1, <1>5, Zenon
<1>7. enc["v"].made BY <1>5, Zenon DEF Streams
<1>8. fs \in [on : BOOLEAN, vbs : {1, 2}, turned : BOOLEAN] BY <1>1, <1>2, Zenon
<1>9. ivs \in [active : BOOLEAN, thread : BOOLEAN, bound : BOOLEAN] BY <1>1, Zenon
<1>10. cmd.hasIvs = FALSE /\ cmd.old = "none" BY <1>1, SMT DEF NoCommand
<1>11. CmdTyped(cmd) BY <1>10, Zenon DEF CmdTyped
<1>12. PICK off, un : off = Off(enc) /\ un = Unmade(enc) BY Zenon
<1>13. Sound(StartPair, off, un) BY CalmPieces, CalmSound, Zenon
<1>14. QED BY <1>1, <1>5, <1>6, <1>7, <1>8, <1>9, <1>11, <1>12, <1>13, Zenon DEF PipeInv

LEMMA PipeHolds == ASSUME PipeInv PROVE ChannelsHeld /\ RingDescribes /\ PTypeOK
<1>1. ChannelsHeld /\ RingDescribes
  <2>1. \A s \in Streams : enc[s].thread = "poll" => enc[s].made /\ enc[s].fresh
    <3>1. SUFFICES ASSUME NEW s \in Streams, enc[s].thread = "poll" PROVE enc[s].made /\ enc[s].fresh OBVIOUS
    <3>2. Alive(enc[s]) BY Zenon DEF PipeInv
    <3>3. "poll" # "off" OBVIOUS
    <3>4. QED BY <3>1, <3>2, <3>3, Zenon DEF Alive
  <2>2. QED BY <2>1, Zenon DEF ChannelsHeld, RingDescribes, PipeInv
<1>3. todo \in Seq(StepSet) BY Zenon DEF PipeInv, Sound
<1>4. PICK T : T = {"quit", "join", "deinit", "init", "reinit", "start", "resize",
                    "fsmake", "destroy", "ivspause", "ivsjoin", "ivsmark", "ivsstart", "v", "j"} \cup Pics
  BY Zenon
<1>5. ASSUME NEW x \in StepSet PROVE x \in Seq(T)
  <2>1. x = <<x[1], x[2]>> BY DEF StepSet
  <2>2. /\ x[1] \in {"quit", "join", "deinit", "init", "reinit", "start", "resize",
                    "fsmake", "destroy", "ivspause", "ivsjoin", "ivsmark", "ivsstart"}
        /\ x[2] \in Streams \/ x[2] = "v" \/ x[2] \in Pics
    BY DEF StepSet
  <2>3. x[1] \in T /\ x[2] \in T BY <1>4, <2>2, Zenon DEF Streams
  <2>4. \A a \in T, b \in T : <<a, b>> \in Seq(T) OBVIOUS
  <2>5. QED BY <2>1, <2>3, <2>4, Zenon
<1>6. todo \in Seq(Seq(T)) BY <1>3, <1>5
<1>7. QED BY <1>1, <1>4, <1>6, Zenon DEF PTypeOK, PipeInv, ChanRecord

\* A ring keeps the size it was created with, and that was chosen for the
\* picture of that moment.
RingKept(r, s) == r.ring = 0 \/ (r.sized \in Pics /\ r.ring = NewRing(s, r.sized))

PipeRings == \A s \in Streams : RingKept(enc[s], s)

LEMMA RingsBuilt ==
    ASSUME NEW s \in Streams, NEW r \in ChanRecord, RingKept(r, s)
    PROVE  RingKept(Init1(r, s), s) /\ RingKept(Rollback(r), s) /\ RingKept(Deinit1(r), s)
<1>1. r.pic \in Pics BY Zenon DEF ChanRecord
<1>2. PICK n, z : n = (IF r.ring = 0 THEN NewRing(s, r.pic) ELSE r.ring) /\ z = IF r.ring = 0 THEN r.pic ELSE r.sized
  BY Zenon
<1>3. z \in Pics /\ n = NewRing(s, z) BY <1>1, <1>2, Zenon DEF RingKept
<1>4. PICK i, o, d : /\ i = [r EXCEPT !.made = TRUE, !.fresh = TRUE, !.ring = n, !.sized = z]
                     /\ o = [r EXCEPT !.made = FALSE] /\ d = [r EXCEPT !.made = FALSE, !.fresh = FALSE]
  BY Zenon
<1>5. i.ring = n /\ i.sized = z BY <1>4, Zenon DEF ChanRecord
<1>6. o.ring = r.ring /\ o.sized = r.sized /\ d.ring = r.ring /\ d.sized = r.sized BY <1>4, Zenon DEF ChanRecord
<1>7. RingKept(i, s) /\ RingKept(o, s) /\ RingKept(d, s) BY <1>3, <1>5, <1>6, Zenon DEF RingKept
<1>8. Init1(r, s) = i /\ Rollback(r) = o BY <1>2, <1>4, Zenon DEF Init1, Rollback
<1>9. Deinit1(r) = r \/ Deinit1(r) = d BY <1>4, Zenon DEF Deinit1
<1>10. QED BY <1>7, <1>8, <1>9, Zenon

\* One channel takes a record whose ring and size are right.
LEMMA RingsOne ==
    ASSUME PipeInv, PipeRings, NEW s \in Streams, NEW r, RingKept(r, s), enc' = [enc EXCEPT ![s] = r]
    PROVE  PipeRings'
<1>1. \A o \in Streams : enc'[o] = IF o = s THEN r ELSE enc[o] BY Zenon DEF PipeInv
<1>2. SUFFICES ASSUME NEW o \in Streams PROVE RingKept(enc'[o], o) BY Zenon DEF PipeRings, RingKept
<1>3. QED BY <1>1, Zenon DEF PipeRings

LEMMA RingsSame ==
    ASSUME PipeInv, PipeRings, NEW s \in Streams, NEW r, r.ring = enc[s].ring, r.sized = enc[s].sized,
           enc' = [enc EXCEPT ![s] = r]
    PROVE  PipeRings'
<1>1. RingKept(r, s) BY Zenon DEF PipeRings, RingKept
<1>2. QED BY <1>1, RingsOne, Zenon

LEMMA RingsThreads == ASSUME PipeInv, PipeRings, Threads PROVE PipeRings'
<1>1. enc \in [Streams -> ChanRecord] /\ "j" \in Streams BY Zenon DEF PipeInv, Streams
<1>2. ASSUME NEW s \in Streams, Leave(s) \/ EnterPoll(s) \/ PollTimeout(s) PROVE PipeRings'
  <2>1. PICK t : enc' = [enc EXCEPT ![s].thread = t] BY <1>2, Zenon DEF Leave, EnterPoll, PollTimeout
  <2>2. PICK r : r = [enc[s] EXCEPT !.thread = t] BY Zenon
  <2>3. r.ring = enc[s].ring /\ r.sized = enc[s].sized BY <1>1, <2>2, Zenon DEF ChanRecord
  <2>4. QED BY <2>1, <2>2, <2>3, RingsSame, Zenon
<1>3. ASSUME NEW s \in Streams, PollFrame(s) PROVE PipeRings'
  <2>1. enc' = [enc EXCEPT ![s].thread = "top", ![s].seen = (s = "v"), ![s].on = @ /\ ~(s = "j" /\ Pulse)]
    BY <1>3, Zenon DEF PollFrame
  <2>2. PICK r : r = [enc[s] EXCEPT !.thread = "top", !.seen = (s = "v"), !.on = enc[s].on /\ ~(s = "j" /\ Pulse)] BY Zenon
  <2>3. r.ring = enc[s].ring /\ r.sized = enc[s].sized BY <1>1, <2>2, Zenon DEF ChanRecord
  <2>4. enc' = [enc EXCEPT ![s] = r] BY <2>1, <2>2, Zenon
  <2>5. QED BY <2>3, <2>4, RingsSame, Zenon
<1>4. CASE SnapIdle
  <2>1. enc' = [enc EXCEPT !["j"].on = FALSE] BY <1>4, Zenon DEF SnapIdle
  <2>2. PICK r : r = [enc["j"] EXCEPT !.on = FALSE] BY Zenon
  <2>3. r.ring = enc["j"].ring /\ r.sized = enc["j"].sized BY <1>1, <2>2, Zenon DEF ChanRecord
  <2>4. QED BY <1>1, <2>1, <2>2, <2>3, RingsSame, Zenon
<1>5. CASE SnapStart
  <2>1. enc' = [enc EXCEPT !["j"].on = TRUE, !["j"].thread = "poll"] BY <1>5, Zenon DEF SnapStart
  <2>2. PICK r : r = [enc["j"] EXCEPT !.on = TRUE, !.thread = "poll"] BY Zenon
  <2>3. r.ring = enc["j"].ring /\ r.sized = enc["j"].sized BY <1>1, <2>2, Zenon DEF ChanRecord
  <2>4. QED BY <1>1, <2>1, <2>2, <2>3, RingsSame, Zenon
<1>6. CASE enc' = enc BY <1>6, Zenon DEF PipeRings
<1>7. QED BY <1>2, <1>3, <1>4, <1>5, <1>6, Zenon DEF Threads, Reap, IvsThread

LEMMA RingsInherited == ASSUME PipeInv, PipeRings, NEW s \in Streams PROVE RingKept(Inherit(s), s)
<1>1. enc \in [Streams -> ChanRecord] /\ "j" \in Streams BY Zenon DEF PipeInv, Streams
<1>2. PICK r : r = [enc["j"] EXCEPT !.pic = enc["v"].pic, !.swapped = enc["v"].swapped] BY Zenon
<1>3. r.ring = enc["j"].ring /\ r.sized = enc["j"].sized BY <1>1, <1>2, Zenon DEF ChanRecord
<1>4. RingKept(r, "j") BY <1>1, <1>3, Zenon DEF PipeRings, RingKept
<1>5. Inherit(s) = enc[s] \/ (s = "j" /\ Inherit(s) = r) BY <1>2, Zenon DEF Inherit
<1>6. QED BY <1>4, <1>5, Zenon DEF PipeRings

LEMMA RingsControl == ASSUME PipeInv, PipeRings, Control PROVE PipeRings'
<1>1. enc \in [Streams -> ChanRecord] /\ "j" \in Streams /\ "v" \in Streams BY Zenon DEF PipeInv, Streams
<1>2. CASE enc' = enc BY <1>2, Zenon DEF PipeRings
<1>3. CASE Quit
  <2>1. PICK s \in Streams : s = Step[2] BY <1>3, StepKnown, Zenon DEF Quit
  <2>2. PICK r : r = [enc[s] EXCEPT !.active = FALSE] BY Zenon
  <2>3. r.ring = enc[s].ring /\ r.sized = enc[s].sized BY <1>1, <2>2, Zenon DEF ChanRecord
  <2>4. QED BY <1>3, <2>1, <2>2, <2>3, RingsSame, Zenon DEF Quit
<1>4. CASE Join
  <2>1. PICK s \in Streams : s = Step[2] BY <1>4, StepKnown, Zenon DEF Join
  <2>2. PICK r : r = [enc[s] EXCEPT !.on = FALSE] BY Zenon
  <2>3. r.ring = enc[s].ring /\ r.sized = enc[s].sized BY <1>1, <2>2, Zenon DEF ChanRecord
  <2>4. QED BY <1>4, <2>1, <2>2, <2>3, RingsSame, Zenon DEF Join
<1>5. CASE Resize
  <2>1. enc' = [enc EXCEPT !["v"].pic = Step[2], !["v"].swapped = FALSE] BY <1>5, Zenon DEF Resize
  <2>2. PICK r : r = [enc["v"] EXCEPT !.pic = Step[2], !.swapped = FALSE] BY Zenon
  <2>3. r.ring = enc["v"].ring /\ r.sized = enc["v"].sized BY <1>1, <2>2, Zenon DEF ChanRecord
  <2>4. QED BY <1>1, <2>1, <2>2, <2>3, RingsSame, Zenon
<1>6. CASE Deinit
  <2>1. PICK s \in Streams : s = Step[2] BY <1>6, StepKnown, Zenon DEF Deinit
  <2>2. PICK r : r = Deinit1(enc[s]) BY Zenon
  <2>3. RingKept(r, s) BY <1>1, <2>2, RingsBuilt, Zenon DEF PipeRings
  <2>4. QED BY <1>6, <2>1, <2>2, <2>3, RingsOne, Zenon DEF Deinit
<1>7. CASE InitOk
  <2>1. PICK s \in Streams : s = Step[2] BY <1>7, StepKnown, Zenon DEF InitOk
  <2>2. PICK q, r : q = Inherit(s) /\ r = Init1(q, s) BY Zenon
  <2>3. q \in ChanRecord /\ RingKept(q, s) BY <2>2, Inherited, RingsInherited, Zenon
  <2>4. RingKept(r, s) BY <2>2, <2>3, RingsBuilt, Zenon
  <2>5. QED BY <1>7, <2>1, <2>2, <2>4, RingsOne, Zenon DEF InitOk
<1>8. CASE RingsDestroyed
  <2>1. enc' = [s \in Streams |-> [enc[s] EXCEPT !.ring = 0]] BY <1>8, Zenon DEF RingsDestroyed
  <2>2. ASSUME NEW s \in Streams PROVE RingKept(enc'[s], s)
    <3>1. PICK r : r = [enc[s] EXCEPT !.ring = 0] BY Zenon
    <3>2. enc'[s] = r /\ r.ring = 0 BY <1>1, <2>1, <3>1, Zenon DEF ChanRecord
    <3>3. QED BY <3>2, Zenon DEF RingKept
  <2>3. QED BY <2>2, Zenon DEF PipeRings
<1>9. CASE InitFails /\ Step[2] = "v"
  <2>1. PICK p : enc' = [enc EXCEPT !["v"] = [Rollback(enc["v"]) EXCEPT !.pic = p]] BY <1>9, Zenon DEF InitFails, AfterVideoFails
  <2>2. PICK r : r = [enc["v"] EXCEPT !.made = FALSE, !.pic = p] BY Zenon
  <2>3. r.ring = enc["v"].ring /\ r.sized = enc["v"].sized BY <1>1, <2>2, Zenon DEF ChanRecord
  <2>4. [Rollback(enc["v"]) EXCEPT !.pic = p] = r BY <1>1, <2>2, Zenon DEF Rollback
  <2>5. QED BY <1>1, <2>1, <2>3, <2>4, RingsSame, Zenon
<1>10. CASE InitFails /\ Step[2] # "v"
  <2>1. PICK q, r : q = Inherit("j") /\ r = Rollback(q) BY Zenon
  <2>2. q \in ChanRecord /\ RingKept(q, "j") BY <1>1, <2>1, Inherited, RingsInherited, Zenon
  <2>3. RingKept(r, "j") BY <1>1, <2>1, <2>2, RingsBuilt, Zenon
  <2>4. enc' = [enc EXCEPT !["j"] = r] BY <1>10, <2>1, Zenon DEF InitFails, AfterSnapFails
  <2>5. QED BY <1>1, <2>3, <2>4, RingsOne, Zenon
<1>11. ASSUME NEW ok \in BOOLEAN, Reinit(ok) PROVE PipeRings'
  <2>1. PICK s \in Streams : s = Step[2] BY <1>11, StepKnown, Zenon DEF Reinit
  <2>2. PICK r : r = IF ok THEN Init1(enc[s], s) ELSE Rollback(enc[s]) BY Zenon
  <2>3. RingKept(r, s) BY <1>1, <2>2, RingsBuilt, Zenon DEF PipeRings
  <2>4. enc' = [enc EXCEPT ![s] = r] BY <1>11, <2>1, <2>2, Zenon DEF Reinit
  <2>5. QED BY <2>3, <2>4, RingsOne, Zenon
<1>12. ASSUME NEW ok \in BOOLEAN, Start(ok) PROVE PipeRings'
  <2>1. PICK s \in Streams : s = Step[2] BY <1>12, StepKnown, Zenon DEF Start
  <2>2. PICK r : r = [enc[s] EXCEPT !.active = TRUE, !.thread = "top", !.on = (s = "v")] BY Zenon
  <2>3. r.ring = enc[s].ring /\ r.sized = enc[s].sized BY <1>1, <2>2, Zenon DEF ChanRecord
  <2>4. enc' = enc \/ enc' = [enc EXCEPT ![s] = r] BY <1>12, <2>1, <2>2, Zenon DEF Start
  <2>5. QED BY <1>2, <2>3, <2>4, RingsSame, Zenon
<1>13. QED BY <1>2, <1>3, <1>4, <1>5, <1>6, <1>7, <1>8, <1>9, <1>10, <1>11, <1>12, Zenon
          DEF Control, IvsPause, IvsJoin, IvsMarkActive, FsRemake, IvsStart

LEMMA RingsStep == ASSUME PipeInv, PipeRings, PNext \/ UNCHANGED pvars PROVE PipeRings'
<1>1. CASE UNCHANGED <<enc>> BY <1>1, Zenon DEF PipeRings
<1>2. CASE Control BY <1>2, RingsControl
<1>3. CASE Threads BY <1>3, RingsThreads
<1>4. CASE Commands \/ VbsFallback \/ Attach \/ Detach \/ ReaderDies \/ UNCHANGED pvars
  BY <1>1, <1>4, Zenon DEF Commands, StreamRestart, StreamStop, StreamStart, SetJpegQuality, OsdRestart, Shutdown,
     SetResolution, VbsFallback, Attach, Detach, ReaderDies, pvars
<1>5. QED BY <1>2, <1>3, <1>4, Zenon DEF PNext

LEMMA RingsStart == ASSUME PInit PROVE PipeRings
<1>1. enc = [s \in Streams |-> Init1([Stopped EXCEPT !.pic = BootPic, !.swapped = Turned], s)] BY Zenon DEF PInit
<1>2. BootPic \in Pics /\ Turned \in BOOLEAN /\ 0 \in Nat BY RvdPipelineConstants
<1>3. PICK q : q = [Stopped EXCEPT !.pic = BootPic, !.swapped = Turned] BY Zenon
<1>4. q = [made |-> FALSE, on |-> FALSE, active |-> FALSE, thread |-> "off", ring |-> 0, sized |-> "none",
           pic |-> BootPic, swapped |-> Turned, fresh |-> FALSE, seen |-> FALSE]
  BY <1>3, Zenon DEF Stopped
<1>5. q \in ChanRecord /\ q.ring = 0 BY <1>2, <1>4, Zenon DEF ChanRecord
<1>6. \A s \in Streams : RingKept(q, s) BY <1>5, Zenon DEF RingKept
<1>7. QED BY <1>1, <1>3, <1>5, <1>6, RingsBuilt, Zenon DEF PipeRings

LEMMA RingsHold == ASSUME PipeInv, PipeRings PROVE RingFits
<1>1. PICK j \in ChanRecord : j = enc["j"] BY Zenon DEF PipeInv, Streams
<1>2. SUFFICES ASSUME j.ring # 0, Pixels(j.pic) <= Pixels(j.sized)
               PROVE  j.ring >= rvd_jpeg_frame_bound(PicW[j.pic], PicH[j.pic])
  BY <1>1, Zenon DEF RingFits
<1>3. PICK p, z, n : p = j.pic /\ z = j.sized /\ n = j.ring BY Zenon
<1>4. z \in Pics /\ n = NewRing("j", z) BY <1>1, <1>2, <1>3, Zenon DEF PipeRings, RingKept, Streams
<1>5. p \in Pics BY <1>3, Zenon DEF ChanRecord
<1>6. Pixels(p) <= Pixels(z) BY <1>2, <1>3, Zenon
<1>7. n \in Nat /\ n >= rvd_jpeg_frame_bound(PicW[z], PicH[z]) BY <1>4, RingSizes DEF Streams
<1>8. n >= rvd_jpeg_frame_bound(PicW[p], PicH[p])
  <2>1. PICK x, y : x = Pixels(p) /\ y = Pixels(z) BY Zenon
  <2>2. x \in Nat /\ y \in Nat BY <1>4, <1>5, <2>1, RvdPipelineConstants DEF Pixels
  <2>3. rvd_jpeg_frame_bound(PicW[z], PicH[z]) = y \div 2 + 32768 BY <2>1 DEF Pixels, rvd_jpeg_frame_bound
  <2>4. rvd_jpeg_frame_bound(PicW[p], PicH[p]) = x \div 2 + 32768 BY <2>1 DEF Pixels, rvd_jpeg_frame_bound
  <2>5. x <= y BY <1>6, <2>1, Zenon
  <2>6. x \div 2 <= y \div 2 /\ x \div 2 \in Nat /\ y \div 2 \in Nat BY <2>2, <2>5
  <2>7. QED BY <1>7, <2>3, <2>4, <2>6
<1>9. QED BY <1>3, <1>8, Zenon

-----------------------------------------------------------------------------
(* Loops.  A recursive function over 0 .. n exists when its step stays in  *)
(* a set, and then stays in that set: both by the least k that does not.   *)
LEMMA Upto ==
    ASSUME NEW n \in Nat, NEW D, 0 \in D, \A k \in 1 .. n : k - 1 \in D => k \in D
    PROVE  \A k \in 0 .. n : k \in D
<1>1. SUFFICES ASSUME NEW b \in 0 .. n, b \notin D PROVE FALSE OBVIOUS
<1> DEFINE I == {k \in 0 .. n : k \notin D}
<1>2. I \in SUBSET Nat /\ I # {} BY <1>1
<1>3. Min(I) \in I /\ \A y \in I : Min(I) <= y BY <1>2, LeastNumber
<1>4. PICK m : m = Min(I) BY Zenon
<1>5. m \in 0 .. n /\ m \notin D /\ \A y \in 0 .. n : y \notin D => m <= y BY <1>3, <1>4
<1>6. m # 0 BY <1>5
<1>7. m \in 1 .. n /\ m - 1 \in 0 .. n /\ ~(m <= m - 1) BY <1>5, <1>6
<1>8. m - 1 \in D BY <1>5, <1>7
<1>9. QED BY <1>5, <1>7, <1>8

Steps(n, A) == [1 .. n -> [A -> A]]
Loop(f, n, A, a, F) == f \in [0 .. n -> A] /\ f[0] = a /\ \A k \in 1 .. n : f[k] = F[k][f[k - 1]]

LEMMA LoopExists ==
    ASSUME NEW n \in Nat, NEW A, NEW a \in A, NEW F \in Steps(n, A)
    PROVE  \E f : Loop(f, n, A, a, F)
<1>0. F \in [1 .. n -> [A -> A]] BY DEF Steps
<1> DEFINE D == {m \in 0 .. n : \E f \in [0 .. m -> A] : f[0] = a /\ \A k \in 1 .. m : f[k] = F[k][f[k - 1]]}
<1>1. 0 \in D
  <2>1. [i \in 0 .. 0 |-> a] \in [0 .. 0 -> A] /\ [i \in 0 .. 0 |-> a][0] = a /\ 1 .. 0 = {} OBVIOUS
  <2>2. 0 \in 0 .. n OBVIOUS
  <2>3. QED BY <2>1, <2>2
<1>2. ASSUME NEW m \in 1 .. n, m - 1 \in D PROVE m \in D
  <2>1. PICK f \in [0 .. m - 1 -> A] : f[0] = a /\ \A k \in 1 .. m - 1 : f[k] = F[k][f[k - 1]] BY <1>2
  <2> DEFINE g == [i \in 0 .. m |-> IF i = m THEN F[m][f[m - 1]] ELSE f[i]]
  <2>2. m - 1 \in 0 .. m - 1 /\ f[m - 1] \in A BY <2>1
  <2>3. F[m][f[m - 1]] \in A BY <1>0, <2>2
  <2>4. \A i \in 0 .. m : i = m \/ i \in 0 .. m - 1 OBVIOUS
  <2>5. g \in [0 .. m -> A] BY <2>1, <2>3, <2>4
  <2>6. g[0] = a BY <2>1
  <2>7. ASSUME NEW k \in 1 .. m PROVE g[k] = F[k][g[k - 1]]
    <3>1. k \in 0 .. m /\ k - 1 \in 0 .. m /\ k - 1 # m BY <2>7
    <3>2. g[k - 1] = f[k - 1] BY <3>1
    <3>3. CASE k = m BY <3>1, <3>2, <3>3
    <3>4. CASE k # m
      <4>1. k \in 1 .. m - 1 BY <3>4
      <4>2. QED BY <2>1, <3>1, <3>2, <3>4, <4>1
    <3>5. QED BY <3>3, <3>4
  <2>8. m \in 0 .. n OBVIOUS
  <2> HIDE DEF g
  <2>9. QED BY <2>5, <2>6, <2>7, <2>8
<1>3. n \in 0 .. n OBVIOUS
<1> HIDE DEF D
<1>4. n \in D BY <1>1, <1>2, <1>3, Upto
<1>5. PICK f \in [0 .. n -> A] : f[0] = a /\ \A k \in 1 .. n : f[k] = F[k][f[k - 1]] BY <1>4 DEF D
<1>6. Loop(f, n, A, a, F) BY <1>5, Zenon DEF Loop
<1>7. QED BY <1>6, Zenon

-----------------------------------------------------------------------------
(* The overlay regions.  A table of slots holds `extra' hardware regions   *)
(* less than are in use: the cover and those a restart forgot.             *)
RegRecord == [name : ONames \cup {""}, act : BOOLEAN, hw : BOOLEAN, ino : Nat, h : Nat]
OsdRecord == [regs : Seq(RegRecord), hw : Nat]
Taken(o) == {i \in 1 .. Len(o.regs) : o.regs[i].act /\ o.regs[i].hw}
Distinct(R) ==
    /\ Len(R) <= OMaxRegions
    /\ \A i \in 1 .. Len(R) : R[i].act => R[i].name \in ONames
    /\ \A i \in 1 .. Len(R) : \A j \in 1 .. Len(R) : i # j /\ R[i].act /\ R[j].act => R[i].name # R[j].name
Apart(o) == Distinct(o.regs)
Slots(extra) == {o \in OsdRecord : Apart(o) /\ o.hw <= OHardware /\ o.hw = Handles(o) + extra}
ShmTyped == shm \in [ONames -> [on : BOOLEAN, ino : Nat, h : Nat]]

LEMMA TakenFinite ==
    ASSUME NEW o \in OsdRecord
    PROVE  /\ IsFiniteSet(Taken(o)) /\ Handles(o) = Cardinality(Taken(o)) /\ Handles(o) \in Nat
           /\ o.regs \in Seq(RegRecord) /\ Len(o.regs) \in Nat /\ o.hw \in Nat
<1>1. o.regs \in Seq(RegRecord) /\ o.hw \in Nat BY Zenon DEF OsdRecord
<1>2. Len(o.regs) \in Nat BY <1>1
<1>3. IsFiniteSet(1 .. Len(o.regs)) BY <1>2, FS_Interval
<1>4. Taken(o) \subseteq 1 .. Len(o.regs) BY Zenon DEF Taken
<1>5. IsFiniteSet(Taken(o)) BY <1>3, <1>4, FS_Subset
<1>6. Handles(o) = Cardinality(Taken(o)) BY Zenon DEF Handles, Taken
<1>7. QED BY <1>1, <1>2, <1>5, <1>6, FS_CardinalityType

\* The first slot with some quality, or 0.
LEMMA FirstSlot ==
    ASSUME NEW n \in Nat, NEW I \in SUBSET (1 .. n), NEW k, k = IF I # {} THEN Min(I) ELSE 0
    PROVE  (k = 0 /\ I = {}) \/ (k \in I /\ k \in 1 .. n /\ k > 0)
<1>1. CASE I = {} BY <1>1
<1>2. CASE I # {}
  <2>1. I \in SUBSET Nat OBVIOUS
  <2>2. Min(I) \in I BY <1>2, <2>1, LeastNumber
  <2>3. k \in I BY <1>2, <2>2, Zenon
  <2>4. k \in 1 .. n BY <2>3
  <2>5. QED BY <2>3, <2>4
<1>3. QED BY <1>1, <1>2

LEMMA FindRegion ==
    ASSUME NEW o \in OsdRecord, NEW n, NEW k, k = rvd_osd_find_region(o, n)
    PROVE  \/ k = 0 /\ \A i \in 1 .. Len(o.regs) : ~(o.regs[i].act /\ o.regs[i].name = n)
           \/ k \in 1 .. Len(o.regs) /\ k > 0 /\ o.regs[k].act /\ o.regs[k].name = n
<1> DEFINE I == {i \in 1 .. Len(o.regs) : o.regs[i].act /\ o.regs[i].name = n}
<1>1. k = IF I # {} THEN Min(I) ELSE 0 BY Zenon DEF rvd_osd_find_region, SelectInSeq
<1>2. Len(o.regs) \in Nat /\ I \in SUBSET (1 .. Len(o.regs)) BY TakenFinite
<1>3. (k = 0 /\ I = {}) \/ (k \in I /\ k \in 1 .. Len(o.regs) /\ k > 0)
  <2> HIDE DEF I
  <2>1. QED BY <1>1, <1>2, FirstSlot
<1>4. CASE k = 0 /\ I = {}
  <2>1. \A i \in 1 .. Len(o.regs) : ~(o.regs[i].act /\ o.regs[i].name = n) BY <1>4, Zenon
  <2>2. QED BY <1>4, <2>1
<1>5. CASE k \in I /\ k \in 1 .. Len(o.regs) /\ k > 0
  <2>1. o.regs[k].act /\ o.regs[k].name = n BY <1>5, Zenon
  <2>2. QED BY <1>5, <2>1
<1>6. QED BY <1>3, <1>4, <1>5

LEMMA AllocSlot ==
    ASSUME NEW o \in OsdRecord, NEW k, k = alloc_region_slot(o)
    PROVE  \/ k = 0
           \/ k \in 1 .. Len(o.regs) /\ ~o.regs[k].act
           \/ k = Len(o.regs) + 1 /\ k <= OMaxRegions
<1> DEFINE I == {i \in 1 .. Len(o.regs) : ~o.regs[i].act}
<1>1. PICK j : j = IF I # {} THEN Min(I) ELSE 0 BY Zenon
<1>2. SelectInSeq(o.regs, LAMBDA r : ~r.act) = j BY <1>1, Zenon DEF SelectInSeq
<1>3. k = IF j > 0 THEN j ELSE IF Len(o.regs) < OMaxRegions THEN Len(o.regs) + 1 ELSE 0
  BY <1>2, Zenon DEF alloc_region_slot
<1>4. Len(o.regs) \in Nat /\ I \in SUBSET (1 .. Len(o.regs)) BY TakenFinite
<1>5. (j = 0 /\ I = {}) \/ (j \in I /\ j \in 1 .. Len(o.regs) /\ j > 0)
  <2> HIDE DEF I
  <2>1. QED BY <1>1, <1>4, FirstSlot
<1>6. CASE j = 0 BY <1>3, <1>4, <1>6, RvdOsdConstants
<1>7. CASE j \in I /\ j \in 1 .. Len(o.regs) /\ j > 0
  <2>1. k = j BY <1>3, <1>7
  <2>2. ~o.regs[j].act BY <1>7, Zenon
  <2>3. QED BY <1>7, <2>1, <2>2, Zenon
<1>8. QED BY <1>5, <1>6, <1>7

\* A free slot, or the one behind the last, takes a region.
LEMMA PutSlot ==
    ASSUME NEW o \in OsdRecord, Apart(o), NEW i, NEW r \in RegRecord, NEW p, p = Put(o, i, r),
           \/ i \in 1 .. Len(o.regs) /\ ~o.regs[i].act
           \/ i = Len(o.regs) + 1 /\ i <= OMaxRegions,
           r.act => /\ r.name \in ONames
                    /\ \A j \in 1 .. Len(o.regs) : ~(o.regs[j].act /\ o.regs[j].name = r.name)
    PROVE  /\ p \in OsdRecord /\ Apart(p) /\ p.hw = o.hw
           /\ r.act /\ r.hw => Handles(p) = Handles(o) + 1
           /\ ~(r.act /\ r.hw) => Handles(p) = Handles(o)
<1>1. o.regs \in Seq(RegRecord) /\ Len(o.regs) \in Nat /\ o.hw \in Nat BY TakenFinite
<1>2. PICK R : R = IF i > Len(o.regs) THEN Append(o.regs, r) ELSE [o.regs EXCEPT ![i] = r] BY Zenon
<1>3. p = [o EXCEPT !.regs = R] BY <1>2, Zenon DEF Put
<1>4. i \in Nat /\ (i \in 1 .. Len(o.regs) \/ i = Len(o.regs) + 1) BY <1>1
<1>5. /\ R \in Seq(RegRecord) /\ R[i] = r /\ i \in 1 .. Len(R)
      /\ \A j \in 1 .. Len(R) : j = i \/ (j \in 1 .. Len(o.regs) /\ R[j] = o.regs[j])
      /\ \A j \in 1 .. Len(o.regs) : j \in 1 .. Len(R)
      /\ Len(R) <= OMaxRegions
  <2>1. CASE i \in 1 .. Len(o.regs)
    <3>1. R = [o.regs EXCEPT ![i] = r] BY <1>1, <1>2, <2>1
    <3>2. R \in Seq(RegRecord) /\ Len(R) = Len(o.regs) BY <1>1, <2>1, <3>1
    <3>3. Len(o.regs) <= OMaxRegions BY DEF Apart, Distinct
    <3>4. QED BY <1>1, <2>1, <3>1, <3>2, <3>3
  <2>2. CASE i = Len(o.regs) + 1
    <3>1. R = Append(o.regs, r) BY <1>1, <1>2, <2>2
    <3>2. QED BY <1>1, <2>2, <3>1
  <2>3. QED BY <1>4, <2>1, <2>2
<1>6. p \in OsdRecord /\ p.regs = R /\ p.hw = o.hw BY <1>1, <1>3, <1>5, Zenon DEF OsdRecord
<1>7. ~(i \in 1 .. Len(o.regs) /\ o.regs[i].act) BY <1>1
<1>8. Apart(p)
  <2>1. \A j \in 1 .. Len(R) : R[j].act => R[j].name \in ONames BY <1>5, Zenon DEF Apart, Distinct
  <2>2. ASSUME NEW j \in 1 .. Len(R), NEW k \in 1 .. Len(R), j # k, R[j].act, R[k].act PROVE R[j].name # R[k].name
    BY <1>5, <2>2, Zenon DEF Apart, Distinct
  <2>3. Distinct(R) BY <1>5, <2>1, <2>2, Zenon DEF Distinct
  <2>4. QED BY <1>6, <2>3, Zenon DEF Apart
<1>9. IsFiniteSet(Taken(o)) /\ Handles(o) = Cardinality(Taken(o)) /\ Handles(p) = Cardinality(Taken(p)) /\ Handles(o) \in Nat
  BY <1>6, TakenFinite
<1>10. i \notin Taken(o) BY <1>7, Zenon DEF Taken
<1>11. ASSUME r.act, r.hw PROVE Handles(p) = Handles(o) + 1
  <2>1. Taken(p) = Taken(o) \cup {i} BY <1>5, <1>6, <1>7, <1>11, ZenonT(60) DEF Taken
  <2>2. Cardinality(Taken(o) \cup {i}) = Cardinality(Taken(o)) + 1 BY <1>9, <1>10, FS_AddElement, Zenon
  <2>3. QED BY <1>9, <2>1, <2>2
<1>12. ASSUME ~(r.act /\ r.hw) PROVE Handles(p) = Handles(o)
  <2>1. Taken(p) = Taken(o) BY <1>5, <1>6, <1>7, <1>12, Zenon DEF Taken
  <2>2. QED BY <1>9, <2>1
<1>13. QED BY <1>6, <1>8, <1>11, <1>12, Zenon

LEMMA CreateRegion ==
    ASSUME ShmTyped, NEW e \in Nat, NEW o \in Slots(e), NEW i, NEW n \in ONames, NEW p,
           p = create_region(o, i, n),
           \/ i \in 1 .. Len(o.regs) /\ ~o.regs[i].act
           \/ i = Len(o.regs) + 1 /\ i <= OMaxRegions,
           \A j \in 1 .. Len(o.regs) : ~(o.regs[j].act /\ o.regs[j].name = n)
    PROVE  p \in Slots(e)
<1>1. o \in OsdRecord /\ Apart(o) /\ o.hw <= OHardware /\ o.hw = Handles(o) + e BY Zenon DEF Slots
<1>2. o.hw \in Nat /\ Handles(o) \in Nat BY <1>1, TakenFinite
<1>3. PICK r : r = [name |-> n, act |-> TRUE, hw |-> TRUE, ino |-> 0, h |-> shm[n].h] BY Zenon
<1>4. shm[n].h \in Nat /\ 0 \in Nat BY DEF ShmTyped
<1>5. r \in RegRecord /\ r.act /\ r.hw /\ r.name = n BY <1>3, <1>4, Zenon DEF RegRecord
<1>6. PICK q : q = Put(o, i, r) BY Zenon
<1>a. r.act => /\ r.name \in ONames
               /\ \A j \in 1 .. Len(o.regs) : ~(o.regs[j].act /\ o.regs[j].name = r.name)
  BY <1>5, Zenon
<1>7. q \in OsdRecord /\ Apart(q) /\ q.hw = o.hw /\ Handles(q) = Handles(o) + 1
  <2>1. /\ q \in OsdRecord /\ Apart(q) /\ q.hw = o.hw
        /\ (r.act /\ r.hw => Handles(q) = Handles(o) + 1)
    BY <1>1, <1>5, <1>6, <1>a, PutSlot
  <2>2. QED BY <1>5, <2>1, Zenon
<1>8. CASE o.hw < OHardware /\ ostage # "torn"
  <2>1. p = [q EXCEPT !.hw = o.hw + 1] BY <1>3, <1>6, <1>8, Zenon DEF create_region
  <2>2. o.hw + 1 \in Nat /\ o.hw + 1 <= OHardware BY <1>2, <1>8, RvdOsdConstants
  <2>3. p \in OsdRecord /\ p.regs = q.regs /\ p.hw = o.hw + 1 BY <1>7, <2>1, <2>2, Zenon DEF OsdRecord
  <2>4. Handles(p) = Handles(q) BY <2>3, Zenon DEF Handles
  <2>5. p.hw = Handles(p) + e BY <1>1, <1>2, <1>7, <2>3, <2>4
  <2>6. Apart(p) BY <1>7, <2>3, Zenon DEF Apart
  <2>7. p.hw <= OHardware BY <2>2, <2>3
  <2>8. QED BY <2>3, <2>5, <2>6, <2>7, Zenon DEF Slots
<1>9. CASE ~(o.hw < OHardware /\ ostage # "torn")
  <2>1. p = Put(o, i, Empty) BY <1>9, Zenon DEF create_region
  <2>2. Empty \in RegRecord /\ ~Empty.act BY <1>4, Zenon DEF Empty, RegRecord
  <2>a. PICK r0 : r0 = Empty BY Zenon
  <2>b. r0 \in RegRecord /\ ~r0.act /\ p = Put(o, i, r0) BY <2>1, <2>2, <2>a, Zenon
  <2>c. r0.act => /\ r0.name \in ONames
                  /\ \A j \in 1 .. Len(o.regs) : ~(o.regs[j].act /\ o.regs[j].name = r0.name)
    BY <2>b, Zenon
  <2>d. p \in OsdRecord /\ Apart(p) /\ p.hw = o.hw /\ (~(r0.act /\ r0.hw) => Handles(p) = Handles(o))
    BY <1>1, <2>b, <2>c, PutSlot
  <2>3. p \in OsdRecord /\ Apart(p) /\ p.hw = o.hw /\ Handles(p) = Handles(o) BY <2>b, <2>d, Zenon
  <2>4. QED BY <1>1, <2>3, Zenon DEF Slots
<1>10. QED BY <1>8, <1>9

LEMMA DiscoverHeld ==
    ASSUME ShmTyped, NEW e \in Nat, NEW o \in Slots(e), NEW n \in ONames PROVE Discover(o, n) \in Slots(e)
<1>1. o \in OsdRecord /\ Apart(o) /\ o.hw <= OHardware /\ o.hw = Handles(o) + e BY Zenon DEF Slots
<1>2. PICK i, k, t : i = alloc_region_slot(o) /\ k = rvd_osd_find_region(o, n) /\ t = rvd_osd_find_region(o, "time")
  BY Zenon
<1>3. CASE k > 0 \/ i = 0
  <2>1. Discover(o, n) = o BY <1>2, <1>3, Zenon DEF Discover
  <2>2. QED BY <2>1, Zenon
<1>4. CASE ~(k > 0 \/ i = 0)
  <2>1. \A j \in 1 .. Len(o.regs) : ~(o.regs[j].act /\ o.regs[j].name = n) BY <1>1, <1>2, <1>4, FindRegion, Zenon
  <2>2. \/ i \in 1 .. Len(o.regs) /\ ~o.regs[i].act
        \/ i = Len(o.regs) + 1 /\ i <= OMaxRegions
    BY <1>1, <1>2, <1>4, AllocSlot, Zenon
  <2>3. CASE n = "uptime" /\ t > 0
    <3>1. PICK r : r = [name |-> n, act |-> TRUE, hw |-> FALSE, ino |-> 0, h |-> shm[n].h] BY Zenon
    <3>2. shm[n].h \in Nat /\ 0 \in Nat BY DEF ShmTyped
    <3>3. r \in RegRecord /\ r.act /\ ~r.hw /\ r.name = n BY <3>1, <3>2, Zenon DEF RegRecord
    <3>4. Discover(o, n) = Put(o, i, r) BY <1>2, <1>4, <2>3, <3>1, Zenon DEF Discover
    <3>5. PICK p : p = Put(o, i, r) BY Zenon
    <3>a. r.act => /\ r.name \in ONames
                   /\ \A j \in 1 .. Len(o.regs) : ~(o.regs[j].act /\ o.regs[j].name = r.name)
      BY <2>1, <3>3, Zenon
    <3>6. p \in OsdRecord /\ Apart(p) /\ p.hw = o.hw /\ Handles(p) = Handles(o)
      BY <1>1, <2>2, <3>3, <3>5, <3>a, PutSlot, ZenonT(60)
    <3>7. QED BY <1>1, <3>4, <3>5, <3>6, Zenon DEF Slots
  <2>4. CASE ~(n = "uptime" /\ t > 0)
    <3>1. Discover(o, n) = create_region(o, i, n) BY <1>2, <1>4, <2>4, Zenon DEF Discover
    <3>2. PICK p : p = create_region(o, i, n) BY Zenon
    <3>3. QED BY <2>1, <2>2, <3>1, <3>2, CreateRegion, Zenon
  <2>5. QED BY <2>3, <2>4
<1>5. QED BY <1>3, <1>4

LEMMA DistinctLess ==
    ASSUME NEW Q, NEW R, Distinct(Q), Len(R) = Len(Q),
           \A j \in 1 .. Len(R) : R[j].act => Q[j].act /\ R[j].name = Q[j].name
    PROVE  Distinct(R)
<1>1. Len(R) <= OMaxRegions BY DEF Distinct
<1>2. \A j \in 1 .. Len(R) : R[j].act => R[j].name \in ONames BY Zenon DEF Distinct
<1>3. ASSUME NEW j \in 1 .. Len(R), NEW k \in 1 .. Len(R), j # k, R[j].act, R[k].act PROVE R[j].name # R[k].name
  <2>1. Q[j].act /\ Q[k].act /\ R[j].name = Q[j].name /\ R[k].name = Q[k].name BY <1>3, Zenon
  <2>2. j \in 1 .. Len(Q) /\ k \in 1 .. Len(Q) BY Zenon
  <2>3. Q[j].name # Q[k].name BY <1>3, <2>1, <2>2, Zenon DEF Distinct
  <2>4. QED BY <2>1, <2>3
<1>4. QED BY <1>1, <1>2, <1>3, Zenon DEF Distinct

\* A slot in use is handed back, its hardware with it.
LEMMA FreeHeld ==
    ASSUME NEW e \in Nat, NEW o \in Slots(e), NEW i \in 1 .. Len(o.regs), o.regs[i].act
    PROVE  /\ Free1(o, i) \in Slots(e) /\ Free1(o, i).regs = [o.regs EXCEPT ![i] = Empty]
           /\ Len(Free1(o, i).regs) = Len(o.regs)
<1>1. o \in OsdRecord /\ Apart(o) /\ o.hw <= OHardware /\ o.hw = Handles(o) + e BY Zenon DEF Slots
<1>2. /\ o.hw \in Nat /\ Handles(o) \in Nat /\ o.regs \in Seq(RegRecord) /\ Len(o.regs) \in Nat
      /\ IsFiniteSet(Taken(o)) /\ Handles(o) = Cardinality(Taken(o))
  BY <1>1, TakenFinite
<1>3. PICK R, w : R = [o.regs EXCEPT ![i] = Empty] /\ w = o.hw - (IF o.regs[i].hw THEN 1 ELSE 0) BY Zenon
<1>4. 0 \in Nat OBVIOUS
<1>5. Empty \in RegRecord /\ ~Empty.act BY <1>4, Zenon DEF Empty, RegRecord
<1>6. R \in Seq(RegRecord) /\ Len(R) = Len(o.regs) /\ R[i] = Empty /\ \A j \in 1 .. Len(R) : j = i \/ R[j] = o.regs[j]
  BY <1>2, <1>3, <1>5
<1>a. \A j \in 1 .. Len(R) : R[j].act => o.regs[j].act /\ R[j].name = o.regs[j].name BY <1>5, <1>6, Zenon
<1>7. Free1(o, i) = [o EXCEPT !.regs = R, !.hw = w]
  BY <1>3, Zenon DEF Free1
<1>8. PICK T, c : T = Taken(o) /\ c = Cardinality(T) BY Zenon
<1>10. CASE o.regs[i].hw
  <2>1. i \in T BY <1>8, <1>10, Zenon DEF Taken
  <2>2. Cardinality(T \ {i}) = c - 1 /\ Cardinality(T \ {i}) \in Nat
    BY <1>2, <1>8, <2>1, FS_RemoveElement, FS_CardinalityType
  <2>3. w = o.hw - 1 BY <1>3, <1>10, Zenon
  <2>4. c \in Nat /\ o.hw = c + e BY <1>1, <1>2, <1>8
  <2>5. w \in Nat /\ w <= OHardware /\ w = Cardinality(T \ {i}) + e
    BY <1>1, <1>2, <2>2, <2>3, <2>4, RvdOsdConstants
  <2>6. PICK p : p = [o EXCEPT !.regs = R, !.hw = w] BY Zenon
  <2>7. p \in OsdRecord /\ p.regs = R /\ p.hw = w BY <1>1, <1>6, <2>5, <2>6, Zenon DEF OsdRecord
  <2>8. Taken(p) = T \ {i} BY <1>5, <1>6, <1>8, <2>7, Zenon DEF Taken
  <2>9. Handles(p) = Cardinality(T \ {i}) BY <2>7, <2>8, TakenFinite
  <2>10. Distinct(R) BY <1>1, <1>a, <1>6, DistinctLess, Zenon DEF Apart
  <2>11. QED BY <1>3, <1>6, <1>7, <2>5, <2>6, <2>7, <2>9, <2>10, Zenon DEF Slots, Apart
<1>11. CASE ~o.regs[i].hw
  <2>1. i \notin T BY <1>8, <1>11, Zenon DEF Taken
  <2>3. w = o.hw BY <1>2, <1>3, <1>11
  <2>6. PICK p : p = [o EXCEPT !.regs = R, !.hw = w] BY Zenon
  <2>7. p \in OsdRecord /\ p.regs = R /\ p.hw = w BY <1>1, <1>2, <1>6, <2>3, <2>6, Zenon DEF OsdRecord
  <2>8. Taken(p) = T BY <1>5, <1>6, <1>8, <2>1, <2>7, Zenon DEF Taken
  <2>9. Handles(p) = Handles(o) BY <1>2, <1>8, <2>7, <2>8, TakenFinite
  <2>10. Distinct(R) BY <1>1, <1>a, <1>6, DistinctLess, Zenon DEF Apart
  <2>11. QED BY <1>1, <1>3, <1>6, <1>7, <2>3, <2>6, <2>7, <2>9, <2>10, Zenon DEF Slots, Apart
<1>12. QED BY <1>10, <1>11

LEMMA ReleaseHeld ==
    ASSUME NEW e \in Nat, NEW o \in Slots(e), NEW i \in 1 .. Len(o.regs), o.regs[i].act
    PROVE  release_region(o, i) \in Slots(e) /\ Len(release_region(o, i).regs) = Len(o.regs)
<1>1. o \in OsdRecord BY Zenon DEF Slots
<1>2. PICK u : u = rvd_osd_find_region(o, "uptime") BY Zenon
<1>3. CASE o.regs[i].name = "time" /\ Merged(o)
  <2>1. release_region(o, i) = Free1(Free1(o, u), i) BY <1>2, <1>3, Zenon DEF release_region
  <2>2. u > 0 BY <1>2, <1>3, Zenon DEF Merged
  <2>3. u \in 1 .. Len(o.regs) /\ o.regs[u].act /\ o.regs[u].name = "uptime" BY <1>1, <1>2, <2>2, FindRegion
  <2>4. PICK q : q = Free1(o, u) BY Zenon
  <2>5. q \in Slots(e) /\ q.regs = [o.regs EXCEPT ![u] = Empty] /\ Len(q.regs) = Len(o.regs)
    BY <2>3, <2>4, FreeHeld, Zenon
  <2>6. "time" # "uptime" OBVIOUS
  <2>7. u # i BY <1>3, <2>3, <2>6, Zenon
  <2>8. o.regs \in Seq(RegRecord) BY <1>1, TakenFinite
  <2>9. q.regs[i] = o.regs[i] BY <2>5, <2>7, <2>8
  <2>10. i \in 1 .. Len(q.regs) /\ q.regs[i].act BY <2>5, <2>9, Zenon
  <2>11. Free1(q, i) \in Slots(e) /\ Len(Free1(q, i).regs) = Len(q.regs) BY <2>5, <2>10, FreeHeld, Zenon
  <2>12. QED BY <2>1, <2>4, <2>5, <2>11, Zenon
<1>4. CASE ~(o.regs[i].name = "time" /\ Merged(o))
  <2>1. release_region(o, i) = Free1(o, i) BY <1>4, Zenon DEF release_region
  <2>2. QED BY <2>1, FreeHeld, ZenonT(60)
<1>5. QED BY <1>3, <1>4

\* Opening a buffer changes nothing a slot holds.
LEMMA OpenHeld ==
    ASSUME ShmTyped, NEW e \in Nat, NEW o \in Slots(e), NEW i \in 1 .. Len(o.regs)
    PROVE  try_open_shm(o, i) \in Slots(e) /\ Len(try_open_shm(o, i).regs) = Len(o.regs)
<1>1. o \in OsdRecord /\ Apart(o) /\ o.hw <= OHardware /\ o.hw = Handles(o) + e BY Zenon DEF Slots
<1>2. o.regs \in Seq(RegRecord) /\ Len(o.regs) \in Nat /\ o.hw \in Nat BY <1>1, TakenFinite
<1>3. PICK r, n : r = o.regs[i] /\ n = r.name BY Zenon
<1>4. r \in RegRecord BY <1>2, <1>3
<1>6. CASE ~r.act \/ (r.ino > 0 /\ shm[n].on /\ r.ino = shm[n].ino)
  <2>1. try_open_shm(o, i) = o BY <1>3, <1>6, Zenon DEF try_open_shm
  <2>2. QED BY <2>1, Zenon
<1>7. CASE ~(~r.act \/ (r.ino > 0 /\ shm[n].on /\ r.ino = shm[n].ino))
  <2>0. r.act /\ n \in ONames BY <1>1, <1>3, <1>7, Zenon DEF Apart, Distinct
  <2>1. CASE ~shm[n].on
    <3>1. try_open_shm(o, i) = release_region(o, i) BY <1>3, <1>7, <2>1, Zenon DEF try_open_shm
    <3>2. o.regs[i].act BY <1>3, <2>0, Zenon
    <3>3. release_region(o, i) \in Slots(e) /\ Len(release_region(o, i).regs) = Len(o.regs)
      BY <3>2, ReleaseHeld, Zenon
    <3>4. QED BY <3>1, <3>3, Zenon
  <2>2. CASE shm[n].on
    <3>1. PICK h : h = IF r.hw /\ ~(n = "time" /\ Merged(o)) THEN shm[n].h ELSE r.h BY Zenon
    <3>2. shm[n].h \in Nat /\ shm[n].ino \in Nat /\ r.h \in Nat BY <1>4, <2>0, Zenon DEF ShmTyped, RegRecord
    <3>3. h \in Nat BY <3>1, <3>2, Zenon
    <3>4. PICK q : q = [r EXCEPT !.ino = shm[n].ino, !.h = h] BY Zenon
    <3>5. q \in RegRecord /\ q.act = r.act /\ q.hw = r.hw /\ q.name = r.name BY <1>4, <3>2, <3>3, <3>4, Zenon DEF RegRecord
    <3>6. try_open_shm(o, i) = [o EXCEPT !.regs[i] = q]
      BY <3>4, <1>3, <1>7, <2>2, <3>1, Zenon DEF try_open_shm
    <3>7. PICK R : R = [o.regs EXCEPT ![i] = q] BY Zenon
    <3>8. try_open_shm(o, i) = [o EXCEPT !.regs = R] BY <3>6, <3>7, Zenon
    <3>9. R \in Seq(RegRecord) /\ Len(R) = Len(o.regs) /\ R[i] = q /\ \A j \in 1 .. Len(R) : j = i \/ R[j] = o.regs[j]
      BY <1>2, <3>5, <3>7
    <3>10. PICK p : p = [o EXCEPT !.regs = R] BY Zenon
    <3>11. p \in OsdRecord /\ p.regs = R /\ p.hw = o.hw BY <1>1, <3>9, <3>10, Zenon DEF OsdRecord
    <3>12. \A j \in 1 .. Len(R) : R[j].act = o.regs[j].act /\ R[j].hw = o.regs[j].hw /\ R[j].name = o.regs[j].name
      BY <1>3, <3>5, <3>9, Zenon
    <3>13. Taken(p) = Taken(o) BY <3>9, <3>11, <3>12, Zenon DEF Taken
    <3>14. Handles(p) = Handles(o) BY <1>1, <3>11, <3>13, TakenFinite
    <3>a. \A j \in 1 .. Len(R) : R[j].act => o.regs[j].act /\ R[j].name = o.regs[j].name BY <3>12, Zenon
    <3>15. Distinct(R) BY <1>1, <3>9, <3>a, DistinctLess, Zenon DEF Apart
    <3>16. QED BY <1>1, <3>8, <3>9, <3>10, <3>11, <3>14, <3>15, Zenon DEF Slots, Apart
  <2>3. QED BY <2>1, <2>2
<1>8. QED BY <1>6, <1>7

\* The two loops of rvd_osd_check keep what is held.
LEMMA ScanHeld ==
    ASSUME ShmTyped, NEW e \in Nat, NEW S \in SUBSET Slots(e), NEW order \in Seq(ONames)
    PROVE  scan_new_shm(S, order) \subseteq Slots(e)
<1>1. PICK n \in Nat : n = Len(order) OBVIOUS
<1>2. \A k \in 1 .. n : order[k] \in ONames BY <1>1
<1>3. PICK A : A = SUBSET Slots(e) BY Zenon
<1> DEFINE G(k, T) == {IF Buffered(order[k]) THEN Discover(o, order[k]) ELSE o : o \in T}
<1>4. ASSUME NEW k \in 1 .. n, NEW T \in A PROVE G(k, T) \in A
  <2>1. order[k] \in ONames /\ T \subseteq Slots(e) BY <1>2, <1>3, Zenon
  <2>2. ASSUME NEW o \in T PROVE (IF Buffered(order[k]) THEN Discover(o, order[k]) ELSE o) \in Slots(e)
    <3>1. o \in Slots(e) BY <2>1, Zenon
    <3>2. PICK m \in ONames : m = order[k] BY <2>1, Zenon
    <3>3. Discover(o, order[k]) \in Slots(e) BY <3>1, <3>2, DiscoverHeld, Zenon
    <3>4. QED BY <3>1, <3>3, Zenon
  <2>3. QED BY <1>3, <2>2, Zenon
<1> HIDE DEF G
<1>5. PICK F : F = [k \in 1 .. n |-> [T \in A |-> G(k, T)]] BY Zenon
<1>6. F \in Steps(n, A) BY <1>4, <1>5, Zenon DEF Steps
<1>a. S \in A BY <1>3, Zenon
<1>b. PICK f : Loop(f, n, A, S, F) BY <1>6, <1>a, LoopExists, Zenon
<1>7. f \in [0 .. n -> A] /\ f[0] = S /\ \A k \in 1 .. n : f[k] = F[k][f[k - 1]] BY <1>b, Zenon DEF Loop
<1>8. \A k \in 1 .. n : k - 1 \in 0 .. n /\ k \in 0 .. n /\ k # 0 OBVIOUS
<1>9. \A k \in 1 .. n : f[k] = G(k, f[k - 1]) BY <1>5, <1>7, <1>8, Zenon
<1>10. \A k \in 0 .. n : k = 0 \/ k \in 1 .. n OBVIOUS
<1>11. f = [k \in 0 .. n |-> IF k = 0 THEN S ELSE G(k, f[k - 1])] BY <1>7, <1>9, <1>10, Zenon
<1>12. PICK g : g = (CHOOSE c : c = [k \in 0 .. n |-> IF k = 0 THEN S ELSE G(k, c[k - 1])]) BY Zenon
<1>13. g = [k \in 0 .. n |-> IF k = 0 THEN S ELSE G(k, g[k - 1])] BY <1>11, <1>12, Zenon
<1>14. scan_new_shm(S, order) = g[n] BY <1>1, <1>12, Zenon DEF scan_new_shm, G
<1>15. PICK D : D = {k \in 0 .. n : g[k] \in A} BY Zenon
<1>16. 0 \in D
  <2>1. 0 \in 0 .. n BY <1>1
  <2>2. QED BY <1>3, <1>13, <1>15, <2>1, Zenon
<1>17. \A k \in 1 .. n : k - 1 \in D => k \in D BY <1>4, <1>8, <1>13, <1>15, Zenon
<1>18. n \in 0 .. n BY <1>1
<1>19. g[n] \in A BY <1>15, <1>16, <1>17, <1>18, Upto, Zenon
<1>20. QED BY <1>3, <1>14, <1>19, Zenon

LEMMA OpenedHeld ==
    ASSUME ShmTyped, NEW e \in Nat, NEW t \in Slots(e)
    PROVE  AllOpened(t) \subseteq Slots(e)
<1>1. PICK n \in Nat : n = Len(t.regs)
  <2>1. t \in OsdRecord BY Zenon DEF Slots
  <2>2. QED BY <2>1, TakenFinite
<1>3. PICK A : A = SUBSET {o \in Slots(e) : Len(o.regs) = n} BY Zenon
<1> DEFINE G(k, T) == {try_open_shm(o, k) : o \in T}
<1>4. ASSUME NEW k \in 1 .. n, NEW T \in A PROVE G(k, T) \in A
  <2>1. ASSUME NEW o \in T PROVE try_open_shm(o, k) \in Slots(e) /\ Len(try_open_shm(o, k).regs) = n
    <3>1. o \in Slots(e) /\ Len(o.regs) = n BY <1>3, Zenon
    <3>2. k \in 1 .. Len(o.regs) BY <3>1, Zenon
    <3>3. QED BY <3>1, <3>2, OpenHeld, Zenon
  <2>2. QED BY <1>3, <2>1, Zenon
<1> HIDE DEF G
<1>5. PICK F : F = [k \in 1 .. n |-> [T \in A |-> G(k, T)]] BY Zenon
<1>6. F \in Steps(n, A) BY <1>4, <1>5, Zenon DEF Steps
<1>7. PICK S : S = {t} BY Zenon
<1>a. S \in A BY <1>1, <1>3, <1>7, Zenon
<1>b. PICK f : Loop(f, n, A, S, F) BY <1>6, <1>a, LoopExists, Zenon
<1>c. f \in [0 .. n -> A] /\ f[0] = S /\ \A k \in 1 .. n : f[k] = F[k][f[k - 1]] BY <1>b, Zenon DEF Loop
<1>8. \A k \in 1 .. n : k - 1 \in 0 .. n /\ k \in 0 .. n /\ k # 0 OBVIOUS
<1>9. \A k \in 1 .. n : f[k] = G(k, f[k - 1]) BY <1>5, <1>c, <1>8, Zenon
<1>10. \A k \in 0 .. n : k = 0 \/ k \in 1 .. n OBVIOUS
<1>11. f = [k \in 0 .. n |-> IF k = 0 THEN S ELSE G(k, f[k - 1])] BY <1>c, <1>9, <1>10, Zenon
<1>12. PICK g : g = (CHOOSE c : c = [k \in 0 .. n |-> IF k = 0 THEN S ELSE G(k, c[k - 1])]) BY Zenon
<1>13. g = [k \in 0 .. n |-> IF k = 0 THEN S ELSE G(k, g[k - 1])] BY <1>11, <1>12, Zenon
<1>14. AllOpened(t) = g[n] BY <1>1, <1>7, <1>12, Zenon DEF AllOpened, G
<1>15. PICK D : D = {k \in 0 .. n : g[k] \in A} BY Zenon
<1>16. 0 \in D
  <2>1. 0 \in 0 .. n BY <1>1
  <2>2. QED BY <1>a, <1>13, <1>15, <2>1, Zenon
<1>17. \A k \in 1 .. n : k - 1 \in D => k \in D BY <1>4, <1>8, <1>13, <1>15, Zenon
<1>18. n \in 0 .. n BY <1>1
<1>19. g[n] \in A BY <1>15, <1>16, <1>17, <1>18, Upto, Zenon
<1>20. QED BY <1>3, <1>14, <1>19, Zenon

\* What is in use is in a slot, the cover or forgotten; a restart under way
\* has no cover.
Covers(c) == IF c = "none" THEN 0 ELSE 1
OsdInv ==
    /\ ShmTyped /\ lostHw \in Nat /\ changes \in 0 .. OChanges
    /\ opriv \in [on : BOOLEAN, cover : {"none", "hidden", "shown"}]
    /\ ostage \in {"up", "deinit", "torn", "group"}
    /\ ostage # "up" => opriv.cover = "none"
    /\ osd \in Slots(Covers(opriv.cover) + lostHw)

LEMMA CheckStep ==
    ASSUME OsdInv, NEW order \in OOrders, rvd_osd_check(order) PROVE OsdInv'
<1>1. /\ osd' \in scan_new_shm(AllOpened(osd), order)
      /\ UNCHANGED <<shm, opriv, ostage, lostHw, changes, fontDue>>
  BY Zenon DEF rvd_osd_check
<1>2. order \in Seq(ONames) BY RvdOsdConstants, Zenon
<1>3. Covers(opriv.cover) + lostHw \in Nat BY DEF OsdInv, Covers
<1>4. PICK e \in Nat : e = Covers(opriv.cover) + lostHw BY <1>3, Zenon
<1>5. PICK t \in Slots(e) : t = osd BY <1>4, Zenon DEF OsdInv
<1>6. ShmTyped BY Zenon DEF OsdInv
<1>7. AllOpened(t) \subseteq Slots(e) BY <1>6, OpenedHeld, Zenon
<1>8. PICK S \in SUBSET Slots(e) : S = AllOpened(t) BY <1>7, Zenon
<1>9. scan_new_shm(S, order) \subseteq Slots(e) BY <1>2, <1>6, ScanHeld, Zenon
<1>10. osd' \in Slots(e) BY <1>1, <1>5, <1>8, <1>9, Zenon
<1>11. osd' \in Slots(Covers(opriv'.cover) + lostHw') BY <1>1, <1>4, <1>10, Zenon
<1>12. QED BY <1>1, <1>11, Zenon DEF OsdInv, ShmTyped

LEMMA InitStreamStep ==
    ASSUME OsdInv, NEW order \in OOrders, rvd_osd_init_stream(order) PROVE OsdInv'
<1>1. /\ ostage = "group" /\ ostage' = "up" /\ lostHw' = lostHw + Handles(osd)
      /\ InitStream(order) /\ UNCHANGED <<shm, changes, fontDue>>
  BY Zenon DEF rvd_osd_init_stream
<1>2. PICK made \in scan_new_shm({[regs |-> <<>>, hw |-> osd.hw]}, order) :
        /\ osd' = [made EXCEPT !.hw = made.hw + (IF made.hw < OHardware THEN 1 ELSE 0)]
        /\ opriv' = [opriv EXCEPT !.cover = IF made.hw < OHardware THEN "hidden" ELSE "none"]
  BY <1>1, Zenon DEF InitStream
<1>3. order \in Seq(ONames) /\ ShmTyped BY RvdOsdConstants, Zenon DEF OsdInv
<1>4. opriv.cover = "none" /\ opriv.on \in BOOLEAN /\ lostHw \in Nat
  <2>1. "group" # "up" OBVIOUS
  <2>2. QED BY <1>1, <2>1, Zenon DEF OsdInv
<1>5. Covers(opriv.cover) = 0 BY <1>4 DEF Covers
<1>6. osd \in OsdRecord /\ osd.hw <= OHardware /\ osd.hw = Handles(osd) + (0 + lostHw) BY <1>5, Zenon DEF OsdInv, Slots
<1>7. PICK t \in OsdRecord : t = osd BY <1>6, Zenon
<1>8. Handles(t) \in Nat /\ t.hw \in Nat BY TakenFinite
<1>9. Handles(osd) \in Nat /\ osd.hw \in Nat BY <1>7, <1>8, Zenon
<1>10. PICK e \in Nat : e = osd.hw BY <1>9, Zenon
<1>11. PICK b : b = [regs |-> <<>>, hw |-> e] BY Zenon
<1>12. <<>> \in Seq(RegRecord) /\ Len(<<>>) = 0 OBVIOUS
<1>13. b \in OsdRecord /\ b.regs = <<>> /\ b.hw = e BY <1>11, <1>12, Zenon DEF OsdRecord
<1>14. Distinct(b.regs) BY <1>12, <1>13, RvdOsdConstants DEF Distinct
<1>15. Taken(b) = {} BY <1>12, <1>13 DEF Taken
<1>16. Handles(b) = 0 BY <1>13, <1>15, TakenFinite, FS_EmptySet
<1>17. b.hw = Handles(b) + e /\ b.hw <= OHardware BY <1>6, <1>10, <1>13, <1>16
<1>18. b \in Slots(e) BY <1>13, <1>14, <1>17, Zenon DEF Slots, Apart
<1>19. PICK S \in SUBSET Slots(e) : S = {b} BY <1>18, Zenon
<1>20. scan_new_shm(S, order) \subseteq Slots(e) BY <1>3, ScanHeld, Zenon
<1>21. made \in Slots(e) BY <1>2, <1>10, <1>11, <1>19, <1>20, Zenon
<1>22. made \in OsdRecord /\ Apart(made) /\ made.hw <= OHardware /\ made.hw = Handles(made) + e BY <1>21, Zenon DEF Slots
<1>23. made.hw \in Nat /\ Handles(made) \in Nat BY <1>22, TakenFinite
<1>24. lostHw' = e /\ lostHw' \in Nat BY <1>1, <1>4, <1>6, <1>9, <1>10
<1>25. PICK w, c : w = made.hw + (IF made.hw < OHardware THEN 1 ELSE 0) /\ c = IF made.hw < OHardware THEN "hidden" ELSE "none"
  BY Zenon
<1>26. w \in Nat /\ w <= OHardware /\ w = Handles(made) + (Covers(c) + e)
  BY <1>22, <1>23, <1>25, RvdOsdConstants DEF Covers
<1>27. osd' = [made EXCEPT !.hw = w] /\ opriv' = [opriv EXCEPT !.cover = c] BY <1>2, <1>25, Zenon
<1>28. osd' \in OsdRecord /\ osd'.regs = made.regs /\ osd'.hw = w BY <1>22, <1>26, <1>27, Zenon DEF OsdRecord
<1>29. PICK p : p = osd' BY Zenon
<1>30. Handles(p) = Handles(made) BY <1>28, <1>29, Zenon DEF Handles
<1>31. p \in Slots(Covers(c) + e) BY <1>22, <1>26, <1>28, <1>29, <1>30, Zenon DEF Slots, Apart
<1>32. c \in {"none", "hidden", "shown"} BY <1>25, Zenon
<1>33. opriv \in [on : BOOLEAN, cover : {"none", "hidden", "shown"}] BY Zenon DEF OsdInv
<1>34. opriv' \in [on : BOOLEAN, cover : {"none", "hidden", "shown"}] /\ opriv'.cover = c BY <1>27, <1>32, <1>33, Zenon
<1>35. osd' \in Slots(Covers(opriv'.cover) + lostHw') BY <1>24, <1>29, <1>31, <1>34, Zenon
<1>36. QED BY <1>1, <1>24, <1>34, <1>35, Zenon DEF OsdInv, ShmTyped

LEMMA OsdQuiet ==
    ASSUME OsdInv, DestroyGroup \/ MakeGroup \/ (\E b \in BOOLEAN : rvd_osd_set_privacy(b)) PROVE OsdInv'
<1>1. CASE DestroyGroup \/ MakeGroup
  <2>1. /\ ostage # "up" /\ ostage' \in {"up", "deinit", "torn", "group"}
        /\ UNCHANGED <<shm, osd, opriv, lostHw, changes, fontDue>>
    BY <1>1, Zenon DEF DestroyGroup, MakeGroup
  <2>2. QED BY <2>1, Zenon DEF OsdInv, ShmTyped
<1>2. ASSUME NEW b \in BOOLEAN, rvd_osd_set_privacy(b) PROVE OsdInv'
  <2>1. PICK c : c = IF opriv.cover = "none" THEN "none" ELSE IF b THEN "shown" ELSE "hidden" BY Zenon
  <2>2. /\ ostage = "up" /\ opriv' = [on |-> b, cover |-> c]
        /\ UNCHANGED <<shm, osd, ostage, lostHw, changes, fontDue>>
    BY <1>2, <2>1, Zenon DEF rvd_osd_set_privacy
  <2>3. c \in {"none", "hidden", "shown"} /\ (c = "none" <=> opriv.cover = "none") BY <2>1, SMT
  <2>4. Covers(c) = Covers(opriv.cover) BY <2>3, Zenon DEF Covers
  <2>5. opriv' \in [on : BOOLEAN, cover : {"none", "hidden", "shown"}] /\ opriv'.cover = c BY <2>2, <2>3, Zenon
  <2>6. osd' \in Slots(Covers(opriv'.cover) + lostHw') BY <2>2, <2>4, <2>5, Zenon DEF OsdInv
  <2>7. QED BY <2>2, <2>5, <2>6, Zenon DEF OsdInv, ShmTyped
<1>3. QED BY <1>1, <1>2, Zenon

LEMMA OsdDown == ASSUME OsdInv, rvd_osd_deinit_stream PROVE OsdInv'
<1>1. /\ ostage' = "deinit"
      /\ osd' = [regs |-> <<>>, hw |-> osd.hw - Handles(osd) - (IF opriv.cover = "none" THEN 0 ELSE 1)]
      /\ opriv' = [opriv EXCEPT !.cover = "none"]
      /\ UNCHANGED <<shm, lostHw, changes>>
  BY Zenon DEF rvd_osd_deinit_stream
<1>2. PICK t \in OsdRecord : t = osd /\ t.hw <= OHardware /\ t.hw = Handles(t) + (Covers(opriv.cover) + lostHw)
  BY Zenon DEF OsdInv, Slots
<1>3. Handles(t) \in Nat /\ t.hw \in Nat BY TakenFinite
<1>4. lostHw \in Nat BY Zenon DEF OsdInv
<1>5. PICK w : w = osd.hw - Handles(osd) - (IF opriv.cover = "none" THEN 0 ELSE 1) BY Zenon
<1>6. w = t.hw - Handles(t) - Covers(opriv.cover) BY <1>2, <1>5, Zenon DEF Covers
<1>7. w = lostHw /\ w <= OHardware BY <1>2, <1>3, <1>4, <1>6, RvdOsdConstants DEF Covers
<1>8. PICK b : b = [regs |-> <<>>, hw |-> w] BY Zenon
<1>9. <<>> \in Seq(RegRecord) /\ Len(<<>>) = 0 OBVIOUS
<1>10. b \in OsdRecord /\ b.regs = <<>> /\ b.hw = w BY <1>4, <1>7, <1>8, <1>9, Zenon DEF OsdRecord
<1>11. Distinct(b.regs) BY <1>9, <1>10, RvdOsdConstants DEF Distinct
<1>12. Taken(b) = {} BY <1>9, <1>10 DEF Taken
<1>13. Handles(b) = 0 BY <1>10, <1>12, TakenFinite, FS_EmptySet
<1>14. Covers("none") = 0 BY DEF Covers
<1>15. b.hw = Handles(b) + (Covers("none") + w) /\ b.hw <= OHardware BY <1>4, <1>7, <1>10, <1>13, <1>14
<1>16. b \in Slots(Covers("none") + w) BY <1>10, <1>11, <1>15, Zenon DEF Slots, Apart
<1>17. opriv' \in [on : BOOLEAN, cover : {"none", "hidden", "shown"}] /\ opriv'.cover = "none" BY <1>1, Zenon DEF OsdInv
<1>18. osd' \in Slots(Covers(opriv'.cover) + lostHw') BY <1>1, <1>5, <1>7, <1>8, <1>16, <1>17, Zenon
<1>19. QED BY <1>1, <1>17, <1>18, Zenon DEF OsdInv, ShmTyped

LEMMA RodSteps ==
    ASSUME OsdInv, \/ \E n \in ONames : RodRemoves(n) \/ \E h \in OHeights : RodCreates(n, h)
                   \/ \E h \in OHeights : RodFont(h)
    PROVE  OsdInv'
<1>1. changes \in 0 .. OChanges /\ ShmTyped /\ OChanges \in Nat BY RvdOsdConstants, Zenon DEF OsdInv
<1>2. ASSUME RodChange, ShmTyped' PROVE OsdInv'
  <2>1. changes > 0 /\ changes' = changes - 1 /\ UNCHANGED <<osd, opriv, ostage, lostHw>> BY <1>2, Zenon DEF RodChange
  <2>2. changes' \in 0 .. OChanges BY <1>1, <2>1
  <2>3. QED BY <1>2, <2>1, <2>2, Zenon DEF OsdInv
<1>3. PICK X : X = [on : BOOLEAN, ino : Nat, h : Nat] BY Zenon
<1>4. OChanges - changes + 1 \in Nat /\ 0 \in Nat BY <1>1
<1>5. OGone \in X BY <1>3, <1>4, Zenon DEF OGone
<1>6. \A h \in OHeights : Fresh(h) \in X BY <1>3, <1>4, RvdOsdConstants, Zenon DEF Fresh
<1>7. shm \in [ONames -> X] BY <1>1, <1>3, Zenon DEF ShmTyped
<1>8. ASSUME NEW n \in ONames, RodRemoves(n) PROVE OsdInv'
  <2>1. shm' = [shm EXCEPT ![n] = OGone] /\ RodChange BY <1>8, Zenon DEF RodRemoves
  <2>2. shm' \in [ONames -> X] BY <1>5, <1>7, <2>1, Zenon
  <2>3. QED BY <1>2, <1>3, <2>1, <2>2, Zenon DEF ShmTyped
<1>9. ASSUME NEW n \in ONames, NEW h \in OHeights, RodCreates(n, h) PROVE OsdInv'
  <2>1. shm' = [shm EXCEPT ![n] = Fresh(h)] /\ RodChange BY <1>9, Zenon DEF RodCreates
  <2>2. shm' \in [ONames -> X] BY <1>6, <1>7, <2>1, Zenon
  <2>3. QED BY <1>2, <1>3, <2>1, <2>2, Zenon DEF ShmTyped
<1>10. ASSUME NEW h \in OHeights, RodFont(h) PROVE OsdInv'
  <2>1. shm' = [n \in ONames |-> IF shm[n].on THEN Fresh(h) ELSE OGone] /\ RodChange BY <1>10, Zenon DEF RodFont
  <2>2. shm' \in [ONames -> X] BY <1>5, <1>6, <2>1, Zenon
  <2>3. QED BY <1>2, <1>3, <2>1, <2>2, Zenon DEF ShmTyped
<1>11. QED BY <1>8, <1>9, <1>10, Zenon

LEMMA OsdStep == ASSUME OsdInv, ONext \/ UNCHANGED ovars PROVE OsdInv'
<1>1. CASE UNCHANGED ovars BY <1>1, Zenon DEF OsdInv, ShmTyped, ovars
<1>2. QED BY <1>1, CheckStep, InitStreamStep, OsdDown, OsdQuiet, RodSteps, Zenon DEF ONext

LEMMA OsdStart == ASSUME OInit PROVE OsdInv
<1>1. /\ shm = [n \in ONames |-> OGone] /\ osd = [regs |-> <<>>, hw |-> 1]
      /\ opriv = [on |-> FALSE, cover |-> "hidden"]
      /\ ostage = "up" /\ lostHw = 0 /\ changes = OChanges
  BY Zenon DEF OInit
<1>2. 0 \in Nat /\ OChanges \in 0 .. OChanges /\ 1 \in Nat /\ 1 <= OHardware BY RvdOsdConstants
<1>3. OGone \in [on : BOOLEAN, ino : Nat, h : Nat] BY <1>2, Zenon DEF OGone
<1>4. ShmTyped BY <1>1, <1>3, Zenon DEF ShmTyped
<1>5. opriv \in [on : BOOLEAN, cover : {"none", "hidden", "shown"}] /\ opriv.cover = "hidden" BY <1>1, Zenon
<1>6. Covers("hidden") + 0 = 1 BY DEF Covers
<1>8. PICK b : b = [regs |-> <<>>, hw |-> 1] BY Zenon
<1>9. <<>> \in Seq(RegRecord) /\ Len(<<>>) = 0 OBVIOUS
<1>10. b \in OsdRecord /\ b.regs = <<>> /\ b.hw = 1 BY <1>2, <1>8, <1>9, Zenon DEF OsdRecord
<1>11. Distinct(b.regs) BY <1>9, <1>10, RvdOsdConstants DEF Distinct
<1>12. Taken(b) = {} BY <1>9, <1>10 DEF Taken
<1>13. Handles(b) = 0 BY <1>10, <1>12, TakenFinite, FS_EmptySet
<1>15. b.hw = Handles(b) + 1 /\ b.hw <= OHardware BY <1>2, <1>10, <1>13
<1>16. b \in Slots(1) BY <1>10, <1>11, <1>15, Zenon DEF Slots, Apart
<1>17. osd \in Slots(Covers(opriv.cover) + lostHw) BY <1>1, <1>5, <1>6, <1>8, <1>16, Zenon
<1>18. QED BY <1>1, <1>2, <1>4, <1>5, <1>17, Zenon DEF OsdInv

LEMMA OsdHolds == ASSUME OsdInv PROVE RegionsHeld /\ OTypeOK
<1>1. PICK t \in OsdRecord : /\ t = osd /\ t.hw <= OHardware /\ t.hw = Handles(t) + (Covers(opriv.cover) + lostHw)
                             /\ Distinct(t.regs)
  BY Zenon DEF OsdInv, Slots, Apart
<1>2. Handles(t) \in Nat /\ t.hw \in Nat BY TakenFinite
<1>3. lostHw \in Nat BY Zenon DEF OsdInv
<1>4. PICK c \in Nat : c = Covers(opriv.cover) BY DEF Covers
<1>5. t.hw = Handles(t) + c + lostHw /\ t.hw \in 0 .. OHardware /\ lostHw \in 0 .. OHardware
  BY <1>1, <1>2, <1>3, <1>4, RvdOsdConstants
<1>6. osd.hw = Handles(osd) + (IF opriv.cover = "none" THEN 0 ELSE 1) + lostHw
  BY <1>1, <1>4, <1>5, Zenon DEF Covers
<1>7. RegionsHeld BY <1>1, <1>6, Zenon DEF RegionsHeld, Distinct
<1>8. DOMAIN shm = ONames BY Zenon DEF OsdInv, ShmTyped
<1>9. Len(osd.regs) <= OMaxRegions BY <1>1, Zenon DEF Distinct
<1>10. QED BY <1>1, <1>5, <1>7, <1>8, <1>9, Zenon DEF OTypeOK, OsdInv

-----------------------------------------------------------------------------
(* The stream table: b video streams, then the snapshot streams.           *)
RowRecord ==
    [jpeg : BOOLEAN, sensor : Int, sub : BOOLEAN, fs : Int, chn : Int, w : Int, h : Int, ivdc : BOOLEAN,
     scaler : BOOLEAN, swapped : BOOLEAN, ring : BOOLEAN]
Rows(c) == [0 .. c - 1 -> RowRecord]
Tables == UNION {Rows(c) : c \in Nat}
Mains(t) == {k \in DOMAIN t : t[k].ivdc}
SlotTable == [0 .. RVD_MAX_JPEG - 1 -> Int]

\* The rows are what the SDK accepts: channels apart, IVDC mains first,
\* snapshot streams behind and each beside a video stream, sizes alike.
RowsSound(t, b) ==
    /\ \A i \in DOMAIN t : t[i].w > 0 /\ t[i].h > 0 /\ t[i].chn >= 0 /\ (t[i].jpeg <=> i >= b)
    /\ \A i \in DOMAIN t : t[i].ivdc => i < b /\ t[i].chn < Cardinality(Mains(t))
    /\ \A i \in DOMAIN t : \A k \in DOMAIN t : t[i].chn = t[k].chn => i = k
    /\ \A i \in DOMAIN t : i >= b => \E k \in DOMAIN t : k < b /\ t[k].fs = t[i].fs
    /\ \A i \in DOMAIN t : \A k \in DOMAIN t : t[i].fs = t[k].fs => t[i].w = t[k].w /\ t[i].h = t[k].h

\* A slot is free or names a snapshot stream, and every one has its slot.
SlotsSound(sl, b, c) ==
    /\ \A j \in DOMAIN sl : sl[j] = -1 \/ (sl[j] >= b /\ sl[j] < c)
    /\ \A j \in DOMAIN sl : \A m \in DOMAIN sl : sl[j] = sl[m] /\ sl[j] # -1 => j = m
    /\ \A i \in b .. c - 1 : \E j \in DOMAIN sl : sl[j] = i

TableOk(t, sl, b, c) ==
    /\ b \in Nat /\ c \in Nat /\ b <= c /\ c <= 4 * NSensors
    /\ t \in Rows(c) /\ sl \in SlotTable /\ RowsSound(t, b) /\ SlotsSound(sl, b, c)

TableInv ==
    /\ board \in Boards
    /\ at \in [phase : {"table", "fs", "video", "snaps", "ready", "failed"}, i : Nat]
    /\ at.phase = "table" => table = [i \in {} |-> 0] /\ slot = [j \in 0 .. RVD_MAX_JPEG - 1 |-> -1]
    /\ at.phase # "table" => \E b, c \in Nat : TableOk(table, slot, b, c)

LEMMA RowCount == ASSUME NEW c \in Nat, NEW t \in Rows(c) PROVE DOMAIN t = 0 .. c - 1 /\ Count(t) = c
<1>1. DOMAIN t = 0 .. c - 1 BY DEF Rows
<1>2. 0 \in Int /\ c - 1 \in Int OBVIOUS
<1>3. Cardinality(0 .. c - 1) = IF 0 > c - 1 THEN 0 ELSE c - 1 - 0 + 1 BY <1>2, FS_Interval, Zenon
<1>4. Cardinality(0 .. c - 1) = c BY <1>3
<1>5. QED BY <1>1, <1>4, Zenon DEF Count

LEMMA NoRows == [i \in {} |-> 0] \in Rows(0)
<1>1. 0 .. 0 - 1 = {} OBVIOUS
<1>2. QED BY <1>1, Zenon DEF Rows

LEMMA AddRow ==
    ASSUME NEW c \in Nat, NEW t \in Rows(c), NEW r \in RowRecord
    PROVE  /\ Append1(t, r) \in Rows(c + 1) /\ Append1(t, r)[c] = r
           /\ \A i \in 0 .. c - 1 : Append1(t, r)[i] = t[i]
<1>1. Count(t) = c BY RowCount
<1>2. Append1(t, r) = [i \in 0 .. c |-> IF i = c THEN r ELSE t[i]] BY <1>1, Zenon DEF Append1
<1>3. /\ \A i \in 0 .. c : i # c => i \in 0 .. c - 1
      /\ \A i \in 0 .. c - 1 : i \in 0 .. c /\ i # c
      /\ c \in 0 .. c /\ 0 .. c = 0 .. (c + 1) - 1
  OBVIOUS
<1>4. \A i \in 0 .. c - 1 : t[i] \in RowRecord BY Zenon DEF Rows
<1>5. Append1(t, r) \in [0 .. c -> RowRecord] BY <1>2, <1>3, <1>4, Zenon
<1>6. QED BY <1>2, <1>3, <1>5, Zenon DEF Rows

\* The video streams of the first sensors, their framesources below m.
Plain(r, m) == ~r.jpeg /\ r.w > 0 /\ r.h > 0 /\ r.fs < m
VideoRows(t, c, m) ==
    /\ c \in Nat /\ t \in Rows(c) /\ \A i \in 0 .. c - 1 : Plain(t[i], m)
    /\ \A i \in 0 .. c - 1 : \A k \in 0 .. c - 1 : t[i].fs = t[k].fs => i = k

LEMMA AddVideo ==
    ASSUME NEW m \in Int, NEW c, NEW t, VideoRows(t, c, m),
           NEW r \in RowRecord, ~r.jpeg, r.w > 0, r.h > 0, r.fs >= m, NEW n \in Int, r.fs < n
    PROVE  VideoRows(Append1(t, r), c + 1, n)
<1>1. c \in Nat /\ t \in Rows(c) BY Zenon DEF VideoRows
<1>2. PICK u : u = Append1(t, r) BY Zenon
<1>3. u \in Rows(c + 1) /\ u[c] = r /\ \A i \in 0 .. c - 1 : u[i] = t[i] BY <1>1, <1>2, AddRow, ZenonT(60)
<1>4. \A i \in 0 .. c - 1 : t[i] \in RowRecord BY <1>1, Zenon DEF Rows
<1>5. /\ \A i \in 0 .. c - 1 : t[i].fs \in Int /\ t[i].fs < m
      /\ \A i \in 0 .. c - 1 : \A k \in 0 .. c - 1 : t[i].fs = t[k].fs => i = k
  BY <1>4, Zenon DEF VideoRows, Plain, RowRecord
<1>6. r.fs \in Int BY Zenon DEF RowRecord
<1>7. \A i \in 0 .. (c + 1) - 1 : i = c \/ i \in 0 .. c - 1 BY <1>1
<1>8. \A i \in 0 .. c - 1 : u[i].fs < n BY <1>3, <1>5, <1>6
<1>9. \A i \in 0 .. (c + 1) - 1 : Plain(u[i], n) BY <1>3, <1>7, <1>8, Zenon DEF Plain, VideoRows
<1>10. \A i \in 0 .. (c + 1) - 1 : \A k \in 0 .. (c + 1) - 1 : u[i].fs = u[k].fs => i = k
  BY <1>3, <1>5, <1>6, <1>7
<1>11. c + 1 \in Nat BY <1>1
<1>12. QED BY <1>2, <1>3, <1>9, <1>10, <1>11, Zenon DEF VideoRows

LEMMA Pictures ==
    ASSUME NEW sz \in SensorSizes
    PROVE  /\ DefPic(sz)[1] \in Int /\ DefPic(sz)[2] \in Int /\ DefPic(sz)[1] > 0 /\ DefPic(sz)[2] > 0
           /\ SubPic(sz)[1] \in Int /\ SubPic(sz)[2] \in Int /\ SubPic(sz)[1] > 0 /\ SubPic(sz)[2] > 0
<1>1. PICK a \in Nat, b \in Nat : sz = <<a, b>> /\ (a > 0 /\ b > 0 => a > 1 /\ b > 1 /\ a <= 80 * b)
  BY RvdTableConstants
<1>2. PICK d : d = DefPic(sz) BY Zenon
<1>3. \E x, y \in Int : d = <<x, y>> /\ x > 1 /\ y > 1 /\ x <= 80 * y BY <1>1, <1>2 DEF DefPic
<1>4. PICK x, y \in Int : d = <<x, y>> /\ x > 1 /\ y > 1 /\ x <= 80 * y BY <1>3
<1>5. d[1] = x /\ d[2] = y BY <1>4
<1>6. SubPic(sz) = IF x > 640 THEN <<640, (((y * 640) \div x) \div 8) * 8>> ELSE <<x \div 2, y \div 2>>
  BY <1>2, <1>5 DEF SubPic
<1>7. CASE x > 640
  <2>1. PICK q \in Int : q = (y * 640) \div x BY <1>4
  <2>2. y * 640 >= 8 * x BY <1>4
  <2>3. q >= 8
    <3>1. x * q <= y * 640 /\ y * 640 < x * q + x BY <1>4, <2>1
    <3>2. SUFFICES ASSUME q <= 7 PROVE FALSE BY <2>1
    <3>3. x * q <= x * 7 BY <1>4, <2>1, <3>2
    <3>4. x * q \in Int BY <1>4, <2>1
    <3>5. QED BY <1>4, <2>2, <3>1, <3>3, <3>4
  <2>4. q \div 8 \in Int /\ q \div 8 >= 1 BY <2>1, <2>3
  <2>5. SubPic(sz)[1] = 640 /\ SubPic(sz)[2] = (q \div 8) * 8 BY <1>6, <1>7, <2>1
  <2>6. QED BY <1>2, <1>4, <1>5, <2>4, <2>5
<1>8. CASE ~(x > 640)
  <2>1. SubPic(sz)[1] = x \div 2 /\ SubPic(sz)[2] = y \div 2 BY <1>6, <1>8
  <2>2. x \div 2 \in Int /\ x \div 2 > 0 /\ y \div 2 \in Int /\ y \div 2 > 0 BY <1>4
  <2>3. QED BY <1>2, <1>4, <1>5, <2>1, <2>2
<1>9. QED BY <1>7, <1>8

LEMMA VideoRow ==
    ASSUME NEW s \in Int, NEW sub \in BOOLEAN, NEW pic, pic[1] \in Int, pic[2] \in Int
    PROVE  /\ Video(s, sub, pic) \in RowRecord /\ ~Video(s, sub, pic).jpeg
           /\ Video(s, sub, pic).w = pic[1] /\ Video(s, sub, pic).h = pic[2]
           /\ Video(s, sub, pic).fs = 3 * s + (IF sub THEN 1 ELSE 0)
<1>1. PICK e \in Int : e = IF sub THEN 1 ELSE 0 OBVIOUS
<1>2. PICK f \in Int : f = fs_base_channel(s) + e /\ f = 3 * s + e BY DEF fs_base_channel
<1>3. PICK n \in Int : n = -1 OBVIOUS
<1>4. PICK iv \in BOOLEAN : iv = (~sub /\ s \in board.ivdc) BY Zenon
<1>5. PICK sc \in BOOLEAN : sc = Scales(pic, board.size) BY Zenon DEF Scales
<1>6. PICK x \in Int, y \in Int : x = pic[1] /\ y = pic[2] BY Zenon
<1>7. PICK no \in BOOLEAN : ~no BY Zenon
<1>8. PICK r : r = [jpeg |-> no, sensor |-> s, sub |-> sub, fs |-> f, chn |-> n, w |-> x, h |-> y, ivdc |-> iv,
                    scaler |-> sc, swapped |-> no, ring |-> no]
  BY Zenon
<1>9. Video(s, sub, pic) = r BY <1>1, <1>2, <1>3, <1>4, <1>5, <1>6, <1>7, <1>8, Zenon DEF Video
<1>10. r \in RowRecord BY <1>8, Zenon DEF RowRecord
<1>11. r.jpeg = no /\ r.w = x /\ r.h = y /\ r.fs = f BY <1>8, Zenon
<1>12. QED BY <1>1, <1>2, <1>6, <1>7, <1>9, <1>10, <1>11, Zenon

LEMMA MoreRows == ASSUME NEW t \in Tables, NEW r \in RowRecord PROVE Append1(t, r) \in Tables
<1>1. PICK c \in Nat : t \in Rows(c) BY Zenon DEF Tables
<1>2. Append1(t, r) \in Rows(c + 1) /\ c + 1 \in Nat BY <1>1, AddRow
<1>3. QED BY <1>2, Zenon DEF Tables

\* The rows of one sensor.
LEMMA MainRow ==
    ASSUME board \in Boards, NEW s \in Nat
    PROVE  LET r == Video(s, FALSE, DefPic(board.size))
           IN  r \in RowRecord /\ ~r.jpeg /\ r.w > 0 /\ r.h > 0 /\ r.fs = 3 * s
<1>1. PICK sz \in SensorSizes : sz = board.size BY Zenon DEF Boards
<1>2. PICK pic : pic = DefPic(sz) BY Zenon
<1>3. pic[1] \in Int /\ pic[2] \in Int /\ pic[1] > 0 /\ pic[2] > 0 BY <1>2, Pictures, Zenon
<1>4. PICK no \in BOOLEAN : no = FALSE BY Zenon
<1>5. s \in Int OBVIOUS
<1>6. PICK r : r = Video(s, no, pic) BY Zenon
<1>7. r \in RowRecord /\ ~r.jpeg /\ r.w = pic[1] /\ r.h = pic[2] /\ r.fs = 3 * s + (IF no THEN 1 ELSE 0)
  BY <1>3, <1>5, <1>6, VideoRow, ZenonT(60)
<1>8. r.fs = 3 * s + 0 BY <1>4, <1>7, Zenon
<1>9. r.fs = 3 * s BY <1>8
<1>10. r \in RowRecord /\ ~r.jpeg /\ r.w > 0 /\ r.h > 0 BY <1>3, <1>7, Zenon
<1>11. QED BY <1>1, <1>2, <1>4, <1>6, <1>9, <1>10, Zenon

LEMMA SubRow ==
    ASSUME board \in Boards, NEW s \in Nat
    PROVE  LET r == Video(s, TRUE, SubPic(board.size))
           IN  r \in RowRecord /\ ~r.jpeg /\ r.w > 0 /\ r.h > 0 /\ r.fs = 3 * s + 1
<1>1. PICK sz \in SensorSizes : sz = board.size BY Zenon DEF Boards
<1>2. PICK pic : pic = SubPic(sz) BY Zenon
<1>3. pic[1] \in Int /\ pic[2] \in Int /\ pic[1] > 0 /\ pic[2] > 0 BY <1>2, Pictures, Zenon
<1>4. PICK yes \in BOOLEAN : yes = TRUE BY Zenon
<1>5. s \in Int OBVIOUS
<1>6. PICK r : r = Video(s, yes, pic) BY Zenon
<1>7. r \in RowRecord /\ ~r.jpeg /\ r.w = pic[1] /\ r.h = pic[2] /\ r.fs = 3 * s + (IF yes THEN 1 ELSE 0)
  BY <1>3, <1>5, <1>6, VideoRow, ZenonT(60)
<1>8. r.fs = 3 * s + 1 BY <1>4, <1>7, Zenon
<1>10. r \in RowRecord /\ ~r.jpeg /\ r.w > 0 /\ r.h > 0 BY <1>3, <1>7, Zenon
<1>11. QED BY <1>1, <1>2, <1>4, <1>6, <1>8, <1>10, Zenon

\* A sensor adds one or two rows behind those of the sensors before it.
SensorRows(t, s) ==
    LET m == Append1(t, Video(s, FALSE, DefPic(board.size)))
    IN  IF s \in board.subs THEN Append1(m, Video(s, TRUE, SubPic(board.size))) ELSE m

LEMMA SensorRowsHeld ==
    ASSUME board \in Boards, NEW s \in Nat
    PROVE  /\ \A t \in Tables : SensorRows(t, s) \in Tables
           /\ \A t : (\E c \in Nat : c <= 2 * s /\ VideoRows(t, c, 3 * s)) =>
                 \E c \in Nat : c <= 2 * (s + 1) /\ VideoRows(SensorRows(t, s), c, 3 * (s + 1))
<1>1. PICK r : r = Video(s, FALSE, DefPic(board.size)) BY Zenon
<1>2. r \in RowRecord /\ ~r.jpeg /\ r.w > 0 /\ r.h > 0 /\ r.fs = 3 * s BY <1>1, MainRow, Zenon
<1>3. PICK q : q = Video(s, TRUE, SubPic(board.size)) BY Zenon
<1>4. q \in RowRecord /\ ~q.jpeg /\ q.w > 0 /\ q.h > 0 /\ q.fs = 3 * s + 1 BY <1>3, SubRow, Zenon
<1>5. \A t : SensorRows(t, s) = IF s \in board.subs THEN Append1(Append1(t, r), q) ELSE Append1(t, r)
  BY <1>1, <1>3, Zenon DEF SensorRows
<1>6. \A t \in Tables : Append1(t, r) \in Tables /\ Append1(Append1(t, r), q) \in Tables BY <1>2, <1>4, MoreRows, Zenon
<1>7. ASSUME NEW t, NEW c \in Nat, c <= 2 * s, VideoRows(t, c, 3 * s)
      PROVE  \E d \in Nat : d <= 2 * (s + 1) /\ VideoRows(SensorRows(t, s), d, 3 * (s + 1))
  <2>1. PICK m \in Int, m1 \in Int, m3 \in Int : m = 3 * s /\ m1 = m + 1 /\ m3 = 3 * (s + 1) OBVIOUS
  <2>2. r.fs >= m /\ r.fs < m1 /\ r.fs < m3 /\ q.fs >= m1 /\ q.fs < m3 BY <1>2, <1>4, <2>1
  <2>3. PICK u : u = Append1(t, r) BY Zenon
  <2>4. VideoRows(t, c, m) BY <1>7, <2>1, Zenon
  <2>5. VideoRows(u, c + 1, m1) /\ VideoRows(u, c + 1, m3) BY <1>2, <2>1, <2>2, <2>3, <2>4, AddVideo, Zenon
  <2>6. VideoRows(Append1(u, q), c + 1 + 1, m3) BY <1>4, <2>1, <2>2, <2>5, AddVideo, Zenon
  <2>7. c + 1 \in Nat /\ c + 1 + 1 \in Nat /\ c + 1 <= 2 * (s + 1) /\ c + 1 + 1 <= 2 * (s + 1) BY <1>7
  <2>8. QED BY <1>5, <2>1, <2>3, <2>5, <2>6, <2>7, Zenon
<1>8. QED BY <1>5, <1>6, <1>7, Zenon

LEMMA VideosLaid ==
    ASSUME board \in Boards
    PROVE  \E c \in Nat : c <= 2 * NSensors /\ VideoRows(VideoStreams, c, 3 * NSensors)
<1>1. PICK n \in Nat : n = NSensors BY RvdTableConstants
<1>2. PICK A : A = Tables BY Zenon
<1>3. PICK e : e = [i \in {} |-> 0] BY Zenon
<1> DEFINE G(k, T) == SensorRows(T, k - 1)
<1>4. \A k \in 1 .. n : k - 1 \in Nat /\ k - 1 \in 0 .. n /\ k \in 0 .. n /\ k # 0 OBVIOUS
<1>5. ASSUME NEW k \in 1 .. n, NEW T \in A PROVE G(k, T) \in A BY <1>2, <1>4, SensorRowsHeld, Zenon
<1> HIDE DEF G
<1>6. PICK F : F = [k \in 1 .. n |-> [T \in A |-> G(k, T)]] BY Zenon
<1>7. F \in Steps(n, A) BY <1>5, <1>6, Zenon DEF Steps
<1>8. e \in Rows(0) /\ 0 \in Nat BY <1>3, NoRows
<1>9. e \in A BY <1>2, <1>8, Zenon DEF Tables
<1>10. PICK f : Loop(f, n, A, e, F) BY <1>7, <1>9, LoopExists, Zenon
<1>11. f \in [0 .. n -> A] /\ f[0] = e /\ \A k \in 1 .. n : f[k] = F[k][f[k - 1]] BY <1>10, Zenon DEF Loop
<1>12. \A k \in 1 .. n : f[k] = G(k, f[k - 1]) BY <1>4, <1>6, <1>11, Zenon
<1>13. \A k \in 0 .. n : k = 0 \/ k \in 1 .. n OBVIOUS
<1>14. f = [k \in 0 .. n |-> IF k = 0 THEN e ELSE G(k, f[k - 1])] BY <1>11, <1>12, <1>13, Zenon
<1>15. PICK g : g = (CHOOSE c : c = [k \in 0 .. n |-> IF k = 0 THEN e ELSE G(k, c[k - 1])]) BY Zenon
<1>16. g = [k \in 0 .. n |-> IF k = 0 THEN e ELSE G(k, g[k - 1])] BY <1>14, <1>15, Zenon
<1>17. VideoStreams = g[n] BY <1>1, <1>3, <1>15, Zenon DEF VideoStreams, G, SensorRows
<1>18. PICK D : D = {k \in 0 .. n : \E c \in Nat : c <= 2 * k /\ VideoRows(g[k], c, 3 * k)} BY Zenon
<1>19. 0 \in D
  <2>1. 0 \in 0 .. n /\ 0 .. 0 - 1 = {} /\ 0 <= 2 * 0 OBVIOUS
  <2>2. g[0] = e BY <1>16, <2>1, Zenon
  <2>3. VideoRows(g[0], 0, 3 * 0) BY <1>8, <2>1, <2>2, Zenon DEF VideoRows
  <2>4. QED BY <1>8, <1>18, <2>1, <2>3, Zenon
<1>20. ASSUME NEW k \in 1 .. n, k - 1 \in D PROVE k \in D
  <2>1. PICK s \in Nat : s = k - 1 /\ s + 1 = k BY <1>4
  <2>2. \E c \in Nat : c <= 2 * s /\ VideoRows(g[s], c, 3 * s) BY <1>18, <1>20, <2>1, Zenon
  <2>3. g[k] = SensorRows(g[s], s) BY <1>4, <1>16, <2>1, Zenon DEF G
  <2>4. \E c \in Nat : c <= 2 * (s + 1) /\ VideoRows(g[k], c, 3 * (s + 1)) BY <2>2, <2>3, SensorRowsHeld, Zenon
  <2>5. QED BY <1>4, <1>18, <2>1, <2>4, Zenon
<1>21. n \in 0 .. n BY <1>1
<1>22. n \in D BY <1>19, <1>20, <1>21, Upto, Zenon
<1>23. QED BY <1>1, <1>17, <1>18, <1>22, Zenon

\* How many of a set lie below i: less than there are, and more for a later i.
Below(i, S) == Cardinality({k \in S : k < i})

LEMMA Rank ==
    ASSUME NEW c \in Nat, NEW S \in SUBSET (0 .. c - 1)
    PROVE  /\ Cardinality(S) \in Nat
           /\ \A i \in S : Below(i, S) \in Nat /\ Below(i, S) < Cardinality(S)
           /\ \A i \in S : \A k \in S : i < k => Below(i, S) < Below(k, S)
<1>1. IsFiniteSet(0 .. c - 1)
  <2>1. 0 \in Int /\ c - 1 \in Int OBVIOUS
  <2>2. QED BY <2>1, FS_Interval, Zenon
<1>2. IsFiniteSet(S) BY <1>1, FS_Subset, Zenon
<1>3. Cardinality(S) \in Nat BY <1>2, FS_CardinalityType, Zenon
<1>4. ASSUME NEW i \in S, NEW Y \in SUBSET S, \A k \in S : k < i => k \in Y, i \in Y
      PROVE  Below(i, S) \in Nat /\ Below(i, S) < Cardinality(Y) /\ Cardinality(Y) \in Nat
  <2>1. PICK X : X = {k \in S : k < i} BY Zenon
  <2>2. X \subseteq S /\ i \notin X BY <2>1
  <2>3. IsFiniteSet(X) /\ IsFiniteSet(Y) BY <1>2, <2>2, FS_Subset, Zenon
  <2>4. Cardinality(X \cup {i}) = Cardinality(X) + 1 /\ IsFiniteSet(X \cup {i}) BY <2>2, <2>3, FS_AddElement, Zenon
  <2>5. X \cup {i} \subseteq Y BY <1>4, <2>1, Zenon
  <2>6. Cardinality(X \cup {i}) <= Cardinality(Y) BY <2>3, <2>5, FS_Subset, Zenon
  <2>7. Cardinality(X) \in Nat /\ Cardinality(Y) \in Nat BY <2>3, FS_CardinalityType, Zenon
  <2>8. Cardinality(X) < Cardinality(Y) BY <2>4, <2>6, <2>7
  <2>9. QED BY <2>1, <2>7, <2>8, Zenon DEF Below
<1>5. \A i \in S : Below(i, S) \in Nat /\ Below(i, S) < Cardinality(S) BY <1>4, Zenon
<1>6. ASSUME NEW i \in S, NEW k \in S, i < k PROVE Below(i, S) < Below(k, S)
  <2>1. PICK Y : Y = {x \in S : x < k} BY Zenon
  <2>2. Y \in SUBSET S /\ (\A x \in S : x < i => x \in Y) /\ i \in Y BY <1>6, <2>1
  <2>3. QED BY <1>4, <2>1, <2>2, Zenon DEF Below
<1>7. QED BY <1>3, <1>5, <1>6

\* The channels Grouped gives: the mains' ranks, then the others'.
Group(i, M, R) == IF i \in M THEN Below(i, M) ELSE Cardinality(M) + Below(i, R)

LEMMA Groups ==
    ASSUME NEW c \in Nat, NEW M \in SUBSET (0 .. c - 1), NEW R, R = (0 .. c - 1) \ M
    PROVE  /\ \A i \in 0 .. c - 1 : Group(i, M, R) \in Nat /\ Group(i, M, R) < c
           /\ \A i \in M : Group(i, M, R) < Cardinality(M)
           /\ \A i \in 0 .. c - 1 : \A k \in 0 .. c - 1 : Group(i, M, R) = Group(k, M, R) => i = k
<1>1. PICK a \in Nat, b \in Nat : a = Cardinality(M) /\ b = Cardinality(R) BY Rank
<1>2. a + b = c
  <2>1. IsFiniteSet(0 .. c - 1) /\ Cardinality(0 .. c - 1) = IF 0 > c - 1 THEN 0 ELSE c - 1 - 0 + 1
    <3>1. 0 \in Int /\ c - 1 \in Int OBVIOUS
    <3>2. QED BY <3>1, FS_Interval, Zenon
  <2>2. IsFiniteSet(M) /\ IsFiniteSet(R) BY <2>1, FS_Subset, Zenon
  <2>3. M \cup R = 0 .. c - 1 /\ M \cap R = {} BY Zenon
  <2>4. Cardinality(M \cup R) = Cardinality(M) + Cardinality(R) - Cardinality(M \cap R)
    BY <2>2, FS_Union, Zenon
  <2>5. Cardinality(M \cap R) = 0 BY <2>3, FS_EmptySet, Zenon
  <2>6. Cardinality(0 .. c - 1) = c BY <2>1
  <2>7. c = a + b - 0 BY <1>1, <2>3, <2>4, <2>5, <2>6, Zenon
  <2>8. QED BY <2>7
<1>3. /\ \A i \in M : Below(i, M) \in Nat /\ Below(i, M) < a
      /\ \A i \in M : \A k \in M : i < k => Below(i, M) < Below(k, M)
  BY <1>1, Rank, Zenon
<1>4. R \in SUBSET (0 .. c - 1) BY Zenon
<1>5. /\ \A i \in R : Below(i, R) \in Nat /\ Below(i, R) < b
      /\ \A i \in R : \A k \in R : i < k => Below(i, R) < Below(k, R)
  BY <1>1, <1>4, Rank, Zenon
<1>6. \A i \in M : Group(i, M, R) = Below(i, M) BY Zenon DEF Group
<1>7. \A i \in R : Group(i, M, R) = a + Below(i, R) BY <1>1, Zenon DEF Group
<1>8. \A i \in 0 .. c - 1 : i \in M \/ i \in R BY Zenon
<1>9. \A i \in M : Group(i, M, R) \in Nat /\ Group(i, M, R) < a BY <1>3, <1>6, Zenon
<1>10. \A i \in R : Group(i, M, R) \in Nat /\ Group(i, M, R) < c /\ Group(i, M, R) >= a
  BY <1>2, <1>5, <1>7
<1>11. \A i \in 0 .. c - 1 : Group(i, M, R) \in Nat /\ Group(i, M, R) < c
  <2>1. SUFFICES ASSUME NEW i \in 0 .. c - 1 PROVE Group(i, M, R) \in Nat /\ Group(i, M, R) < c OBVIOUS
  <2>2. CASE i \in M
    <3>1. PICK x \in Nat : x = Group(i, M, R) /\ x < a BY <1>9, <2>2, Zenon
    <3>2. x < c BY <1>2, <3>1
    <3>3. QED BY <3>1, <3>2, Zenon
  <2>3. QED BY <1>8, <1>10, <2>2, Zenon
<1>12. ASSUME NEW i \in 0 .. c - 1, NEW k \in 0 .. c - 1, Group(i, M, R) = Group(k, M, R), i < k PROVE FALSE
  <2>1. CASE i \in M /\ k \in M BY <1>3, <1>6, <1>12, <2>1
  <2>2. CASE i \in R /\ k \in R BY <1>5, <1>7, <1>12, <2>2
  <2>3. CASE (i \in M /\ k \in R) \/ (i \in R /\ k \in M)
    <3>1. PICK x \in Nat : x = Group(i, M, R) BY <1>11, Zenon
    <3>2. x < a /\ x >= a BY <1>9, <1>10, <1>12, <2>3, <3>1, Zenon
    <3>3. QED BY <3>1, <3>2
  <2>4. QED BY <1>8, <2>1, <2>2, <2>3, Zenon
<1>13. \A i \in 0 .. c - 1 : \A k \in 0 .. c - 1 : i = k \/ i < k \/ k < i OBVIOUS
<1>14. QED BY <1>1, <1>9, <1>11, <1>12, <1>13, Zenon

\* The video streams with their groups.
Videos(t, c) ==
    /\ c \in Nat /\ t \in Rows(c)
    /\ \A i \in 0 .. c - 1 : ~t[i].jpeg /\ t[i].w > 0 /\ t[i].h > 0 /\ t[i].chn >= 0 /\ t[i].chn < c
    /\ \A i \in Mains(t) : t[i].chn < Cardinality(Mains(t))
    /\ \A i \in 0 .. c - 1 : \A k \in 0 .. c - 1 : t[i].chn = t[k].chn => i = k
    /\ \A i \in 0 .. c - 1 : \A k \in 0 .. c - 1 : t[i].fs = t[k].fs => i = k

LEMMA VideosGrouped ==
    ASSUME NEW m \in Int, NEW c, NEW t, VideoRows(t, c, m)
    PROVE  Videos(Grouped(t), c)
<1>1. c \in Nat /\ t \in Rows(c) BY Zenon DEF VideoRows
<1>2. DOMAIN t = 0 .. c - 1 /\ \A i \in 0 .. c - 1 : t[i] \in RowRecord BY <1>1, Zenon DEF Rows
<1>3. PICK M : M = {i \in DOMAIN t : t[i].ivdc} BY Zenon
<1>4. PICK R : R = (0 .. c - 1) \ M BY Zenon
<1>5. M \in SUBSET (0 .. c - 1) BY <1>2, <1>3, Zenon
<1>6. PICK u : u = Grouped(t) BY Zenon
<1>7. u = [i \in 0 .. c - 1 |-> [t[i] EXCEPT !.chn = Group(i, M, R)]]
  BY <1>2, <1>3, <1>4, <1>6, Zenon DEF Grouped, Group, Below
<1>8. /\ \A i \in 0 .. c - 1 : Group(i, M, R) \in Nat /\ Group(i, M, R) < c
      /\ \A i \in M : Group(i, M, R) < Cardinality(M)
      /\ \A i \in 0 .. c - 1 : \A k \in 0 .. c - 1 : Group(i, M, R) = Group(k, M, R) => i = k
  BY <1>1, <1>4, <1>5, Groups, Zenon
<1>9. \A i \in 0 .. c - 1 : Group(i, M, R) \in Int /\ Group(i, M, R) >= 0 BY <1>8
<1>10. \A i \in 0 .. c - 1 : /\ u[i].jpeg = t[i].jpeg /\ u[i].w = t[i].w /\ u[i].h = t[i].h /\ u[i].fs = t[i].fs
                             /\ u[i].ivdc = t[i].ivdc /\ u[i].chn = Group(i, M, R) /\ u[i] \in RowRecord
  BY <1>2, <1>7, <1>9, Zenon DEF RowRecord
<1>11. DOMAIN u = 0 .. c - 1 /\ u \in Rows(c) BY <1>7, <1>10, Zenon DEF Rows
<1>12. Mains(u) = M BY <1>2, <1>3, <1>10, <1>11, Zenon DEF Mains
<1>13. \A i \in 0 .. c - 1 : ~u[i].jpeg /\ u[i].w > 0 /\ u[i].h > 0 BY <1>10, Zenon DEF VideoRows, Plain
<1>14. \A i \in 0 .. c - 1 : \A k \in 0 .. c - 1 : u[i].fs = u[k].fs => i = k BY <1>10, Zenon DEF VideoRows
<1>15. \A i \in 0 .. c - 1 : u[i].chn >= 0 /\ u[i].chn < c BY <1>8, <1>9, <1>10, Zenon
<1>0. \A i \in M : u[i].chn = Group(i, M, R) BY <1>5, <1>10, Zenon
<1>16. \A i \in Mains(u) : u[i].chn < Cardinality(Mains(u)) BY <1>0, <1>8, <1>12, Zenon
<1>17. \A i \in 0 .. c - 1 : \A k \in 0 .. c - 1 : u[i].chn = u[k].chn => i = k
  <2>1. ASSUME NEW i \in 0 .. c - 1, NEW k \in 0 .. c - 1, u[i].chn = u[k].chn PROVE i = k
    <3>1. Group(i, M, R) = Group(k, M, R) BY <1>10, <2>1, Zenon
    <3>2. QED BY <1>8, <3>1, Zenon
  <2>2. QED BY <2>1, Zenon
<1>18. \A i \in 0 .. c - 1 : ~u[i].jpeg /\ u[i].w > 0 /\ u[i].h > 0 /\ u[i].chn >= 0 /\ u[i].chn < c
  BY <1>13, <1>15, Zenon
<1>19. Videos(u, c) BY <1>1, <1>11, <1>14, <1>16, <1>17, <1>18, Zenon DEF Videos
<1>20. QED BY <1>6, <1>19, Zenon

\* One snapshot stream more, behind the others.
LEMMA RowsAdd ==
    ASSUME NEW b \in Nat, NEW c \in Nat, b <= c, NEW t \in Rows(c), RowsSound(t, b),
           NEW s \in RowRecord, s.jpeg, ~s.ivdc, s.chn >= 0, \A i \in 0 .. c - 1 : t[i].chn < s.chn,
           NEW m \in 0 .. b - 1, t[m].fs = s.fs, t[m].w = s.w, t[m].h = s.h
    PROVE  RowsSound(Append1(t, s), b)
<1>1. PICK u : u = Append1(t, s) BY Zenon
<1>2. u \in Rows(c + 1) /\ u[c] = s /\ \A i \in 0 .. c - 1 : u[i] = t[i] BY <1>1, AddRow, ZenonT(60)
<1>3. DOMAIN t = 0 .. c - 1 BY RowCount, Zenon
<1>4. c + 1 \in Nat OBVIOUS
<1>5. DOMAIN u = 0 .. (c + 1) - 1 BY <1>2, <1>4, RowCount, Zenon
<1>6. /\ \A i \in 0 .. (c + 1) - 1 : i = c \/ i \in 0 .. c - 1
      /\ \A i \in 0 .. c - 1 : i \in 0 .. (c + 1) - 1
      /\ m \in 0 .. c - 1 /\ c >= b /\ m < b /\ c \in 0 .. (c + 1) - 1
  OBVIOUS
<1>7. Mains(u) = Mains(t) BY <1>2, <1>3, <1>5, <1>6, Zenon DEF Mains
<1>8. /\ \A i \in 0 .. c - 1 : t[i].w > 0 /\ t[i].h > 0 /\ t[i].chn >= 0 /\ (t[i].jpeg <=> i >= b)
      /\ \A i \in 0 .. c - 1 : t[i].ivdc => i < b /\ t[i].chn < Cardinality(Mains(t))
      /\ \A i \in 0 .. c - 1 : \A k \in 0 .. c - 1 : t[i].chn = t[k].chn => i = k
      /\ \A i \in 0 .. c - 1 : i >= b => \E k \in 0 .. c - 1 : k < b /\ t[k].fs = t[i].fs
      /\ \A i \in 0 .. c - 1 : \A k \in 0 .. c - 1 : t[i].fs = t[k].fs => t[i].w = t[k].w /\ t[i].h = t[k].h
  BY <1>3, ZenonT(60) DEF RowsSound
<1>9. s.w > 0 /\ s.h > 0 BY <1>6, <1>8, Zenon
<1>10. \A i \in DOMAIN u : u[i].w > 0 /\ u[i].h > 0 /\ u[i].chn >= 0 /\ (u[i].jpeg <=> i >= b)
  BY <1>2, <1>5, <1>6, <1>8, <1>9, Zenon
<1>11. \A i \in DOMAIN u : u[i].ivdc => i < b /\ u[i].chn < Cardinality(Mains(u))
  BY <1>2, <1>5, <1>6, <1>7, <1>8, Zenon
<1>12. \A i \in 0 .. c - 1 : t[i].chn # s.chn
  <2>1. \A i \in 0 .. c - 1 : t[i].chn \in Int BY Zenon DEF Rows, RowRecord
  <2>2. QED BY <2>1
<1>13. \A i \in DOMAIN u : \A k \in DOMAIN u : u[i].chn = u[k].chn => i = k
  <2>1. ASSUME NEW i \in DOMAIN u, NEW k \in DOMAIN u, u[i].chn = u[k].chn PROVE i = k
    <3>1. (i = c \/ i \in 0 .. c - 1) /\ (k = c \/ k \in 0 .. c - 1) BY <1>5, <1>6, Zenon
    <3>2. CASE i \in 0 .. c - 1 /\ k \in 0 .. c - 1
      <4>1. t[i].chn = t[k].chn BY <1>2, <2>1, <3>2, Zenon
      <4>2. QED BY <1>8, <3>2, <4>1, Zenon
    <3>3. CASE i = c /\ k \in 0 .. c - 1 BY <1>2, <1>12, <2>1, <3>3, Zenon
    <3>4. CASE k = c /\ i \in 0 .. c - 1 BY <1>2, <1>12, <2>1, <3>4, Zenon
    <3>5. QED BY <3>1, <3>2, <3>3, <3>4, Zenon
  <2>2. QED BY <2>1, Zenon
<1>14. \A i \in DOMAIN u : i >= b => \E k \in DOMAIN u : k < b /\ u[k].fs = u[i].fs
  <2>1. ASSUME NEW i \in DOMAIN u, i >= b PROVE \E k \in DOMAIN u : k < b /\ u[k].fs = u[i].fs
    <3>1. CASE i = c BY <1>2, <1>5, <1>6, <3>1, Zenon
    <3>2. CASE i \in 0 .. c - 1
      <4>1. PICK k \in 0 .. c - 1 : k < b /\ t[k].fs = t[i].fs BY <1>8, <2>1, <3>2, Zenon
      <4>2. QED BY <1>2, <1>5, <1>6, <3>2, <4>1, Zenon
    <3>3. QED BY <1>5, <1>6, <3>1, <3>2, Zenon
  <2>2. QED BY <2>1, Zenon
<1>15. ASSUME NEW i \in DOMAIN u, NEW k \in DOMAIN u, u[i].fs = u[k].fs PROVE u[i].w = u[k].w /\ u[i].h = u[k].h
  <2>1. (i = c \/ i \in 0 .. c - 1) /\ (k = c \/ k \in 0 .. c - 1) BY <1>5, <1>6, Zenon
  <2>2. CASE i \in 0 .. c - 1 /\ k \in 0 .. c - 1
    <3>1. t[i].fs = t[k].fs BY <1>2, <1>15, <2>2, Zenon
    <3>2. t[i].w = t[k].w /\ t[i].h = t[k].h BY <1>8, <2>2, <3>1, Zenon
    <3>3. QED BY <1>2, <2>2, <3>2, Zenon
  <2>3. CASE i = c /\ k \in 0 .. c - 1
    <3>1. t[m].fs = t[k].fs BY <1>2, <1>15, <2>3, Zenon
    <3>2. t[m].w = t[k].w /\ t[m].h = t[k].h BY <1>6, <1>8, <2>3, <3>1, Zenon
    <3>3. QED BY <1>2, <2>3, <3>2, Zenon
  <2>4. CASE k = c /\ i \in 0 .. c - 1
    <3>1. t[i].fs = t[m].fs BY <1>2, <1>15, <2>4, Zenon
    <3>2. t[i].w = t[m].w /\ t[i].h = t[m].h BY <1>6, <1>8, <2>4, <3>1, Zenon
    <3>3. QED BY <1>2, <2>4, <3>2, Zenon
  <2>5. QED BY <2>1, <2>2, <2>3, <2>4, Zenon
<1>16. RowsSound(u, b) BY <1>10, <1>11, <1>13, <1>14, <1>15, Zenon DEF RowsSound
<1>17. QED BY <1>1, <1>16, Zenon

FreeFrom(sl, n) == \A j \in 0 .. RVD_MAX_JPEG - 1 : j >= n => sl[j] = -1

LEMMA SlotsAdd ==
    ASSUME NEW b \in Nat, NEW c \in Nat, b <= c, NEW sl \in SlotTable, SlotsSound(sl, b, c),
           NEW n \in 0 .. RVD_MAX_JPEG - 1, FreeFrom(sl, n), NEW q, q = [sl EXCEPT ![n] = c]
    PROVE  q \in SlotTable /\ SlotsSound(q, b, c + 1) /\ FreeFrom(q, n + 1)
<1> DEFINE J == 0 .. RVD_MAX_JPEG - 1
<1>1. \A j \in J : j >= n => sl[j] = -1 BY Zenon DEF FreeFrom
<1>2. sl \in [J -> Int] BY Zenon DEF SlotTable
<1>3. c \in Int OBVIOUS
<1>4. q \in [J -> Int] /\ q[n] = c /\ \A j \in J : j # n => q[j] = sl[j] BY <1>2, <1>3, Zenon
<1>5. /\ \A j \in J : sl[j] = -1 \/ (sl[j] >= b /\ sl[j] < c)
      /\ \A j \in J : \A m \in J : sl[j] = sl[m] /\ sl[j] # -1 => j = m
      /\ \A i \in b .. c - 1 : \E j \in J : sl[j] = i
  BY <1>2, Zenon DEF SlotsSound
<1>6. \A j \in J : j >= n + 1 => q[j] = -1 BY <1>1, <1>4, RvdTableConstants
<1>7. \A j \in J : q[j] = -1 \/ (q[j] >= b /\ q[j] < c + 1) BY <1>2, <1>4, <1>5
<1>8. \A j \in J : sl[j] # c BY <1>2, <1>5
<1>9. \A j \in J : \A m \in J : q[j] = q[m] /\ q[j] # -1 => j = m
  <2>1. ASSUME NEW j \in J, NEW m \in J, q[j] = q[m], q[j] # -1 PROVE j = m
    <3>1. CASE j = n BY <1>4, <1>8, <2>1, <3>1, Zenon
    <3>2. CASE m = n BY <1>4, <1>8, <2>1, <3>2, Zenon
    <3>3. CASE j # n /\ m # n
      <4>1. sl[j] = sl[m] /\ sl[j] # -1 BY <1>4, <2>1, <3>3, Zenon
      <4>2. QED BY <1>5, <4>1, Zenon
    <3>4. QED BY <3>1, <3>2, <3>3, Zenon
  <2>2. QED BY <2>1, Zenon
<1>10. ASSUME NEW i \in b .. (c + 1) - 1 PROVE \E j \in J : q[j] = i
  <2>1. CASE i = c BY <1>4, <2>1, Zenon
  <2>2. CASE i # c
    <3>1. i \in b .. c - 1 /\ i # -1 BY <1>10, <2>2
    <3>2. PICK j \in J : sl[j] = i BY <1>5, <3>1, Zenon
    <3>3. n >= n /\ n \in J OBVIOUS
    <3>4. j # n BY <1>1, <3>1, <3>2, <3>3, Zenon
    <3>5. QED BY <1>4, <3>2, <3>4, Zenon
  <2>3. QED BY <2>1, <2>2, Zenon
<1>11. q \in SlotTable BY <1>4, Zenon DEF SlotTable
<1>12. DOMAIN q = J BY <1>4, Zenon
<1> HIDE DEF J
<1>13. SlotsSound(q, b, c + 1) BY <1>7, <1>9, <1>10, <1>12, Zenon DEF SlotsSound
<1>14. QED BY <1>6, <1>11, <1>13, Zenon DEF J, FreeFrom

\* The loop that pairs snapshot streams with video streams: what it holds
\* after k of them, n slots being behind it.
PairRecord == [t : Tables, n : Nat, slot : SlotTable]
PairRows(t, v, n, b, c) ==
    /\ t \in Rows(c) /\ RowsSound(t, b) /\ \A i \in 0 .. c - 1 : t[i].chn < b + n
    /\ \A i \in 0 .. b - 1 : t[i] = v[i]
PairOk(p, v, b, k) ==
    /\ p \in PairRecord /\ p.n <= RVD_MAX_JPEG
    /\ FreeFrom(p.slot, p.n)
    /\ \E c \in Nat : b <= c /\ c <= b + k /\ PairRows(p.t, v, p.n, b, c) /\ SlotsSound(p.slot, b, c)
PairStep(p, v, b, k) ==
    LET r == v[k]
    IN  IF p.n >= RVD_MAX_JPEG THEN p
        ELSE IF r.ivdc THEN [p EXCEPT !.n = p.n + 1]
        ELSE IF ~WantsJpeg(k, r, b + p.n) THEN p
        ELSE [t |-> Append1(p.t, Snapshot(r, b + p.n)), n |-> p.n + 1,
              slot |-> [p.slot EXCEPT ![p.n] = Count(p.t)]]

LEMMA SnapshotRow ==
    ASSUME NEW r \in RowRecord, NEW chn \in Int
    PROVE  LET s == Snapshot(r, chn)
           IN  /\ s \in RowRecord /\ s.jpeg /\ ~s.ivdc /\ s.chn = chn
               /\ s.fs = r.fs /\ s.w = r.w /\ s.h = r.h
<1>1. PICK yes \in BOOLEAN, no \in BOOLEAN : yes /\ ~no BY Zenon
<1>2. PICK s : s = [r EXCEPT !.jpeg = yes, !.chn = chn, !.ivdc = no] BY Zenon
<1>3. Snapshot(r, chn) = s BY <1>1, <1>2, Zenon DEF Snapshot
<1>4. s \in RowRecord /\ s.jpeg = yes /\ s.chn = chn /\ s.ivdc = no /\ s.fs = r.fs /\ s.w = r.w /\ s.h = r.h
  BY <1>2, Zenon DEF RowRecord
<1>5. QED BY <1>1, <1>3, <1>4, Zenon

LEMMA PairTyped ==
    ASSUME NEW p \in PairRecord, NEW b \in Nat, NEW v \in Rows(b), NEW k \in 0 .. b - 1
    PROVE  PairStep(p, v, b, k) \in PairRecord
<1>1. p.t \in Tables /\ p.n \in Nat /\ p.slot \in SlotTable BY Zenon DEF PairRecord
<1>2. PICK r \in RowRecord : r = v[k] BY Zenon DEF Rows
<1>3. PICK n \in Nat : n = p.n + 1 BY <1>1
<1>4. PICK c \in Nat : p.t \in Rows(c) BY <1>1, Zenon DEF Tables
<1>5. Count(p.t) = c /\ c \in Int BY <1>4, RowCount
<1>6. PICK s : s = Snapshot(r, b + p.n) BY Zenon
<1>7. b + p.n \in Int BY <1>1
<1>8. s \in RowRecord BY <1>6, <1>7, SnapshotRow, Zenon
<1>9. PICK t \in Tables : t = Append1(p.t, s) BY <1>1, <1>8, MoreRows, Zenon
<1>10. PICK sl \in SlotTable : sl = [p.slot EXCEPT ![p.n] = Count(p.t)] BY <1>1, <1>5, Zenon DEF SlotTable
<1>11. [p EXCEPT !.n = n] \in PairRecord /\ [t |-> t, n |-> n, slot |-> sl] \in PairRecord BY Zenon DEF PairRecord
<1>12. PairStep(p, v, b, k) \in {p, [p EXCEPT !.n = n], [t |-> t, n |-> n, slot |-> sl]}
  BY <1>2, <1>3, <1>6, <1>9, <1>10, Zenon DEF PairStep
<1>13. QED BY <1>11, <1>12, Zenon

LEMMA PairHeld ==
    ASSUME NEW b, NEW v, Videos(v, b), NEW k \in 0 .. b - 1, NEW p, PairOk(p, v, b, k)
    PROVE  PairOk(PairStep(p, v, b, k), v, b, k + 1)
<1>1. b \in Nat /\ v \in Rows(b) BY Zenon DEF Videos
<1>2. p \in PairRecord BY Zenon DEF PairOk
<1>3. p.t \in Tables /\ p.n \in Nat /\ p.slot \in SlotTable BY <1>2, Zenon DEF PairRecord
<1>4. PICK c \in Nat : b <= c /\ c <= b + k /\ PairRows(p.t, v, p.n, b, c) /\ SlotsSound(p.slot, b, c)
  BY Zenon DEF PairOk
<1>5. c <= b + (k + 1) BY <1>1, <1>4
<1>6. PICK r \in RowRecord : r = v[k] BY <1>1, Zenon DEF Rows
<1>7. CASE PairStep(p, v, b, k) = p BY <1>4, <1>5, <1>7, Zenon DEF PairOk
<1>8. p.n >= RVD_MAX_JPEG \/ (p.n + 1 <= RVD_MAX_JPEG /\ p.n \in 0 .. RVD_MAX_JPEG - 1) BY <1>3, RvdTableConstants
<1>9. CASE p.n + 1 <= RVD_MAX_JPEG /\ PairStep(p, v, b, k) = [p EXCEPT !.n = p.n + 1]
  <2>1. PICK n \in Nat : n = p.n + 1 BY <1>3
  <2>2. PICK q : q = [p EXCEPT !.n = n] BY Zenon
  <2>3. q \in PairRecord /\ q.n = n /\ q.t = p.t /\ q.slot = p.slot BY <1>2, <2>2, Zenon DEF PairRecord
  <2>4. \A j \in 0 .. RVD_MAX_JPEG - 1 : j >= n => j >= p.n BY <1>3, <2>1, RvdTableConstants
  <2>5. FreeFrom(q.slot, q.n) BY <2>3, <2>4, Zenon DEF PairOk, FreeFrom
  <2>6. /\ p.t \in Rows(c) /\ RowsSound(p.t, b) /\ \A i \in 0 .. c - 1 : p.t[i].chn < b + p.n
        /\ \A i \in 0 .. b - 1 : p.t[i] = v[i]
    BY <1>4, Zenon DEF PairRows
  <2>7. \A i \in 0 .. c - 1 : p.t[i].chn \in Int BY <2>6, Zenon DEF Rows, RowRecord
  <2>8. \A i \in 0 .. c - 1 : p.t[i].chn < b + n BY <1>1, <1>3, <2>1, <2>6, <2>7
  <2>9. PairRows(q.t, v, q.n, b, c) BY <2>3, <2>6, <2>8, Zenon DEF PairRows
  <2>10. PairOk(q, v, b, k + 1) BY <1>4, <1>5, <1>9, <2>1, <2>3, <2>5, <2>9, Zenon DEF PairOk
  <2>11. QED BY <1>9, <2>1, <2>2, <2>10, Zenon
<1>10. CASE /\ p.n \in 0 .. RVD_MAX_JPEG - 1 /\ p.n + 1 <= RVD_MAX_JPEG
            /\ PairStep(p, v, b, k) = [t |-> Append1(p.t, Snapshot(r, b + p.n)), n |-> p.n + 1,
                                       slot |-> [p.slot EXCEPT ![p.n] = Count(p.t)]]
  <2>1. PICK n \in Nat : n = p.n + 1 BY <1>3
  <2>2. PICK chn \in Int : chn = b + p.n /\ chn >= 0 /\ chn < b + n BY <1>1, <1>3, <2>1
  <2>3. PICK s : s = Snapshot(r, chn) BY Zenon
  <2>4. s \in RowRecord /\ s.jpeg /\ ~s.ivdc /\ s.chn = chn /\ s.fs = r.fs /\ s.w = r.w /\ s.h = r.h
    BY <2>3, SnapshotRow, Zenon
  <2>5. PICK t : t = p.t BY Zenon
  <2>6. /\ t \in Rows(c) /\ RowsSound(t, b) /\ \A i \in 0 .. c - 1 : t[i].chn < chn
        /\ \A i \in 0 .. b - 1 : t[i] = v[i]
    BY <1>4, <2>2, <2>5, Zenon DEF PairRows
  <2>7. PICK u : u = Append1(t, s) BY Zenon
  <2>8. u \in Rows(c + 1) /\ u[c] = s /\ \A i \in 0 .. c - 1 : u[i] = t[i] BY <2>4, <2>6, <2>7, AddRow, ZenonT(60)
  <2>9. /\ s.chn >= 0 /\ (\A i \in 0 .. c - 1 : t[i].chn < s.chn)
        /\ t[k].fs = s.fs /\ t[k].w = s.w /\ t[k].h = s.h
    BY <1>6, <2>2, <2>4, <2>6, Zenon
  <2>10. RowsSound(u, b) BY <1>1, <1>4, <2>4, <2>6, <2>7, <2>9, RowsAdd, Zenon
  <2>11. \A i \in 0 .. c - 1 : t[i].chn \in Int BY <2>6, Zenon DEF Rows, RowRecord
  <2>12. \A i \in 0 .. c - 1 : t[i].chn < b + n BY <1>1, <1>3, <2>1, <2>2, <2>6, <2>11
  <2>13. /\ \A i \in 0 .. (c + 1) - 1 : i = c \/ i \in 0 .. c - 1
         /\ \A i \in 0 .. b - 1 : i \in 0 .. c - 1
    BY <1>1, <1>4
  <2>14. \A i \in 0 .. (c + 1) - 1 : u[i].chn < b + n BY <2>2, <2>4, <2>8, <2>12, <2>13, Zenon
  <2>15. \A i \in 0 .. b - 1 : u[i] = v[i] BY <2>6, <2>8, <2>13, Zenon
  <2>16. PairRows(u, v, n, b, c + 1) BY <2>8, <2>10, <2>14, <2>15, Zenon DEF PairRows
  <2>17. Count(t) = c BY <2>6, RowCount, Zenon
  <2>0. PICK m \in 0 .. RVD_MAX_JPEG - 1, z \in SlotTable : m = p.n /\ z = p.slot BY <1>3, <1>10, Zenon
  <2>18. PICK sl : sl = [z EXCEPT ![m] = c] BY Zenon
  <2>19. FreeFrom(z, m) /\ SlotsSound(z, b, c) BY <1>4, <2>0, Zenon DEF PairOk
  <2>20. sl \in SlotTable /\ SlotsSound(sl, b, c + 1) /\ FreeFrom(sl, m + 1) BY <1>1, <1>4, <2>18, <2>19, SlotsAdd, Zenon
  <2>21. PICK q : q = [t |-> u, n |-> n, slot |-> sl] BY Zenon
  <2>22. c + 1 \in Nat /\ b <= c + 1 /\ c + 1 <= b + (k + 1) BY <1>1, <1>4
  <2>23. u \in Tables BY <2>8, <2>22, Zenon DEF Tables
  <2>24. q \in PairRecord /\ q.t = u /\ q.n = n /\ q.slot = sl BY <2>20, <2>21, <2>23, Zenon DEF PairRecord
  <2>25. PairStep(p, v, b, k) = q BY <1>10, <2>1, <2>2, <2>3, <2>5, <2>7, <2>17, <2>18, <2>21, <2>0, Zenon
  <2>26. PairOk(q, v, b, k + 1) BY <1>10, <2>1, <2>0, <2>16, <2>20, <2>22, <2>24, Zenon DEF PairOk
  <2>27. QED BY <2>25, <2>26, Zenon
<1>11. QED BY <1>6, <1>7, <1>8, <1>9, <1>10, Zenon DEF PairStep

LEMMA PairStarts ==
    ASSUME NEW b, NEW v, Videos(v, b), NEW a,
           a = [t |-> v, n |-> 0, slot |-> [j \in 0 .. RVD_MAX_JPEG - 1 |-> -1]]
    PROVE  a \in PairRecord /\ PairOk(a, v, b, 0)
<1>1. b \in Nat /\ v \in Rows(b) BY Zenon DEF Videos
<1>2. PICK sl : sl = [j \in 0 .. RVD_MAX_JPEG - 1 |-> -1] BY Zenon
<1>3. -1 \in Int /\ 0 \in Nat /\ 0 <= RVD_MAX_JPEG /\ b <= b /\ b <= b + 0 BY <1>1, RvdTableConstants
<1>4. sl \in SlotTable /\ \A j \in 0 .. RVD_MAX_JPEG - 1 : sl[j] = -1 BY <1>2, <1>3, Zenon DEF SlotTable
<1>5. v \in Tables BY <1>1, Zenon DEF Tables
<1>6. a \in PairRecord /\ a.t = v /\ a.n = 0 /\ a.slot = sl BY <1>2, <1>3, <1>4, <1>5, Zenon DEF PairRecord
<1>7. FreeFrom(sl, 0) BY <1>4, Zenon DEF FreeFrom
<1>8. DOMAIN sl = 0 .. RVD_MAX_JPEG - 1 BY <1>2, Zenon
<1>9. b .. b - 1 = {} BY <1>1
<1>10. SlotsSound(sl, b, b) BY <1>4, <1>8, <1>9, Zenon DEF SlotsSound
<1>11. DOMAIN v = 0 .. b - 1 BY <1>1, RowCount, Zenon
<1>12. \A i \in 0 .. b - 1 : i < b /\ ~(i >= b) BY <1>1
<1>13. /\ \A i \in 0 .. b - 1 : ~v[i].jpeg /\ v[i].w > 0 /\ v[i].h > 0 /\ v[i].chn >= 0 /\ v[i].chn < b
       /\ \A i \in Mains(v) : v[i].chn < Cardinality(Mains(v))
       /\ \A i \in 0 .. b - 1 : \A k \in 0 .. b - 1 : v[i].chn = v[k].chn => i = k
       /\ \A i \in 0 .. b - 1 : \A k \in 0 .. b - 1 : v[i].fs = v[k].fs => i = k
  BY Zenon DEF Videos
<1>14. \A i \in DOMAIN v : v[i].ivdc => i < b /\ v[i].chn < Cardinality(Mains(v))
  BY <1>11, <1>12, <1>13, Zenon DEF Mains
<1>15. RowsSound(v, b)
  <2>1. \A i \in DOMAIN v : v[i].w > 0 /\ v[i].h > 0 /\ v[i].chn >= 0 /\ (v[i].jpeg <=> i >= b)
    BY <1>11, <1>12, <1>13, Zenon
  <2>2. \A i \in DOMAIN v : \A k \in DOMAIN v : v[i].chn = v[k].chn => i = k BY <1>11, <1>13, Zenon
  <2>3. \A i \in DOMAIN v : i >= b => \E k \in DOMAIN v : k < b /\ v[k].fs = v[i].fs BY <1>11, <1>12, Zenon
  <2>4. ASSUME NEW i \in DOMAIN v, NEW k \in DOMAIN v, v[i].fs = v[k].fs PROVE v[i].w = v[k].w /\ v[i].h = v[k].h
    <3>1. i = k BY <1>11, <1>13, <2>4, Zenon
    <3>2. QED BY <3>1, Zenon
  <2>5. QED BY <1>14, <2>1, <2>2, <2>3, <2>4, Zenon DEF RowsSound
<1>16. b + 0 = b BY <1>1
<1>17. PairRows(v, v, 0, b, b) BY <1>1, <1>13, <1>15, <1>16, Zenon DEF PairRows
<1>18. QED BY <1>1, <1>3, <1>6, <1>7, <1>10, <1>17, Zenon DEF PairOk

LEMMA PairedSound ==
    ASSUME NEW b, NEW v, Videos(v, b), b <= 2 * NSensors
    PROVE  \E c \in Nat : TableOk(Paired(v).t, Paired(v).slot, b, c)
<1>1. b \in Nat /\ v \in Rows(b) /\ Count(v) = b
  <2>1. b \in Nat /\ v \in Rows(b) BY Zenon DEF Videos
  <2>2. QED BY <2>1, RowCount, Zenon
<1>2. PICK A : A = PairRecord BY Zenon
<1>3. PICK a : a = [t |-> v, n |-> 0, slot |-> [j \in 0 .. RVD_MAX_JPEG - 1 |-> -1]] BY Zenon
<1> DEFINE G(k, T) == PairStep(T, v, b, k - 1)
<1>4. \A k \in 1 .. b : k - 1 \in 0 .. b - 1 /\ k - 1 \in 0 .. b /\ k \in 0 .. b /\ k # 0 /\ (k - 1) + 1 = k BY <1>1
<1>5. ASSUME NEW k \in 1 .. b, NEW T \in A PROVE G(k, T) \in A BY <1>1, <1>2, <1>4, PairTyped, Zenon
<1> HIDE DEF G
<1>6. PICK F : F = [k \in 1 .. b |-> [T \in A |-> G(k, T)]] BY Zenon
<1>7. F \in Steps(b, A) BY <1>5, <1>6, Zenon DEF Steps
<1>8. a \in A /\ PairOk(a, v, b, 0) BY <1>2, <1>3, PairStarts, Zenon
<1>9. PICK f : Loop(f, b, A, a, F) BY <1>1, <1>7, <1>8, LoopExists, Zenon
<1>10. f \in [0 .. b -> A] /\ f[0] = a /\ \A k \in 1 .. b : f[k] = F[k][f[k - 1]] BY <1>9, Zenon DEF Loop
<1>11. \A k \in 1 .. b : f[k] = G(k, f[k - 1]) BY <1>4, <1>6, <1>10, Zenon
<1>12. \A k \in 0 .. b : k = 0 \/ k \in 1 .. b BY <1>1
<1>13. f = [k \in 0 .. b |-> IF k = 0 THEN a ELSE G(k, f[k - 1])] BY <1>10, <1>11, <1>12, Zenon
<1>14. PICK g : g = (CHOOSE c : c = [k \in 0 .. b |-> IF k = 0 THEN a ELSE G(k, c[k - 1])]) BY Zenon
<1>15. g = [k \in 0 .. b |-> IF k = 0 THEN a ELSE G(k, g[k - 1])] BY <1>13, <1>14, Zenon
<1>16. Paired(v) = g[b]
  <2>1. Paired(v) =
          (CHOOSE c : c = [k \in 0 .. Count(v) |->
              IF k = 0 THEN [t |-> v, n |-> 0, slot |-> [j \in 0 .. RVD_MAX_JPEG - 1 |-> -1]]
              ELSE PairStep(c[k - 1], v, Count(v), k - 1)])[Count(v)]
    BY Zenon DEF Paired, PairStep
  <2>2. PICK n : n = Count(v) /\ b = n BY <1>1, Zenon
  <2>3. Paired(v) = (CHOOSE c : c = [k \in 0 .. n |-> IF k = 0 THEN a ELSE PairStep(c[k - 1], v, n, k - 1)])[n]
    BY <1>3, <2>1, <2>2, Zenon
  <2>4. g = (CHOOSE c : c = [k \in 0 .. n |-> IF k = 0 THEN a ELSE PairStep(c[k - 1], v, n, k - 1)])
    BY <1>14, <2>2, ZenonT(60) DEF G
  <2>5. QED BY <2>2, <2>3, <2>4, Zenon
<1>17. PICK D : D = {k \in 0 .. b : PairOk(g[k], v, b, k)} BY Zenon
<1>18. 0 \in D
  <2>1. 0 \in 0 .. b BY <1>1
  <2>2. QED BY <1>8, <1>15, <1>17, <2>1, Zenon
<1>19. ASSUME NEW k \in 1 .. b, k - 1 \in D PROVE k \in D
  <2>1. PICK s \in 0 .. b - 1 : s = k - 1 /\ s + 1 = k BY <1>4, Zenon
  <2>2. PairOk(g[s], v, b, s) BY <1>17, <1>19, <2>1, Zenon
  <2>3. g[k] = PairStep(g[s], v, b, s) BY <1>4, <1>15, <2>1, Zenon DEF G
  <2>4. PairOk(g[k], v, b, s + 1) BY <2>2, <2>3, PairHeld, Zenon
  <2>5. QED BY <1>4, <1>17, <2>1, <2>4, Zenon
<1>20. b \in 0 .. b BY <1>1
<1>21. b \in D BY <1>1, <1>18, <1>19, <1>20, Upto, Zenon
<1>22. PICK p : p = Paired(v) BY Zenon
<1>23. PairOk(p, v, b, b) BY <1>16, <1>17, <1>21, <1>22, Zenon
<1>24. PICK c \in Nat : b <= c /\ c <= b + b /\ PairRows(p.t, v, p.n, b, c) /\ SlotsSound(p.slot, b, c)
  BY <1>23, Zenon DEF PairOk
<1>25. c <= 4 * NSensors BY <1>1, <1>24, RvdTableConstants
<1>26. p.t \in Rows(c) /\ RowsSound(p.t, b) /\ p.slot \in SlotTable BY <1>23, <1>24, Zenon DEF PairOk, PairRows, PairRecord
<1>27. TableOk(p.t, p.slot, b, c) BY <1>1, <1>24, <1>25, <1>26, Zenon DEF TableOk
<1>28. QED BY <1>22, <1>27, Zenon

LEMMA TableBuilt ==
    ASSUME TableInv, BuildTable
    PROVE  TableInv'
<1>1. PICK p : p = Paired(Grouped(VideoStreams)) BY Zenon
<1>2. at' = [phase |-> "fs", i |-> 0] /\ board' = board /\ table' = p.t /\ slot' = p.slot BY <1>1, Zenon DEF BuildTable
<1>3. board \in Boards BY Zenon DEF TableInv
<1>4. PICK b \in Nat : b <= 2 * NSensors /\ VideoRows(VideoStreams, b, 3 * NSensors) BY <1>3, VideosLaid, Zenon
<1>5. PICK m \in Int : m = 3 * NSensors BY RvdTableConstants
<1>6. PICK t : t = VideoStreams BY Zenon
<1>7. VideoRows(t, b, m) BY <1>4, <1>5, <1>6, Zenon
<1>8. PICK v : v = Grouped(t) BY Zenon
<1>9. Videos(v, b) BY <1>7, <1>8, VideosGrouped, Zenon
<1>10. PICK c \in Nat : TableOk(Paired(v).t, Paired(v).slot, b, c) BY <1>4, <1>9, PairedSound, Zenon
<1>11. TableOk(table', slot', b, c) BY <1>1, <1>2, <1>6, <1>8, <1>10, Zenon
<1>12. \E x, y \in Nat : TableOk(table', slot', x, y) BY <1>11, Zenon
<1>13. 0 \in Nat OBVIOUS
<1>14. at' \in [phase : {"table", "fs", "video", "snaps", "ready", "failed"}, i : Nat] /\ at'.phase = "fs" BY <1>2, <1>13, Zenon
<1>15. QED BY <1>2, <1>3, <1>12, <1>14, Zenon DEF TableInv

\* A row may be resized or get its ring as long as a framesource's encoders
\* stay alike.
LEMMA SameShape ==
    ASSUME NEW b, NEW c, NEW t, NEW sl, TableOk(t, sl, b, c), NEW u \in Rows(c),
           \A i \in 0 .. c - 1 : /\ u[i].jpeg = t[i].jpeg /\ u[i].ivdc = t[i].ivdc /\ u[i].chn = t[i].chn
                                 /\ u[i].fs = t[i].fs /\ u[i].w > 0 /\ u[i].h > 0,
           \A i \in 0 .. c - 1 : \A k \in 0 .. c - 1 : t[i].fs = t[k].fs => u[i].w = u[k].w /\ u[i].h = u[k].h
    PROVE  TableOk(u, sl, b, c)
<1>1. c \in Nat /\ t \in Rows(c) /\ RowsSound(t, b) BY Zenon DEF TableOk
<1>2. DOMAIN t = 0 .. c - 1 /\ DOMAIN u = 0 .. c - 1 BY <1>1, RowCount, Zenon
<1>3. Mains(u) = Mains(t) BY <1>2, Zenon DEF Mains
<1>4. \A i \in DOMAIN u : u[i].w > 0 /\ u[i].h > 0 /\ u[i].chn >= 0 /\ (u[i].jpeg <=> i >= b)
  BY <1>1, <1>2, Zenon DEF RowsSound
<1>5. \A i \in DOMAIN u : u[i].ivdc => i < b /\ u[i].chn < Cardinality(Mains(u))
  BY <1>1, <1>2, <1>3, Zenon DEF RowsSound
<1>6. ASSUME NEW i \in DOMAIN u, NEW k \in DOMAIN u, u[i].chn = u[k].chn PROVE i = k
  <2>1. t[i].chn = t[k].chn BY <1>2, <1>6, Zenon
  <2>2. QED BY <1>1, <1>2, <2>1, Zenon DEF RowsSound
<1>7. ASSUME NEW i \in DOMAIN u, i >= b PROVE \E k \in DOMAIN u : k < b /\ u[k].fs = u[i].fs
  <2>1. PICK k \in DOMAIN t : k < b /\ t[k].fs = t[i].fs BY <1>1, <1>2, <1>7, Zenon DEF RowsSound
  <2>2. QED BY <1>2, <2>1, Zenon
<1>8. ASSUME NEW i \in DOMAIN u, NEW k \in DOMAIN u, u[i].fs = u[k].fs PROVE u[i].w = u[k].w /\ u[i].h = u[k].h
  <2>1. t[i].fs = t[k].fs BY <1>2, <1>8, Zenon
  <2>2. QED BY <1>2, <2>1, Zenon
<1>9. RowsSound(u, b) BY <1>4, <1>5, <1>6, <1>7, <1>8, Zenon DEF RowsSound
<1>10. QED BY <1>9, Zenon DEF TableOk

LEMMA TurnHeld ==
    ASSUME NEW b, NEW c, TableOk(table, slot, b, c), NEW fsc
    PROVE  TableOk(Turn(fsc), slot, b, c)
<1>1. PICK t, sl, u : t = table /\ sl = slot /\ u = Turn(fsc) BY Zenon
<1>2. TableOk(t, sl, b, c) BY <1>1, Zenon
<1>3. c \in Nat /\ t \in Rows(c) /\ RowsSound(t, b) BY <1>2, Zenon DEF TableOk
<1>4. DOMAIN t = 0 .. c - 1 BY <1>3, RowCount, Zenon
<1>5. \A i \in 0 .. c - 1 : t[i] \in RowRecord BY <1>3, Zenon DEF Rows
<1>6. /\ \A i \in 0 .. c - 1 : t[i].w > 0 /\ t[i].h > 0
      /\ \A i \in 0 .. c - 1 : \A k \in 0 .. c - 1 : t[i].fs = t[k].fs => t[i].w = t[k].w /\ t[i].h = t[k].h
  BY <1>3, <1>4, Zenon DEF RowsSound
<1>7. ASSUME NEW i \in 0 .. c - 1
      PROVE  /\ u[i] \in RowRecord /\ u[i].jpeg = t[i].jpeg /\ u[i].ivdc = t[i].ivdc /\ u[i].chn = t[i].chn
             /\ u[i].fs = t[i].fs
             /\ t[i].fs = fsc => u[i].w = t[i].h /\ u[i].h = t[i].w
             /\ t[i].fs # fsc => u[i].w = t[i].w /\ u[i].h = t[i].h
  <2>1. PICK r \in RowRecord : r = t[i] BY <1>5, Zenon
  <2>2. PICK x \in BOOLEAN : x = ~r.swapped BY Zenon
  <2>3. PICK q : q = [r EXCEPT !.w = r.h, !.h = r.w, !.swapped = x] BY Zenon
  <2>4. /\ q \in RowRecord /\ q.jpeg = r.jpeg /\ q.ivdc = r.ivdc /\ q.chn = r.chn /\ q.fs = r.fs
        /\ q.w = r.h /\ q.h = r.w
    BY <2>3, Zenon DEF RowRecord
  <2>5. u[i] = IF r.fs = fsc THEN q ELSE r BY <1>1, <1>4, <2>1, <2>2, <2>3, Zenon DEF Turn
  <2>6. QED BY <2>1, <2>4, <2>5, Zenon
<1>8. DOMAIN u = 0 .. c - 1 BY <1>1, <1>4, Zenon DEF Turn
<1>9. u = [i \in 0 .. c - 1 |-> u[i]] BY <1>1, <1>4, Zenon DEF Turn
<1>10. u \in Rows(c) BY <1>7, <1>9, Zenon DEF Rows
<1>11. \A i \in 0 .. c - 1 : u[i].w > 0 /\ u[i].h > 0 BY <1>6, <1>7, Zenon
<1>12. ASSUME NEW i \in 0 .. c - 1, NEW k \in 0 .. c - 1, t[i].fs = t[k].fs PROVE u[i].w = u[k].w /\ u[i].h = u[k].h
  <2>1. t[i].w = t[k].w /\ t[i].h = t[k].h BY <1>6, <1>12, Zenon
  <2>2. CASE t[i].fs = fsc
    <3>1. u[i].w = t[i].h /\ u[i].h = t[i].w BY <1>7, <2>2, Zenon
    <3>2. u[k].w = t[k].h /\ u[k].h = t[k].w BY <1>7, <1>12, <2>2, Zenon
    <3>3. QED BY <2>1, <3>1, <3>2, Zenon
  <2>3. CASE t[i].fs # fsc
    <3>1. u[i].w = t[i].w /\ u[i].h = t[i].h BY <1>7, <2>3, Zenon
    <3>2. u[k].w = t[k].w /\ u[k].h = t[k].h BY <1>7, <1>12, <2>3, Zenon
    <3>3. QED BY <2>1, <3>1, <3>2, Zenon
  <2>4. QED BY <2>2, <2>3, Zenon
<1>13. \A i \in 0 .. c - 1 : /\ u[i].jpeg = t[i].jpeg /\ u[i].ivdc = t[i].ivdc /\ u[i].chn = t[i].chn
                             /\ u[i].fs = t[i].fs /\ u[i].w > 0 /\ u[i].h > 0
  BY <1>7, <1>11, Zenon
<1>14. TableOk(u, sl, b, c) BY <1>2, <1>10, <1>12, <1>13, SameShape, Zenon
<1>15. QED BY <1>1, <1>14, Zenon

LEMMA RingHeld ==
    ASSUME NEW b, NEW c, TableOk(table, slot, b, c), NEW m
    PROVE  TableOk([table EXCEPT ![m].ring = TRUE], slot, b, c)
<1>1. PICK t, sl, u : t = table /\ sl = slot /\ u = [table EXCEPT ![m].ring = TRUE] BY Zenon
<1>2. TableOk(t, sl, b, c) BY <1>1, Zenon
<1>3. c \in Nat /\ t \in Rows(c) /\ RowsSound(t, b) BY <1>2, Zenon DEF TableOk
<1>4. DOMAIN t = 0 .. c - 1 BY <1>3, RowCount, Zenon
<1>5. \A i \in 0 .. c - 1 : t[i] \in RowRecord BY <1>3, Zenon DEF Rows
<1>6. /\ \A i \in 0 .. c - 1 : t[i].w > 0 /\ t[i].h > 0
      /\ \A i \in 0 .. c - 1 : \A k \in 0 .. c - 1 : t[i].fs = t[k].fs => t[i].w = t[k].w /\ t[i].h = t[k].h
  BY <1>3, <1>4, Zenon DEF RowsSound
<1>7. PICK yes \in BOOLEAN : yes = TRUE BY Zenon
<1>8. u = [t EXCEPT ![m].ring = yes] BY <1>1, <1>7, Zenon
<1>9. t \in [0 .. c - 1 -> RowRecord] BY <1>3, Zenon DEF Rows
<1>10. ASSUME NEW i \in 0 .. c - 1
       PROVE  /\ u[i] \in RowRecord /\ u[i].jpeg = t[i].jpeg /\ u[i].ivdc = t[i].ivdc /\ u[i].chn = t[i].chn
              /\ u[i].fs = t[i].fs /\ u[i].w = t[i].w /\ u[i].h = t[i].h
  <2>1. PICK r \in RowRecord : r = t[i] BY <1>5, Zenon
  <2>2. PICK q : q = [r EXCEPT !.ring = yes] BY Zenon
  <2>3. /\ q \in RowRecord /\ q.jpeg = r.jpeg /\ q.ivdc = r.ivdc /\ q.chn = r.chn /\ q.fs = r.fs
        /\ q.w = r.w /\ q.h = r.h
    BY <2>2, Zenon DEF RowRecord
  <2>4. u[i] = IF i = m THEN q ELSE r BY <1>8, <1>9, <2>1, <2>2, Zenon
  <2>5. QED BY <2>1, <2>3, <2>4, Zenon
<1>11. u = [i \in 0 .. c - 1 |-> u[i]] BY <1>4, <1>8, Zenon
<1>12. u \in Rows(c) BY <1>10, <1>11, Zenon DEF Rows
<1>13. \A i \in 0 .. c - 1 : /\ u[i].jpeg = t[i].jpeg /\ u[i].ivdc = t[i].ivdc /\ u[i].chn = t[i].chn
                             /\ u[i].fs = t[i].fs /\ u[i].w > 0 /\ u[i].h > 0
  BY <1>6, <1>10, Zenon
<1>14. \A i \in 0 .. c - 1 : \A k \in 0 .. c - 1 : t[i].fs = t[k].fs => u[i].w = u[k].w /\ u[i].h = u[k].h
  <2>1. ASSUME NEW i \in 0 .. c - 1, NEW k \in 0 .. c - 1, t[i].fs = t[k].fs PROVE u[i].w = u[k].w /\ u[i].h = u[k].h
    <3>1. t[i].w = t[k].w /\ t[i].h = t[k].h BY <1>6, <2>1, Zenon
    <3>2. u[i].w = t[i].w /\ u[i].h = t[i].h /\ u[k].w = t[k].w /\ u[k].h = t[k].h BY <1>10, Zenon
    <3>3. QED BY <3>1, <3>2, Zenon
  <2>2. QED BY <2>1, Zenon
<1>15. TableOk(u, sl, b, c) BY <1>2, <1>12, <1>13, <1>14, SameShape, Zenon
<1>16. QED BY <1>1, <1>15, Zenon

\* Taking row idx out: row i is then the row that was at Past(i, idx).
Past(i, idx) == IF i < idx THEN i ELSE i + 1
Without(t, idx, c) == [i \in 0 .. c - 2 |-> IF i < idx THEN t[i] ELSE t[i + 1]]

LEMMA RowsDrop ==
    ASSUME NEW b \in Nat, NEW c \in Nat, NEW t \in Rows(c), RowsSound(t, b), NEW idx \in b .. c - 1,
           NEW u, u = Without(t, idx, c)
    PROVE  u \in Rows(c - 1) /\ RowsSound(u, b)
<1>1. DOMAIN t = 0 .. c - 1 BY RowCount, Zenon
<1>2. \A i \in 0 .. c - 1 : t[i] \in RowRecord BY Zenon DEF Rows
<1>3. DOMAIN u = 0 .. c - 2 /\ 0 .. c - 2 = 0 .. (c - 1) - 1 BY DEF Without
<1>4. \A i \in 0 .. c - 2 : u[i] = t[Past(i, idx)] BY Zenon DEF Past, Without
<1>5. /\ \A i \in 0 .. c - 2 : Past(i, idx) \in 0 .. c - 1 /\ (Past(i, idx) >= b <=> i >= b)
      /\ \A i \in 0 .. c - 2 : \A k \in 0 .. c - 2 : Past(i, idx) = Past(k, idx) => i = k
      /\ \A i \in 0 .. c - 1 : i < b => i \in 0 .. c - 2 /\ Past(i, idx) = i
      /\ \A i \in 0 .. c - 2 : Past(i, idx) < b => i < b /\ Past(i, idx) = i
  BY DEF Past
<1>6. \A i \in 0 .. c - 2 : u[i] \in RowRecord BY <1>2, <1>4, <1>5, Zenon
<1>7. u \in Rows(c - 1) BY <1>3, <1>6, Zenon DEF Rows, Without
<1>8. /\ \A i \in 0 .. c - 1 : t[i].w > 0 /\ t[i].h > 0 /\ t[i].chn >= 0 /\ (t[i].jpeg <=> i >= b)
      /\ \A i \in 0 .. c - 1 : t[i].ivdc => i < b /\ t[i].chn < Cardinality(Mains(t))
      /\ \A i \in 0 .. c - 1 : \A k \in 0 .. c - 1 : t[i].chn = t[k].chn => i = k
      /\ \A i \in 0 .. c - 1 : i >= b => \E k \in 0 .. c - 1 : k < b /\ t[k].fs = t[i].fs
      /\ \A i \in 0 .. c - 1 : \A k \in 0 .. c - 1 : t[i].fs = t[k].fs => t[i].w = t[k].w /\ t[i].h = t[k].h
  BY <1>1, Zenon DEF RowsSound
<1>9. Mains(u) = Mains(t)
  <2>1. ASSUME NEW i \in Mains(u) PROVE i \in Mains(t)
    <3>1. i \in 0 .. c - 2 /\ u[i].ivdc BY <1>3, <2>1, Zenon DEF Mains
    <3>2. PICK p \in 0 .. c - 1 : p = Past(i, idx) BY <1>5, <3>1, Zenon
    <3>3. t[p].ivdc BY <1>4, <3>1, <3>2, Zenon
    <3>4. p < b BY <1>8, <3>3, Zenon
    <3>5. p = i BY <1>5, <3>1, <3>2, <3>4, Zenon
    <3>6. QED BY <1>1, <3>3, <3>5, Zenon DEF Mains
  <2>2. ASSUME NEW i \in Mains(t) PROVE i \in Mains(u)
    <3>1. i \in 0 .. c - 1 /\ t[i].ivdc BY <1>1, <2>2, Zenon DEF Mains
    <3>2. i < b BY <1>8, <3>1, Zenon
    <3>3. i \in 0 .. c - 2 /\ Past(i, idx) = i BY <1>5, <3>1, <3>2, Zenon
    <3>4. u[i].ivdc BY <1>4, <3>1, <3>3, Zenon
    <3>5. QED BY <1>3, <3>3, <3>4, Zenon DEF Mains
  <2>3. QED BY <2>1, <2>2, Zenon
<1>10. ASSUME NEW i \in DOMAIN u
       PROVE  /\ u[i].w > 0 /\ u[i].h > 0 /\ u[i].chn >= 0 /\ (u[i].jpeg <=> i >= b)
              /\ u[i].ivdc => i < b /\ u[i].chn < Cardinality(Mains(u))
              /\ i >= b => \E k \in DOMAIN u : k < b /\ u[k].fs = u[i].fs
  <2>1. PICK p \in 0 .. c - 1 : p = Past(i, idx) /\ u[i] = t[p] /\ (p >= b <=> i >= b) BY <1>3, <1>4, <1>5, <1>10, Zenon
  <2>2. u[i].w > 0 /\ u[i].h > 0 /\ u[i].chn >= 0 /\ (u[i].jpeg <=> i >= b) BY <1>8, <2>1, Zenon
  <2>3. u[i].ivdc => i < b /\ u[i].chn < Cardinality(Mains(u)) BY <1>3, <1>5, <1>8, <1>9, <1>10, <2>1, Zenon
  <2>4. ASSUME i >= b PROVE \E k \in DOMAIN u : k < b /\ u[k].fs = u[i].fs
    <3>1. PICK k \in 0 .. c - 1 : k < b /\ t[k].fs = t[p].fs BY <1>8, <2>1, <2>4, Zenon
    <3>2. k \in 0 .. c - 2 /\ Past(k, idx) = k BY <1>5, <3>1, Zenon
    <3>3. u[k] = t[k] BY <1>4, <3>2, Zenon
    <3>4. QED BY <1>3, <2>1, <3>1, <3>2, <3>3, Zenon
  <2>5. QED BY <2>2, <2>3, <2>4, Zenon
<1>11. ASSUME NEW i \in DOMAIN u, NEW k \in DOMAIN u
       PROVE  /\ u[i].chn = u[k].chn => i = k
              /\ u[i].fs = u[k].fs => u[i].w = u[k].w /\ u[i].h = u[k].h
  <2>1. PICK p \in 0 .. c - 1 : p = Past(i, idx) /\ u[i] = t[p] BY <1>3, <1>4, <1>5, <1>11, Zenon
  <2>2. PICK q \in 0 .. c - 1 : q = Past(k, idx) /\ u[k] = t[q] BY <1>3, <1>4, <1>5, <1>11, Zenon
  <2>3. ASSUME u[i].chn = u[k].chn PROVE i = k
    <3>0. t[p].chn = t[q].chn BY <2>1, <2>2, <2>3, Zenon
    <3>1. p = q BY <1>8, <3>0, Zenon
    <3>2. QED BY <1>3, <1>5, <1>11, <2>1, <2>2, <3>1, Zenon
  <2>4. ASSUME u[i].fs = u[k].fs PROVE u[i].w = u[k].w /\ u[i].h = u[k].h
    <3>1. t[p].fs = t[q].fs BY <2>1, <2>2, <2>4, Zenon
    <3>2. t[p].w = t[q].w /\ t[p].h = t[q].h BY <1>8, <3>1, Zenon
    <3>3. QED BY <2>1, <2>2, <3>2, Zenon
  <2>5. QED BY <2>3, <2>4, Zenon
<1>12. /\ \A i \in DOMAIN u : u[i].w > 0 /\ u[i].h > 0 /\ u[i].chn >= 0 /\ (u[i].jpeg <=> i >= b)
       /\ \A i \in DOMAIN u : u[i].ivdc => i < b /\ u[i].chn < Cardinality(Mains(u))
       /\ \A i \in DOMAIN u : i >= b => \E k \in DOMAIN u : k < b /\ u[k].fs = u[i].fs
  BY <1>10, Zenon
<1>13. /\ \A i \in DOMAIN u : \A k \in DOMAIN u : u[i].chn = u[k].chn => i = k
       /\ \A i \in DOMAIN u : \A k \in DOMAIN u : u[i].fs = u[k].fs => u[i].w = u[k].w /\ u[i].h = u[k].h
  BY <1>11, ZenonT(60)
<1>14. QED BY <1>7, <1>12, <1>13, Zenon DEF RowsSound

LEMMA SlotsDrop ==
    ASSUME NEW b \in Nat, NEW c \in Nat, NEW sl \in SlotTable, SlotsSound(sl, b, c), NEW idx \in b .. c - 1,
           NEW q, q = [j \in DOMAIN sl |-> IF sl[j] = idx THEN -1
                                           ELSE IF sl[j] > idx THEN sl[j] - 1 ELSE sl[j]]
    PROVE  q \in SlotTable /\ SlotsSound(q, b, c - 1)
<1>1. PICK J : J = 0 .. RVD_MAX_JPEG - 1 BY Zenon
<1>2. sl \in [J -> Int] BY <1>1, Zenon DEF SlotTable
<1>3. /\ \A j \in J : sl[j] = -1 \/ (sl[j] >= b /\ sl[j] < c)
      /\ \A j \in J : \A m \in J : sl[j] = sl[m] /\ sl[j] # -1 => j = m
      /\ \A i \in b .. c - 1 : \E j \in J : sl[j] = i
  BY <1>2, Zenon DEF SlotsSound
<1>4. DOMAIN q = J /\ q \in [J -> Int] BY <1>2
<1>5. \A j \in J : /\ sl[j] = idx => q[j] = -1
                   /\ sl[j] > idx => q[j] = sl[j] - 1
                   /\ sl[j] < idx => q[j] = sl[j]
  BY <1>2
<1>6. \A j \in J : q[j] = -1 \/ (q[j] >= b /\ q[j] < c - 1) BY <1>2, <1>3, <1>5
<1>7. ASSUME NEW j \in J, NEW m \in J, q[j] = q[m], q[j] # -1 PROVE j = m
  <2>1. sl[j] = sl[m] /\ sl[j] # -1 BY <1>2, <1>3, <1>5, <1>7
  <2>2. QED BY <1>3, <2>1, Zenon
<1>8. ASSUME NEW i \in b .. (c - 1) - 1 PROVE \E j \in J : q[j] = i
  <2>1. CASE i < idx
    <3>1. i \in b .. c - 1 OBVIOUS
    <3>2. PICK j \in J : sl[j] = i BY <1>3, <3>1, Zenon
    <3>3. QED BY <1>5, <2>1, <3>2, Zenon
  <2>2. CASE ~(i < idx)
    <3>1. i + 1 \in b .. c - 1 /\ i + 1 > idx /\ (i + 1) - 1 = i BY <2>2
    <3>2. PICK j \in J : sl[j] = i + 1 BY <1>3, <3>1, Zenon
    <3>3. QED BY <1>5, <3>1, <3>2, Zenon
  <2>3. QED BY <2>1, <2>2, Zenon
<1>9. q \in SlotTable BY <1>1, <1>4, Zenon DEF SlotTable
<1>10. QED BY <1>4, <1>6, <1>7, <1>8, <1>9, Zenon DEF SlotsSound

LEMMA DropHeld ==
    ASSUME NEW b, NEW c, TableOk(table, slot, b, c), NEW idx \in Nat, idx < c, table[idx].jpeg, drop_jpeg_stream(idx)
    PROVE  TableOk(table', slot', b, c - 1)
<1>1. PICK t, sl : t = table /\ sl = slot BY Zenon
<1>2. /\ b \in Nat /\ c \in Nat /\ b <= c /\ c <= 4 * NSensors
      /\ t \in Rows(c) /\ sl \in SlotTable /\ RowsSound(t, b) /\ SlotsSound(sl, b, c)
  BY <1>1, Zenon DEF TableOk
<1>3. Count(t) = c /\ DOMAIN t = 0 .. c - 1 BY <1>2, RowCount, Zenon
<1>4. idx \in 0 .. c - 1 BY <1>2
<1>5. idx >= b BY <1>1, <1>2, <1>3, <1>4, Zenon DEF RowsSound
<1>6. idx \in b .. c - 1 BY <1>2, <1>4, <1>5
<1>7. PICK u, q : u = table' /\ q = slot' BY Zenon
<1>8. u = Without(t, idx, c) BY <1>1, <1>3, <1>7, Zenon DEF drop_jpeg_stream, Without
<1>9. q = [j \in DOMAIN sl |-> IF sl[j] = idx THEN -1 ELSE IF sl[j] > idx THEN sl[j] - 1 ELSE sl[j]]
  BY <1>1, <1>7, Zenon DEF drop_jpeg_stream
<1>10. u \in Rows(c - 1) /\ RowsSound(u, b) BY <1>2, <1>6, <1>8, RowsDrop, Zenon
<1>11. q \in SlotTable /\ SlotsSound(q, b, c - 1) BY <1>2, <1>6, <1>9, SlotsDrop
<1>12. c - 1 \in Nat /\ b <= c - 1 /\ c - 1 <= 4 * NSensors BY <1>2, <1>6, RvdTableConstants
<1>13. TableOk(u, q, b, c - 1) BY <1>2, <1>10, <1>11, <1>12, Zenon DEF TableOk
<1>14. QED BY <1>7, <1>13, Zenon

Phases == {"table", "fs", "video", "snaps", "ready", "failed"}

\* Every step behind the first leaves a sound table and an index.
LEMMA TableKept ==
    ASSUME TableInv, board' = board, at' \in [phase : Phases, i : Nat], at'.phase # "table",
           \E b, c \in Nat : TableOk(table', slot', b, c)
    PROVE  TableInv'
BY Zenon DEF TableInv, Phases

LEMMA GotoTyped ==
    ASSUME at \in [phase : Phases, i : Nat], NEW ph \in Phases, ph # "table", at.phase # "table", Goto(ph)
    PROVE  at' \in [phase : Phases, i : Nat] /\ at'.phase # "table"
<1>1. PICK n \in Nat : n = at.i + 1 BY Zenon, SMT
<1>2. [at EXCEPT !.i = @ + 1] = [at EXCEPT !.i = n] BY <1>1, Zenon
<1>3. 0 \in Nat OBVIOUS
<1>4. [at EXCEPT !.i = n] \in [phase : Phases, i : Nat] /\ [at EXCEPT !.i = n].phase = at.phase BY Zenon
<1>5. [phase |-> ph, i |-> 0] \in [phase : Phases, i : Nat] /\ [phase |-> ph, i |-> 0].phase = ph BY <1>3, Zenon
<1>6. at' = [at EXCEPT !.i = n] \/ at' = [phase |-> ph, i |-> 0] BY <1>2, Zenon DEF Goto
<1>7. QED BY <1>4, <1>5, <1>6, Zenon

LEMMA PhaseTyped ==
    ASSUME at \in [phase : Phases, i : Nat], NEW ph \in Phases, at' = [at EXCEPT !.phase = ph]
    PROVE  at' \in [phase : Phases, i : Nat] /\ at'.phase = ph
BY Zenon

LEMMA TableSteps ==
    ASSUME TableInv, CreateFramesource \/ InitVideo \/ InitSnapshot \/ PipelineReady
    PROVE  TableInv'
<1>1. at \in [phase : Phases, i : Nat] BY Zenon DEF TableInv, Phases
<1>2. at.phase # "table" /\ board' = board
  <2>1. "fs" # "table" /\ "video" # "table" /\ "snaps" # "table" OBVIOUS
  <2>2. QED BY <2>1, Zenon DEF CreateFramesource, InitVideo, InitSnapshot, PipelineReady
<1>3. PICK b, c \in Nat : TableOk(table, slot, b, c) BY <1>2, Zenon DEF TableInv
<1>4. Count(table) = c
  <2>1. PICK t : t = table BY Zenon
  <2>2. t \in Rows(c) BY <1>3, <2>1, Zenon DEF TableOk
  <2>3. QED BY <2>1, <2>2, RowCount, Zenon
<1>5. /\ "video" \in Phases /\ "snaps" \in Phases /\ "ready" \in Phases /\ "failed" \in Phases
      /\ "video" # "table" /\ "snaps" # "table" /\ "ready" # "table" /\ "failed" # "table"
  BY DEF Phases
<1>6. at' \in [phase : Phases, i : Nat] /\ at'.phase # "table"
  <2>1. CASE Goto("video") \/ Goto("snaps")
    <3>1. PICK ph \in Phases : ph # "table" /\ Goto(ph) BY <1>5, <2>1, Zenon
    <3>2. QED BY <1>1, <1>2, <3>1, GotoTyped, Zenon
  <2>2. CASE at' = [at EXCEPT !.phase = "failed"] \/ at' = [at EXCEPT !.phase = "ready"]
    <3>1. PICK ph \in Phases : ph # "table" /\ at' = [at EXCEPT !.phase = ph] BY <1>5, <2>2, Zenon
    <3>2. QED BY <1>1, <3>1, PhaseTyped, Zenon
  <2>3. CASE at' = [at EXCEPT !.i = @ + 1]
    <3>1. at.i \in Nat BY <1>1, Zenon
    <3>2. PICK n \in Nat : n = at.i + 1 BY <3>1
    <3>3. at' = [at EXCEPT !.i = n] BY <2>3, <3>2, Zenon
    <3>4. QED BY <1>1, <1>2, <3>3, Zenon
  <2>4. CASE at' = at BY <1>1, <1>2, <2>4, Zenon
  <2>5. QED BY <2>1, <2>2, <2>3, <2>4, Zenon DEF CreateFramesource, InitVideo, InitSnapshot, PipelineReady
<1>7. PICK m : m = at.i BY Zenon
<1>8. \/ table' = table /\ slot' = slot
      \/ table' = [table EXCEPT ![at.i].ring = TRUE] /\ slot' = slot
      \/ table' = Turn(table[at.i].fs) /\ slot' = slot
      \/ at.i < Count(table) /\ table[at.i].jpeg /\ drop_jpeg_stream(at.i)
  BY Zenon DEF CreateFramesource, InitVideo, InitSnapshot, PipelineReady
<1>9. \E x, y \in Nat : TableOk(table', slot', x, y)
  <2>1. CASE table' = table /\ slot' = slot BY <1>3, <2>1, Zenon
  <2>2. CASE table' = [table EXCEPT ![at.i].ring = TRUE] /\ slot' = slot
    <3>1. TableOk([table EXCEPT ![m].ring = TRUE], slot, b, c) BY <1>3, RingHeld, Zenon
    <3>2. TableOk(table', slot', b, c) BY <1>7, <2>2, <3>1, Zenon
    <3>3. QED BY <3>2, Zenon
  <2>3. CASE table' = Turn(table[at.i].fs) /\ slot' = slot
    <3>1. PICK fsc : fsc = table[at.i].fs BY Zenon
    <3>2. TableOk(Turn(fsc), slot, b, c) BY <1>3, TurnHeld, Zenon
    <3>3. TableOk(table', slot', b, c) BY <2>3, <3>1, <3>2, Zenon
    <3>4. QED BY <3>3, Zenon
  <2>4. CASE at.i < Count(table) /\ table[at.i].jpeg /\ drop_jpeg_stream(at.i)
    <3>1. m \in Nat /\ m < c /\ table[m].jpeg /\ drop_jpeg_stream(m) BY <1>1, <1>4, <1>7, <2>4, Zenon
    <3>2. TableOk(table', slot', b, c - 1) BY <1>3, <3>1, DropHeld, Zenon
    <3>3. c - 1 \in Nat BY <1>3, <3>1
    <3>4. QED BY <3>2, <3>3, Zenon
  <2>5. QED BY <1>8, <2>1, <2>2, <2>3, <2>4, Zenon
<1>10. QED BY <1>2, <1>6, <1>9, TableKept, Zenon

LEMMA TableStep == ASSUME TableInv, TNext \/ UNCHANGED tvars PROVE TableInv'
<1>1. CASE UNCHANGED tvars BY <1>1, Zenon DEF TableInv, tvars, Boards
<1>2. QED BY <1>1, TableBuilt, TableSteps, Zenon DEF TNext

LEMMA TableStart == ASSUME TInit PROVE TableInv
<1>1. 0 \in Nat /\ "table" \in Phases BY DEF Phases
<1>2. at \in [phase : Phases, i : Nat] /\ at.phase = "table" BY <1>1, Zenon DEF TInit
<1>3. QED BY <1>2, Zenon DEF TInit, TableInv, Phases

LEMMA TableHolds == ASSUME TableInv PROVE TableSound /\ TTypeOK
<1>1. CASE at.phase = "table"
  <2>1. TableSound BY <1>1, Zenon DEF TableSound
  <2>2. at \in [phase : Phases, i : Nat] /\ table = [i \in {} |-> 0] /\ slot = [j \in 0 .. RVD_MAX_JPEG - 1 |-> -1]
    BY <1>1, Zenon DEF TableInv, Phases
  <2>3. DOMAIN table = {} BY <2>2, Zenon
  <2>4. -1 \in -1 .. 4 * NSensors - 1 BY RvdTableConstants
  <2>5. slot \in [0 .. RVD_MAX_JPEG - 1 -> -1 .. 4 * NSensors - 1] BY <2>2, <2>4, Zenon
  <2>6. QED BY <2>1, <2>2, <2>3, <2>5, Zenon DEF TTypeOK, Phases
<1>2. CASE at.phase # "table"
  <2>1. PICK t, sl : t = table /\ sl = slot BY Zenon
  <2>2. PICK b, c \in Nat : TableOk(t, sl, b, c) BY <1>2, <2>1, Zenon DEF TableInv
  <2>3. /\ b <= c /\ c <= 4 * NSensors /\ t \in Rows(c) /\ sl \in SlotTable /\ RowsSound(t, b) /\ SlotsSound(sl, b, c)
    BY <2>2, Zenon DEF TableOk
  <2>4. DOMAIN t = 0 .. c - 1 BY <2>3, RowCount, Zenon
  <2>5. PICK J : J = 0 .. RVD_MAX_JPEG - 1 BY Zenon
  <2>6. sl \in [J -> Int] /\ DOMAIN sl = J BY <2>3, <2>5, Zenon DEF SlotTable
  <2>7. /\ \A j \in J : sl[j] = -1 \/ (sl[j] >= b /\ sl[j] < c)
        /\ \A j \in J : \A m \in J : sl[j] = sl[m] /\ sl[j] # -1 => j = m
        /\ \A i \in b .. c - 1 : \E j \in J : sl[j] = i
    BY <2>3, <2>6, Zenon DEF SlotsSound
  <2>8. /\ \A i \in 0 .. c - 1 : t[i].w > 0 /\ t[i].h > 0 /\ t[i].chn >= 0 /\ (t[i].jpeg <=> i >= b)
        /\ \A i \in 0 .. c - 1 : t[i].ivdc => i < b /\ t[i].chn < Cardinality(Mains(t))
        /\ \A i \in 0 .. c - 1 : \A k \in 0 .. c - 1 : t[i].chn = t[k].chn => i = k
        /\ \A i \in 0 .. c - 1 : i >= b => \E k \in 0 .. c - 1 : k < b /\ t[k].fs = t[i].fs
        /\ \A i \in 0 .. c - 1 : \A k \in 0 .. c - 1 : t[i].fs = t[k].fs => t[i].w = t[k].w /\ t[i].h = t[k].h
    BY <2>3, <2>4, Zenon DEF RowsSound
  <2>9. \A i \in 0 .. c - 1 : t[i].chn \in Int BY <2>3, Zenon DEF Rows, RowRecord
  <2>10. \A i \in 0 .. c - 1 : t[i].chn \in Nat BY <2>8, <2>9
  <2>11. \A j \in J : sl[j] \in -1 .. 4 * NSensors - 1 BY <2>3, <2>6, <2>7, RvdTableConstants
  <2>12. TTypeOK
    <3>1. at \in [phase : Phases, i : Nat] BY Zenon DEF TableInv, Phases
    <3>2. slot \in [0 .. RVD_MAX_JPEG - 1 -> -1 .. 4 * NSensors - 1] BY <2>1, <2>5, <2>6, <2>11, Zenon
    <3>3. QED BY <2>1, <2>4, <2>8, <2>10, <3>1, <3>2, Zenon DEF TTypeOK, Phases
  <2>13. \A j \in J : sl[j] # -1 => sl[j] \in 0 .. c - 1 /\ sl[j] >= b BY <2>6, <2>7
  <2>14. \A j \in DOMAIN slot : slot[j] # -1 => slot[j] \in DOMAIN table /\ table[slot[j]].jpeg
    BY <2>1, <2>4, <2>6, <2>8, <2>13, Zenon
  <2>15. \A i \in DOMAIN table : table[i].ivdc => table[i].chn < Cardinality({k \in DOMAIN table : table[k].ivdc})
    BY <2>1, <2>4, <2>8, Zenon DEF Mains
  <2>16. ASSUME NEW i \in DOMAIN table, table[i].jpeg
         PROVE  Cardinality({j \in DOMAIN slot : slot[j] = i}) = 1
    <3>1. i \in 0 .. c - 1 /\ i >= b BY <2>1, <2>4, <2>8, <2>16, Zenon
    <3>2. i \in b .. c - 1 /\ i # -1 BY <3>1
    <3>3. PICK j \in J : sl[j] = i BY <2>7, <3>2, Zenon
    <3>4. \A x \in J : sl[x] = i => x = j BY <2>7, <3>2, <3>3, Zenon
    <3>0. {x \in DOMAIN slot : slot[x] = i} = {j} BY <2>1, <2>6, <3>3, <3>4, Zenon
    <3>5. QED BY <3>0, FS_Singleton, Zenon
  <2>17. ASSUME NEW i \in DOMAIN table, table[i].jpeg PROVE find_video_group(table[i].fs) # -1
    <3>1. i \in 0 .. c - 1 /\ i >= b BY <2>1, <2>4, <2>8, <2>17, Zenon
    <3>2. PICK k \in 0 .. c - 1 : k < b /\ t[k].fs = t[i].fs BY <2>8, <3>1, Zenon
    <3>3. PICK V : V = {x \in DOMAIN table : ~table[x].jpeg /\ table[x].fs = table[i].fs} BY Zenon
    <3>4. ~(k >= b) BY <3>2
    <3>5. k \in V BY <2>1, <2>4, <2>8, <3>2, <3>3, <3>4, Zenon
    <3>6. V \subseteq 0 .. c - 1 BY <2>1, <2>4, <3>3, Zenon
    <3>7. V \in SUBSET Nat /\ V # {} BY <3>5, <3>6
    <3>8. Min(V) \in V /\ \A y \in V : Min(V) <= y BY <3>7, LeastNumber, Zenon
    <3>9. PICK x : x = CHOOSE z \in V : \A y \in V : z <= y BY Zenon
    <3>10. x \in V BY <3>8, <3>9, Zenon
    <3>11. find_video_group(table[i].fs) = table[x].chn BY <3>3, <3>7, <3>9, Zenon DEF find_video_group
    <3>12. PICK n \in Nat : n = t[x].chn BY <2>10, <3>6, <3>10, Zenon
    <3>13. n # -1 BY <3>12
    <3>14. QED BY <2>1, <3>11, <3>12, <3>13, Zenon
  <2>18. \A i, k \in DOMAIN table : table[i].chn = table[k].chn => i = k BY <2>1, <2>4, <2>8, Zenon
  <2>19. \A i, k \in DOMAIN table : table[i].fs = table[k].fs =>
            <<table[i].w, table[i].h>> = <<table[k].w, table[k].h>>
    <3>1. ASSUME NEW i \in DOMAIN table, NEW k \in DOMAIN table, table[i].fs = table[k].fs
          PROVE  <<table[i].w, table[i].h>> = <<table[k].w, table[k].h>>
      <4>0. i \in 0 .. c - 1 /\ k \in 0 .. c - 1 /\ t[i].fs = t[k].fs BY <2>1, <2>4, <3>1, Zenon
      <4>1. table[i].w = table[k].w /\ table[i].h = table[k].h BY <2>1, <2>8, <4>0, Zenon
      <4>2. QED BY <4>1, Zenon
    <3>2. QED BY <3>1, Zenon
  <2>20. TableSound BY <2>14, <2>15, <2>16, <2>17, <2>18, <2>19, Zenon DEF TableSound
  <2>21. QED BY <2>12, <2>20
<1>3. QED BY <1>1, <1>2, Zenon

-----------------------------------------------------------------------------
(* The suite's theorems. *)

\* Whatever moves, is held or expires, and whatever command intervenes, a
\* detection outlives the gaps, and its box holds what moved unless the
\* picture's size was changed under the zones (rvd_ivs.c).
THEOREM VideoDetectionsTrue == VideoSpec => []DetectionsTrue
<1>1. VideoInit => IvsInv BY IvsStarts DEF VideoInit
<1>2. IvsInv /\ [VideoNext]_video => IvsInv' BY PartSteps, IvsStep
<1>3. IvsInv => DetectionsTrue BY IvsHolds DEF DetectionsTrue
<1>4. QED BY <1>1, <1>2, <1>3, PTL DEF VideoSpec

\* The ring a running stream writes describes it, the snapshot ring holds a
\* frame of every picture up to the one it was created for, references lie in the mapped region, every lost frame is reported
\* and the UTC offset is near the truth (rvd_frame_loop.c, rvd_pipeline.c,
\* rvd_ring_size.c).
THEOREM VideoRingsTrue == VideoSpec => []RingsTrue
<1> DEFINE Inv == PipeInv /\ PipeRings /\ PubInv
<1>1. VideoInit => Inv BY PipeStart, RingsStart, PubStart DEF VideoInit
<1>2. Inv /\ [VideoNext]_video => Inv' BY PartSteps, PipeStep, RingsStep, PubStep
<1>3. Inv => RingsTrue BY PipeHolds, RingsHold, PubHolds DEF RingsTrue
<1>4. QED BY <1>1, <1>2, <1>3, PTL DEF VideoSpec

\* No thread polls an encoder channel that is destroyed and no snapshot
\* channel outlives its video group, and every hardware region in use is in a
\* slot, under the privacy cover or lost to a restart, whatever command,
\* refusal or buffer of rod's comes when (rvd_pipeline.c, rvd_ctrl.c,
\* rvd_osd.c).
THEOREM VideoSdkHeld == VideoSpec => []SdkHeld
<1> DEFINE Inv == PipeInv /\ OsdInv
<1>1. VideoInit => Inv BY PipeStart, OsdStart DEF VideoInit
<1>2. Inv /\ [VideoNext]_video => Inv' BY PartSteps, PipeStep, OsdStep
<1>3. Inv => SdkHeld BY PipeHolds, OsdHolds DEF SdkHeld
<1>4. QED BY <1>1, <1>2, <1>3, PTL DEF VideoSpec

\* However many sensors, slots and snapshot streams, and whichever of those
\* the backend refuses, the stream table stays one the SDK accepts and every
\* snapshot stream keeps its slot; and whatever is set on whichever stream in
\* whatever order, what the configuration names is in the encoder, the driver
\* and the section the next boot reads (rvd_pipeline.c, rvd_ctrl.c).
THEOREM VideoSettingsKept == VideoSpec => []SettingsKept
<1> DEFINE Inv == TableInv /\ SetInv
<1>1. VideoInit => Inv BY TableStart, SetStart DEF VideoInit
<1>2. Inv /\ [VideoNext]_video => Inv' BY PartSteps, TableStep, SetStep
<1>3. Inv => SettingsKept BY TableHolds DEF SettingsKept, SetInv
<1>4. QED BY <1>1, <1>2, <1>3, PTL DEF VideoSpec

\* Every variable of rvd's six parts keeps its type.
THEOREM VideoTypesOK == VideoSpec => []TypesOK
<1> DEFINE Inv == PipeInv /\ TableInv /\ SetInv /\ IvsInv /\ PubInv /\ OsdInv
<1>1. VideoInit => Inv BY PipeStart, TableStart, SetStart, IvsStarts, PubStart, OsdStart DEF VideoInit
<1>2. Inv /\ [VideoNext]_video => Inv'
  BY PartSteps, PipeStep, TableStep, SetStep, IvsStep, PubStep, OsdStep
<1>3. Inv => TypesOK BY PipeHolds, TableHolds, SettingsTyped, IvsHolds, PubHolds, OsdHolds DEF TypesOK
<1>4. QED BY <1>1, <1>2, <1>3, PTL DEF VideoSpec

=============================================================================
