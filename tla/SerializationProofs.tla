------------------------- MODULE SerializationProofs -------------------------
(***************************************************************************)
(* Theorems about Serialization, for products of any length, vectors of    *)
(* any size and tracks of any number of flags: of every class, load takes  *)
(* the archive apart where save has put it together.  First the layouts of *)
(* the classes, then one object, then the archive of a whole product.      *)
(***************************************************************************)
EXTENDS Serialization, SequenceTheorems, TLAPS

-------------------------------------------------------------------------------
(* Sequences and layouts *)

\* s is a sequence of whatever elements.
Sequence(s) == s \in Seq({s[i] : i \in DOMAIN s})

\* The fields a layout writes.
FieldsOf(layout) == {layout[j].field : j \in DOMAIN layout}

\* A layout that writes these fields and no others.
Has(layout, fields) == Sequence(layout) /\ FieldsOf(layout) = fields

\* A function on 1..n is a sequence.
LEMMA IsSequence ==
  ASSUME NEW s, NEW n \in Nat, s = [i \in 1..n |-> s[i]]
  PROVE  Sequence(s) /\ Len(s) = n
BY DEF Sequence

\* A sequence is a function on 1..Len(s).
LEMMA SequenceIs ==
  ASSUME NEW s, Sequence(s)
  PROVE  Len(s) \in Nat /\ DOMAIN s = 1..Len(s) /\ s = [i \in 1..Len(s) |-> s[i]]
BY DEF Sequence

\* A sequence of elements of a set is a sequence.
LEMMA InSeq ==
  ASSUME NEW S, NEW s \in Seq(S)
  PROVE  Sequence(s)
<1>1. s = [i \in 1..Len(s) |-> s[i]] /\ Len(s) \in Nat
  OBVIOUS
<1> QED BY <1>1, IsSequence

\* Two sequences one after the other.
LEMMA Joined ==
  ASSUME NEW s, NEW t, Sequence(s), Sequence(t)
  PROVE  /\ Sequence(s \o t) /\ Len(s \o t) = Len(s) + Len(t)
         /\ \A i \in 1..Len(s) : (s \o t)[i] = s[i]
         /\ \A i \in 1..Len(t) : (s \o t)[Len(s) + i] = t[i]
<1> DEFINE S == {s[i] : i \in DOMAIN s} \cup {t[i] : i \in DOMAIN t}
<1>1. s \in Seq(S) /\ t \in Seq(S)
  BY DEF Sequence
<1> HIDE DEF S
<1>2. Sequence(s \o t)
  BY <1>1, ConcatProperties, InSeq
<1>3. /\ Len(s \o t) = Len(s) + Len(t)
      /\ \A i \in 1..(Len(s) + Len(t)) :
           (s \o t)[i] = IF i <= Len(s) THEN s[i] ELSE t[i - Len(s)]
  BY <1>1, ConcatProperties
<1>4. Len(s) \in Nat /\ Len(t) \in Nat
  BY <1>1
<1> QED BY <1>2, <1>3, <1>4

\* Two layouts one after the other write the fields of both.
LEMMA JoinedFields ==
  ASSUME NEW s, NEW t, NEW F, NEW G, Has(s, F), Has(t, G)
  PROVE  Has(s \o t, F \cup G)
<1>1. ASSUME NEW i \in DOMAIN (s \o t)
      PROVE  \/ i \in DOMAIN s /\ (s \o t)[i] = s[i]
             \/ i - Len(s) \in DOMAIN t /\ (s \o t)[i] = t[i - Len(s)]
  <2>1. /\ Len(s) \in Nat /\ Len(t) \in Nat /\ i \in 1..(Len(s) + Len(t))
        /\ DOMAIN s = 1..Len(s) /\ DOMAIN t = 1..Len(t)
    BY Joined, SequenceIs DEF Has
  <2>2. CASE i <= Len(s)
    BY <2>1, <2>2, Joined DEF Has
  <2>3. CASE i > Len(s)
    <3>1. i - Len(s) \in 1..Len(t) /\ Len(s) + (i - Len(s)) = i
      BY <2>1, <2>3
    <3>2. (s \o t)[Len(s) + (i - Len(s))] = t[i - Len(s)]
      BY <3>1, Joined DEF Has
    <3> QED BY <2>1, <3>1, <3>2
  <2> QED BY <2>1, <2>2, <2>3
<1>2. \A i \in DOMAIN s : i \in DOMAIN (s \o t) /\ (s \o t)[i] = s[i]
  BY Joined, SequenceIs DEF Has
<1>3. \A i \in DOMAIN t : Len(s) + i \in DOMAIN (s \o t) /\ (s \o t)[Len(s) + i] = t[i]
  BY Joined, SequenceIs DEF Has
<1>4. FieldsOf(s \o t) \subseteq FieldsOf(s) \cup FieldsOf(t)
  BY <1>1 DEF FieldsOf
<1>5. FieldsOf(s) \subseteq FieldsOf(s \o t) /\ FieldsOf(t) \subseteq FieldsOf(s \o t)
  BY <1>2, <1>3 DEF FieldsOf
<1> QED BY <1>4, <1>5, Joined DEF Has

\* A statement of save that writes one value; of 2, 3, 4, 7, 8, 10 or 20 next.
LEMMA Items1 ==
  ASSUME NEW type, NEW a
  PROVE  Has(Items(type, <<a>>), Scalars({a}))
BY DEF Items, Sequence, FieldsOf, Scalars, Has

LEMMA Items2 ==
  ASSUME NEW type, NEW a, NEW b
  PROVE  Has(Items(type, <<a, b>>), Scalars({a, b}))
BY DEF Items, Sequence, FieldsOf, Scalars, Has

LEMMA Items3 ==
  ASSUME NEW type, NEW a, NEW b, NEW c
  PROVE  Has(Items(type, <<a, b, c>>), Scalars({a, b, c}))
BY DEF Items, Sequence, FieldsOf, Scalars, Has

LEMMA Items4 ==
  ASSUME NEW type, NEW a, NEW b, NEW c, NEW d
  PROVE  Has(Items(type, <<a, b, c, d>>), Scalars({a, b, c, d}))
BY DEF Items, Sequence, FieldsOf, Scalars, Has

LEMMA Items7 ==
  ASSUME NEW type, NEW a, NEW b, NEW c, NEW d, NEW e, NEW f, NEW g
  PROVE  Has(Items(type, <<a, b, c, d, e, f, g>>), Scalars({a, b, c, d, e, f, g}))
BY DEF Items, Sequence, FieldsOf, Scalars, Has

LEMMA Items8 ==
  ASSUME NEW type, NEW a, NEW b, NEW c, NEW d, NEW e, NEW f, NEW g, NEW h
  PROVE  Has(Items(type, <<a, b, c, d, e, f, g, h>>), Scalars({a, b, c, d, e, f, g, h}))
BY DEF Items, Sequence, FieldsOf, Scalars, Has

LEMMA Items10 ==
  ASSUME NEW type, NEW a, NEW b, NEW c, NEW d, NEW e, NEW f, NEW g, NEW h, NEW i, NEW j
  PROVE  Has(Items(type, <<a, b, c, d, e, f, g, h, i, j>>),
             Scalars({a, b, c, d, e, f, g, h, i, j}))
BY DEF Items, Sequence, FieldsOf, Scalars, Has

\* A vector written element by element.
LEMMA ElementsFields ==
  ASSUME NEW type, NEW name, NEW n \in Nat
  PROVE  /\ Has(Elements(type, name, n), Indexed(name, n))
         /\ Len(Elements(type, name, n)) = n
<1>1. Sequence(Elements(type, name, n)) /\ Len(Elements(type, name, n)) = n
  BY DEF Elements, Sequence
<1>2. FieldsOf(Elements(type, name, n)) = Indexed(name, n)
  BY DEF Elements, FieldsOf, Indexed
<1> QED BY <1>1, <1>2 DEF Has

\* The layouts of save and load are one layout, of all the fields of the class.
Suits(fields, save, load) ==
  /\ Has(save, fields) /\ save = load
  /\ \A f \in fields : f[1] # "flag"

\* The ranges of a wire, two values each.
LEMMA RangesFields ==
  ASSUME NEW n \in Nat
  PROVE  Has(RangesSave(n), Indexed("begin_index", n) \cup Indexed("data", n))
<1>1. Sequence(RangesSave(n))
  <2>1. 2 * n \in Nat
    OBVIOUS
  <2>2. RangesSave(n) = [i \in 1..(2 * n) |-> RangesSave(n)[i]]
    BY DEF RangesSave
  <2> QED BY <2>1, <2>2, IsSequence
<1>2. ASSUME NEW i \in 1..n
      PROVE  /\ RangesSave(n)[2 * i - 1].field = <<"begin_index", i>>
             /\ RangesSave(n)[2 * i].field = <<"data", i>>
             /\ 2 * i - 1 \in DOMAIN RangesSave(n) /\ 2 * i \in DOMAIN RangesSave(n)
  <2>1. /\ 2 * i - 1 \in 1..(2 * n) /\ (2 * i - 1) % 2 = 1 /\ (2 * i - 1 + 1) \div 2 = i
        /\ 2 * i \in 1..(2 * n) /\ (2 * i) % 2 # 1 /\ (2 * i) \div 2 = i
    OBVIOUS
  <2> QED BY <2>1 DEF RangesSave
<1>3. ASSUME NEW j \in DOMAIN RangesSave(n)
      PROVE  RangesSave(n)[j].field \in Indexed("begin_index", n) \cup Indexed("data", n)
  <2>1. j \in 1..(2 * n)
    BY DEF RangesSave
  <2>2. j % 2 = 1 => (j + 1) \div 2 \in 1..n
    BY <2>1
  <2>3. j % 2 # 1 => j \div 2 \in 1..n
    BY <2>1
  <2> QED BY <2>1, <2>2, <2>3 DEF RangesSave, Indexed
<1>4. FieldsOf(RangesSave(n)) = Indexed("begin_index", n) \cup Indexed("data", n)
  BY <1>2, <1>3 DEF FieldsOf, Indexed
<1> QED BY <1>1, <1>4 DEF Has

\* The twenty floats of a cluster.
LEMMA Items20 ==
  ASSUME NEW type, NEW n1, NEW n2, NEW n3, NEW n4, NEW n5, NEW n6, NEW n7, NEW n8, NEW n9,
         NEW n10, NEW n11, NEW n12, NEW n13, NEW n14, NEW n15, NEW n16, NEW n17, NEW n18,
         NEW n19, NEW n20
  PROVE  Has(Items(type, <<n1, n2, n3, n4, n5, n6, n7, n8, n9, n10, n11, n12, n13, n14, n15,
                           n16, n17, n18, n19, n20>>),
             Scalars({n1, n2, n3, n4, n5, n6, n7, n8, n9, n10, n11, n12, n13, n14, n15, n16,
                      n17, n18, n19, n20}))
<1> DEFINE x == <<n1, n2, n3, n4, n5, n6, n7, n8, n9, n10, n11, n12, n13, n14, n15, n16, n17,
                  n18, n19, n20>>
           S == {n1, n2, n3, n4, n5, n6, n7, n8, n9, n10, n11, n12, n13, n14, n15, n16, n17,
                 n18, n19, n20}
<1>1. DOMAIN x = 1..20
  OBVIOUS
<1>2. \A i \in 1..7 : x[i] \in S
  OBVIOUS
<1>3. \A i \in 8..14 : x[i] \in S
  OBVIOUS
<1>4. \A i \in 15..20 : x[i] \in S
  OBVIOUS
<1>5. \A s \in S : \E i \in 1..20 : x[i] = s
  OBVIOUS
<1> HIDE DEF x, S
<1>6. \A i \in 1..20 : x[i] \in S
  BY <1>2, <1>3, <1>4
<1>7. Sequence(Items(type, x))
  BY <1>1 DEF Items, Sequence
<1>8. FieldsOf(Items(type, x)) = Scalars(S)
  BY <1>1, <1>5, <1>6 DEF Items, FieldsOf, Scalars
<1> QED BY <1>7, <1>8 DEF Has, x, S

\* Class by class, load reads the fields save has written, in the same order.
LEMMA EdgeSuits ==
  Suits(EdgeFields, EdgeSave, EdgeLoad)
<1> DEFINE F == Scalars({"Length"}) \cup Scalars({"FirstPointID", "SecondPointID"}) \cup
                Scalars({"ID"})
<1>1. Has(EdgeSave, F)
  BY Items1, Items2, JoinedFields DEF EdgeSave
<1>2. F = EdgeFields
  BY DEF EdgeFields, Scalars
<1>3. \A f \in EdgeFields : f[1] # "flag"
  BY DEF EdgeFields, Scalars
<1>4. EdgeSave = EdgeLoad
  BY DEF EdgeSave, EdgeLoad
<1> QED BY <1>1, <1>2, <1>3, <1>4 DEF Suits

LEMMA EIDSuits ==
  Suits(EIDFields, EIDSave, EIDLoad)
<1> DEFINE F == Scalars({"run"}) \cup Scalars({"subrun"}) \cup Scalars({"event"})
<1>1. Has(EIDSave, F)
  BY Items1, JoinedFields DEF EIDSave
<1>2. F = EIDFields
  BY DEF EIDFields, Scalars
<1>3. \A f \in EIDFields : f[1] # "flag"
  BY DEF EIDFields, Scalars
<1>4. EIDSave = EIDLoad
  BY DEF EIDSave, EIDLoad
<1> QED BY <1>1, <1>2, <1>3, <1>4 DEF Suits

LEMMA ClusterSuits ==
  Suits(ClusterFields, ClusterSave, ClusterLoad)
<1> DEFINE F == Scalars({"NHits"}) \cup Scalars({"StartWire", "EndWire",
                "SigmaStartWire", "SigmaEndWire", "StartTick", "EndTick",
                "SigmaStartTick", "SigmaEndTick", "StartCharge", "EndCharge",
                "StartAngle", "EndAngle", "StartOpeningAngle", "EndOpeningAngle",
                "Integral", "SummedADC", "IntegralStdDev", "SummedADCstdDev",
                "MultipleHitDensity", "Width"}) \cup Scalars({"ID"}) \cup
                Scalars({"View"}) \cup Scalars({"Plane", "TPC", "Cryostat"})
<1>1. Has(ClusterSave, F)
  BY Items1, Items3, Items20, JoinedFields, ZenonT(60) DEF ClusterSave
<1>2. F = ClusterFields
  BY DEF ClusterFields, Scalars
<1>3. \A f \in ClusterFields : f[1] # "flag"
  BY DEF ClusterFields, Scalars
<1>4. ClusterSave = ClusterLoad
  BY DEF ClusterSave, ClusterLoad
<1> QED BY <1>1, <1>2, <1>3, <1>4 DEF Suits

LEMMA HitSuits ==
  Suits(HitFields, HitSave, HitLoad)
<1> DEFINE s == Items("ChannelID_t", <<"Channel">>)
                  \o Items("TDCtick_t", <<"StartTick", "EndTick">>)
                  \o Items("float", <<"PeakTime", "SigmaPeakTime", "RMS", "PeakAmplitude",
                       "SigmaPeakAmplitude", "SummedADC", "Integral", "SigmaIntegral">>)
                  \o Items("short", <<"Multiplicity">>) \o WireIDSave
           F == Scalars({"Channel"}) \cup Scalars({"StartTick", "EndTick"}) \cup
                Scalars({"PeakTime", "SigmaPeakTime", "RMS", "PeakAmplitude",
                "SigmaPeakAmplitude", "SummedADC", "Integral", "SigmaIntegral"}) \cup
                Scalars({"Multiplicity"}) \cup Scalars({"WireID.Wire", "WireID.Plane",
                "WireID.TPC", "WireID.Cryostat"})
           G == F \cup Scalars({"View"}) \cup Scalars({"SignalType"}) \cup
                Scalars({"DegreesOfFreedom"}) \cup Scalars({"GoodnessOfFit"}) \cup
                Scalars({"LocalIndex"})
<1>1. Has(s, F)
  BY Items1, Items2, Items4, Items8, JoinedFields DEF WireIDSave
<1>2. HitSave = s \o Items("View_t", <<"View">>) \o Items("SigType_t", <<"SignalType">>)
                  \o Items("int", <<"DegreesOfFreedom">>) \o Items("float", <<"GoodnessOfFit">>)
                  \o Items("short", <<"LocalIndex">>)
  BY DEF HitSave
<1>3. G = HitFields
  BY DEF HitFields, Scalars
<1> HIDE DEF s, F
<1>4. Has(HitSave, G)
  BY <1>1, <1>2, Items1, JoinedFields
<1>5. \A f \in HitFields : f[1] # "flag"
  BY DEF HitFields, Scalars
<1>6. HitSave = HitLoad
  BY DEF HitSave, HitLoad, WireIDSave, WireIDLoad
<1> QED BY <1>3, <1>4, <1>5, <1>6 DEF Suits

LEMMA OpDetWaveformSuits ==
  Suits(OpDetWaveformFields, OpDetWaveformSave, OpDetWaveformLoad)
<1> DEFINE F == Scalars({"ChannelNumber"}) \cup Scalars({"TimeStamp"}) \cup
                Scalars({"size"}) \cup Scalars({"samples"})
<1>1. Has(OpDetWaveformSave, F)
  BY Items1, JoinedFields DEF OpDetWaveformSave
<1>2. F = OpDetWaveformFields
  BY DEF OpDetWaveformFields, Scalars
<1>3. \A f \in OpDetWaveformFields : f[1] # "flag"
  BY DEF OpDetWaveformFields, Scalars
<1>4. OpDetWaveformSave = OpDetWaveformLoad
  BY DEF OpDetWaveformSave, OpDetWaveformLoad
<1> QED BY <1>1, <1>2, <1>3, <1>4 DEF Suits

LEMMA OpFlashSuits ==
  Suits(OpFlashFields, OpFlashSave, OpFlashLoad)
<1> DEFINE F == Scalars({"Time", "TimeWidth", "AbsTime"}) \cup Scalars({"Frame"}) \cup
                Scalars({"PEs", "WireCenters", "WireWidths"}) \cup Scalars({"XCenter",
                "XWidth", "YCenter", "YWidth", "ZCenter", "ZWidth", "FastToTotal"}) \cup
                Scalars({"InBeamFrame"}) \cup Scalars({"OnBeamTime"})
<1>1. Has(OpFlashSave, F)
  BY Items1, Items3, Items7, JoinedFields DEF OpFlashSave
<1>2. F = OpFlashFields
  BY DEF OpFlashFields, Scalars
<1>3. \A f \in OpFlashFields : f[1] # "flag"
  BY DEF OpFlashFields, Scalars
<1>4. OpFlashSave = OpFlashLoad
  BY DEF OpFlashSave, OpFlashLoad
<1> QED BY <1>1, <1>2, <1>3, <1>4 DEF Suits

LEMMA OpHitSuits ==
  Suits(OpHitFields, OpHitSave, OpHitLoad)
<1> DEFINE F == Scalars({"OpChannel"}) \cup Scalars({"Frame"}) \cup Scalars({"PeakTime",
                "PeakTimeAbs", "Width", "Area", "Amplitude", "PE", "FastToTotal"})
<1>1. Has(OpHitSave, F)
  BY Items1, Items7, JoinedFields DEF OpHitSave
<1>2. F = OpHitFields
  BY DEF OpHitFields, Scalars
<1>3. \A f \in OpHitFields : f[1] # "flag"
  BY DEF OpHitFields, Scalars
<1>4. OpHitSave = OpHitLoad
  BY DEF OpHitSave, OpHitLoad
<1> QED BY <1>1, <1>2, <1>3, <1>4 DEF Suits

LEMMA RawDigitSuits ==
  Suits(RawDigitFields, RawDigitSave, RawDigitLoad)
<1> DEFINE F == Scalars({"Channel"}) \cup Scalars({"Samples"}) \cup Scalars({"Pedestal",
                "Sigma"}) \cup Scalars({"Compression"}) \cup Scalars({"ADCs"})
<1>1. Has(RawDigitSave, F)
  BY Items1, Items2, JoinedFields DEF RawDigitSave
<1>2. F = RawDigitFields
  BY DEF RawDigitFields, Scalars
<1>3. \A f \in RawDigitFields : f[1] # "flag"
  BY DEF RawDigitFields, Scalars
<1>4. RawDigitSave = RawDigitLoad
  BY DEF RawDigitSave, RawDigitLoad
<1> QED BY <1>1, <1>2, <1>3, <1>4 DEF Suits

LEMMA ShowerSuits ==
  Suits(ShowerFields, ShowerSave, ShowerLoad)
<1> DEFINE F == Scalars({"Direction", "DirectionErr", "ShowerStart", "ShowerStartErr"})
                \cup Scalars({"Energy", "EnergyErr", "dEdx", "dEdxErr"}) \cup
                Scalars({"ID", "best_plane"}) \cup Scalars({"Length", "OpenAngle"})
<1>1. Has(ShowerSave, F)
  BY Items2, Items4, JoinedFields DEF ShowerSave
<1>2. F = ShowerFields
  BY DEF ShowerFields, Scalars
<1>3. \A f \in ShowerFields : f[1] # "flag"
  BY DEF ShowerFields, Scalars
<1>4. ShowerSave = ShowerLoad
  BY DEF ShowerSave, ShowerLoad
<1> QED BY <1>1, <1>2, <1>3, <1>4 DEF Suits

LEMMA SliceSuits ==
  Suits(SliceFields, SliceSave, SliceLoad)
<1> DEFINE F == Scalars({"ID"}) \cup Scalars({"Center", "Direction", "End0Pos",
                "End1Pos"}) \cup Scalars({"AspectRatio", "Charge"})
<1>1. Has(SliceSave, F)
  BY Items1, Items2, Items4, JoinedFields DEF SliceSave
<1>2. F = SliceFields
  BY DEF SliceFields, Scalars
<1>3. \A f \in SliceFields : f[1] # "flag"
  BY DEF SliceFields, Scalars
<1>4. SliceSave = SliceLoad
  BY DEF SliceSave, SliceLoad
<1> QED BY <1>1, <1>2, <1>3, <1>4 DEF Suits

LEMMA SpacePointSuits ==
  Suits(SpacePointFields, SpacePointSave, SpacePointLoad)
<1> DEFINE F == Scalars({"ID"}) \cup Indexed("XYZ", 3) \cup Indexed("ErrXYZ", 6) \cup
                Scalars({"Chisq"})
<1>1. Has(SpacePointSave, F)
  BY Items1, ElementsFields, JoinedFields DEF SpacePointSave
<1>2. F = SpacePointFields
  BY DEF SpacePointFields, Scalars, Indexed
<1>3. \A f \in SpacePointFields : f[1] # "flag"
  BY DEF SpacePointFields, Scalars, Indexed
<1>4. SpacePointSave = SpacePointLoad
  BY DEF SpacePointSave, SpacePointLoad
<1> QED BY <1>1, <1>2, <1>3, <1>4 DEF Suits

LEMMA TrackHitMetaSuits ==
  Suits(TrackHitMetaFields, TrackHitMetaSave, TrackHitMetaLoad)
<1> DEFINE F == Scalars({"Index"}) \cup Scalars({"Dx"})
<1>1. Has(TrackHitMetaSave, F)
  BY Items1, JoinedFields DEF TrackHitMetaSave
<1>2. F = TrackHitMetaFields
  BY DEF TrackHitMetaFields, Scalars
<1>3. \A f \in TrackHitMetaFields : f[1] # "flag"
  BY DEF TrackHitMetaFields, Scalars
<1>4. TrackHitMetaSave = TrackHitMetaLoad
  BY DEF TrackHitMetaSave, TrackHitMetaLoad
<1> QED BY <1>1, <1>2, <1>3, <1>4 DEF Suits

\* The flag that says a seed is valid is not written.
LEMMA SeedSuits ==
  Suits(SeedFields \ {<<"IsValid", 0>>}, SeedSave, SeedLoad)
<1> DEFINE F == Scalars({"Point", "Direction", "PointErr", "DirectionErr"})
<1>1. Has(SeedSave, F)
  BY Items4, JoinedFields DEF SeedSave
<1>2. F = SeedFields \ {<<"IsValid", 0>>}
  BY DEF SeedFields, Scalars
<1>3. \A f \in SeedFields \ {<<"IsValid", 0>>} : f[1] # "flag"
  BY DEF SeedFields, Scalars
<1>4. SeedSave = SeedLoad
  BY DEF SeedSave, SeedLoad
<1> QED BY <1>1, <1>2, <1>3, <1>4 DEF Suits

\* Nor is the status of a vertex.
LEMMA VertexSuits ==
  Suits(VertexFields \ {<<"status", 0>>}, VertexSave, VertexLoad)
<1> DEFINE F == Scalars({"chi2"}) \cup Scalars({"ndof", "ID"}) \cup
                Scalars({"position"}) \cup Scalars({"covariance"})
<1>1. Has(VertexSave, F)
  BY Items1, Items2, JoinedFields DEF VertexSave
<1>2. F = VertexFields \ {<<"status", 0>>}
  BY DEF VertexFields, Scalars
<1>3. \A f \in VertexFields \ {<<"status", 0>>} : f[1] # "flag"
  BY DEF VertexFields, Scalars
<1>4. VertexSave = VertexLoad
  BY DEF VertexSave, VertexLoad
<1> QED BY <1>1, <1>2, <1>3, <1>4 DEF Suits

\* The flags of a track are written like its other fields.
LEMMA TrackSuits ==
  Has(TrackSave, TrackFields) /\ TrackSave = TrackLoad
<1> DEFINE F == Scalars({"ParticleId"}) \cup Scalars({"Chi2"}) \cup Scalars({"Ndof",
                "ID"}) \cup Scalars({"VertexCovariance", "EndCovariance"}) \cup
                Scalars({"hits"}) \cup Indexed("flag", NFlags) \cup Scalars({"NPoints"})
                \cup Scalars({"positions", "momenta"}) \cup Scalars({"HasMomentum"})
<1>1. Has(Elements("bool", "flag", NFlags), Indexed("flag", NFlags))
  BY NFlagsAssumption, ElementsFields
<1>2. Has(TrackSave, F)
  BY <1>1, Items1, Items2, JoinedFields, ZenonT(60) DEF TrackSave
<1>3. F = TrackFields
  BY DEF TrackFields, Scalars, Indexed
<1>4. TrackSave = TrackLoad
  BY DEF TrackSave, TrackLoad
<1> QED BY <1>2, <1>3, <1>4

\* Layouts that depend on the size of a vector.
LEMMA PFParticleSuits ==
  ASSUME NEW n \in Nat
  PROVE  Suits(PFParticleFields(n), PFParticleSave(n), PFParticleLoad(n))
<1> DEFINE F == Scalars({"PdgCode"}) \cup Scalars({"Self", "Parent", "Daughters"}) \cup
                Indexed("Daughters", n)
<1>1. Has(PFParticleSave(n), F)
  BY Items1, Items3, ElementsFields, JoinedFields DEF PFParticleSave
<1>2. F = PFParticleFields(n)
  BY DEF PFParticleFields, Scalars, Indexed
<1>3. \A f \in PFParticleFields(n) : f[1] # "flag"
  BY DEF PFParticleFields, Scalars, Indexed
<1>4. PFParticleSave(n) = PFParticleLoad(n)
  BY DEF PFParticleSave, PFParticleLoad
<1> QED BY <1>1, <1>2, <1>3, <1>4 DEF Suits

LEMMA FragmentSuits ==
  ASSUME NEW n \in Nat
  PROVE  Suits(FragmentFields(n), FragmentSave(n), FragmentLoad(n))
<1> DEFINE F == Scalars({"size", "capacity"}) \cup Indexed("data", n)
<1>1. Has(FragmentSave(n), F)
  BY Items2, ElementsFields, JoinedFields DEF FragmentSave
<1>2. F = FragmentFields(n)
  BY DEF FragmentFields, Scalars, Indexed
<1>3. \A f \in FragmentFields(n) : f[1] # "flag"
  BY DEF FragmentFields, Scalars, Indexed
<1>4. FragmentSave(n) = FragmentLoad(n)
  BY DEF FragmentSave, FragmentLoad
<1> QED BY <1>1, <1>2, <1>3, <1>4 DEF Suits

LEMMA PCAxisSuits ==
  ASSUME NEW n \in Nat
  PROVE  Suits(PCAxisFields(n), PCAxisSave(n), PCAxisLoad(n))
<1> DEFINE F == Scalars({"SvdOK"}) \cup Scalars({"NumHitsUsed"}) \cup
                Scalars({"AvePosition"}) \cup Scalars({"AveHitDoca"}) \cup
                Scalars({"ID"}) \cup Scalars({"EigenValues"}) \cup
                Scalars({"EigenVectors"}) \cup Indexed("EigenVectors", n)
<1>1. Has(Elements("vector<double>", "EigenVectors", n), Indexed("EigenVectors", n))
  BY ElementsFields
<1>2. Has(PCAxisSave(n), F)
  BY <1>1, Items1, JoinedFields, ZenonT(60) DEF PCAxisSave
<1>3. F = PCAxisFields(n)
  BY DEF PCAxisFields, Scalars, Indexed
<1>4. \A f \in PCAxisFields(n) : f[1] # "flag"
  BY DEF PCAxisFields, Scalars, Indexed
<1>5. PCAxisSave(n) = PCAxisLoad(n)
  BY DEF PCAxisSave, PCAxisLoad
<1> QED BY <1>2, <1>3, <1>4, <1>5 DEF Suits

LEMMA WireSuits ==
  ASSUME NEW n \in Nat
  PROVE  Suits(WireFields(n), WireSave(n), WireLoad(n))
<1> DEFINE F == Scalars({"Channel"}) \cup Scalars({"View"}) \cup
                Scalars({"SignalROI.size", "ranges"}) \cup (Indexed("begin_index", n)
                \cup Indexed("data", n))
<1>1. Has(WireSave(n), F)
  BY Items1, Items2, RangesFields, JoinedFields DEF WireSave
<1>2. F = WireFields(n)
  BY DEF WireFields, Scalars, Indexed
<1>3. \A f \in WireFields(n) : f[1] # "flag"
  BY DEF WireFields, Scalars, Indexed
<1>4. WireSave(n) = WireLoad(n)
  BY DEF WireSave, WireLoad, RangesSave, RangesLoad
<1> QED BY <1>1, <1>2, <1>3, <1>4 DEF Suits


-------------------------------------------------------------------------------
(* One object *)

PlainClasses == DOMAIN FixedLayouts \ {"Seed", "Vertex", "Track", "OpDetWaveform"}

\* The fields of an object of a class that save writes.
Stored(c, obj) ==
  DOMAIN obj \ {f \in DOMAIN obj : \/ c = "Seed" /\ f = <<"IsValid", 0>>
                                   \/ c = "Vertex" /\ f = <<"status", 0>>}

\* The classes whose layouts are the same for all objects.
LEMMA PlainSuits ==
  ASSUME NEW c \in PlainClasses
  PROVE  /\ Suits(FixedLayouts[c][1], FixedLayouts[c][2], FixedLayouts[c][3])
         /\ c \notin {"PFParticle", "Fragment", "PCAxis", "Wire", "Seed", "Vertex", "Track",
                       "OpDetWaveform"}
<1>1. c \in {"Edge", "EID", "Cluster", "Hit", "OpFlash", "OpHit",
             "RawDigit", "Shower", "Slice", "SpacePoint", "TrackHitMeta"}
  BY DEF PlainClasses, FixedLayouts
<1>2. Suits(FixedLayouts[c][1], FixedLayouts[c][2], FixedLayouts[c][3])
  BY <1>1, EdgeSuits, EIDSuits, ClusterSuits, HitSuits, OpFlashSuits, OpHitSuits,
     RawDigitSuits, ShowerSuits, SliceSuits, SpacePointSuits, TrackHitMetaSuits
     DEF FixedLayouts
<1> QED BY <1>1, <1>2

\* The other classes.
LEMMA ClassesAre ==
  Classes =
    PlainClasses \cup
    {"PFParticle", "Fragment", "PCAxis", "Wire", "Seed", "Vertex", "Track", "OpDetWaveform"}
BY DEF Classes, PlainClasses, FixedLayouts

\* The size of an object that was given one.
LEMMA WithNum ==
  ASSUME NEW k, NEW fields, NEW name, NEW n, <<name, 0>> \in fields
  PROVE  LET obj == With(Plain(k, fields), name, 0, n) IN
         /\ DOMAIN obj = fields /\ obj = [f \in fields |-> obj[f]]
         /\ Num(obj, name, 0) = n
         /\ obj[<<name, 0>>] = <<n, <<name, 0>>>>
BY DEF With, Plain, Num

\* What an object of a class is.
LEMMA PlainObject ==
  ASSUME NEW c \in PlainClasses, NEW obj \in Objects(c)
  PROVE  DOMAIN obj = FixedLayouts[c][1] /\ obj = [f \in FixedLayouts[c][1] |-> obj[f]]
BY PlainSuits DEF Objects, Plain

LEMMA PFParticleObject ==
  ASSUME NEW obj \in Objects("PFParticle")
  PROVE  /\ Num(obj, "Daughters", 0) \in Nat
         /\ DOMAIN obj = PFParticleFields(Num(obj, "Daughters", 0))
         /\ obj = [f \in DOMAIN obj |-> obj[f]]
<1>1. PICK k \in 1..2, n \in 0..MaxSize :
        obj = With(Plain(k, PFParticleFields(n)), "Daughters", 0, n)
  BY DEF Objects
<1>2. <<"Daughters", 0>> \in PFParticleFields(n)
  BY DEF PFParticleFields, Scalars
<1>3. n \in Nat
  BY BoundsAssumption
<1> QED BY <1>1, <1>2, <1>3, WithNum

LEMMA WireObject ==
  ASSUME NEW obj \in Objects("Wire")
  PROVE  /\ Num(obj, "ranges", 0) \in Nat
         /\ DOMAIN obj = WireFields(Num(obj, "ranges", 0))
         /\ obj = [f \in DOMAIN obj |-> obj[f]]
<1>1. PICK k \in 1..2, n \in 0..MaxSize :
        obj = With(Plain(k, WireFields(n)), "ranges", 0, n)
  BY DEF Objects
<1>2. <<"ranges", 0>> \in WireFields(n)
  BY DEF WireFields, Scalars
<1>3. n \in Nat
  BY BoundsAssumption
<1> QED BY <1>1, <1>2, <1>3, WithNum

LEMMA PCAxisObject ==
  ASSUME NEW obj \in Objects("PCAxis")
  PROVE  /\ Num(obj, "EigenVectors", 0) \in Nat
         /\ DOMAIN obj = PCAxisFields(Num(obj, "EigenVectors", 0))
         /\ obj = [f \in DOMAIN obj |-> obj[f]]
<1>1. PICK n \in 2..4, lengths \in [1..4 -> 2..3] :
        obj = [f \in PCAxisFields(n) |->
                 <<IF f[1] # "EigenVectors" THEN 7 ELSE IF f[2] = 0 THEN n ELSE lengths[f[2]], f>>]
  BY DEF Objects
<1>2. <<"EigenVectors", 0>> \in PCAxisFields(n)
  BY DEF PCAxisFields, Scalars
<1>3. Num(obj, "EigenVectors", 0) = n
  BY <1>1, <1>2 DEF Num
<1> QED BY <1>1, <1>3

LEMMA FragmentObject ==
  ASSUME NEW obj \in Objects("Fragment")
  PROVE  /\ Num(obj, "size", 0) \in Nat /\ Num(obj, "capacity", 0) \in Nat
         /\ Num(obj, "size", 0) <= Num(obj, "capacity", 0)
         /\ obj[<<"size", 0>>] = <<Num(obj, "size", 0), <<"size", 0>>>>
         /\ obj[<<"capacity", 0>>] = <<Num(obj, "capacity", 0), <<"capacity", 0>>>>
         /\ DOMAIN obj = FragmentFields(Num(obj, "size", 0))
         /\ obj = [f \in DOMAIN obj |-> obj[f]]
<1>1. PICK s \in 0..MaxSize, n \in 0..1 :
        obj = With(With(Plain(7, FragmentFields(s)), "size", 0, s), "capacity", 0, s + n)
  BY DEF Objects
<1>2. /\ <<"size", 0>> \in FragmentFields(s) /\ <<"capacity", 0>> \in FragmentFields(s)
      /\ <<"size", 0>> # <<"capacity", 0>>
  BY DEF FragmentFields, Scalars
<1>3. s \in Nat /\ n \in Nat
  BY BoundsAssumption
<1>4. /\ DOMAIN obj = FragmentFields(s) /\ obj = [f \in DOMAIN obj |-> obj[f]]
      /\ obj[<<"size", 0>>] = <<s, <<"size", 0>>>>
      /\ obj[<<"capacity", 0>>] = <<s + n, <<"capacity", 0>>>>
  BY <1>1, <1>2 DEF With, Plain
<1> QED BY <1>3, <1>4 DEF Num

LEMMA SeedObject ==
  ASSUME NEW obj \in Objects("Seed")
  PROVE  /\ DOMAIN obj = SeedFields /\ obj = [f \in DOMAIN obj |-> obj[f]]
         /\ Num(obj, "IsValid", 0) \in 0..1
         /\ obj[<<"IsValid", 0>>] = <<Num(obj, "IsValid", 0), <<"IsValid", 0>>>>
<1>1. PICK k \in 2..3, valid \in 0..1 : obj = With(Plain(k, SeedFields), "IsValid", 0, valid)
  BY DEF Objects
<1>2. <<"IsValid", 0>> \in SeedFields
  BY DEF SeedFields, Scalars
<1> QED BY <1>1, <1>2, WithNum

LEMMA VertexObject ==
  ASSUME NEW obj \in Objects("Vertex")
  PROVE  /\ DOMAIN obj = VertexFields /\ obj = [f \in DOMAIN obj |-> obj[f]]
         /\ obj[<<"status", 0>>] = <<obj[<<"status", 0>>][1], <<"status", 0>>>>
<1>1. PICK k \in 1..2, status \in 0..1 : obj = With(Plain(k, VertexFields), "status", 0, status)
  BY DEF Objects
<1>2. <<"status", 0>> \in VertexFields
  BY DEF VertexFields, Scalars
<1> QED BY <1>1, <1>2, WithNum

LEMMA OpDetWaveformObject ==
  ASSUME NEW obj \in Objects("OpDetWaveform")
  PROVE  DOMAIN obj = OpDetWaveformFields /\ obj = [f \in DOMAIN obj |-> obj[f]]
<1>1. PICK channel \in 1..2, tenths \in {10, 11, 25} :
        obj = With(With(Plain(7, OpDetWaveformFields), "ChannelNumber", 0, channel),
                   "TimeStamp", 0, tenths)
  BY DEF Objects
<1> QED BY <1>1 DEF With, Plain

LEMMA TrackObject ==
  ASSUME NEW obj \in Objects("Track")
  PROVE  /\ DOMAIN obj = TrackFields /\ obj = [f \in DOMAIN obj |-> obj[f]]
         /\ \A f \in TrackFields :
              f[1] = "flag" => obj[f] = <<obj[f][1], f>> /\ obj[f][1] \in {Undefined, False, True}
<1>1. PICK states \in [1..NFlags -> {Undefined, False, True}] :
        obj = [f \in TrackFields |-> IF f[1] = "flag" THEN <<states[f[2]], f>> ELSE <<7, f>>]
  BY DEF Objects
<1>2. ASSUME NEW f \in TrackFields, f[1] = "flag"
      PROVE  f[2] \in 1..NFlags
  <2>1. f \notin Scalars({"ParticleId", "Chi2", "Ndof", "ID", "HasMomentum", "NPoints",
          "VertexCovariance", "EndCovariance", "positions", "momenta", "hits"})
    BY <1>2 DEF Scalars
  <2> QED BY <1>2, <2>1 DEF TrackFields, Indexed
<1> QED BY <1>1, <1>2

-------------------------------------------------------------------------------
(* The layout of an object *)

\* save writes each stored field of an object, and only the fields of a track are
\* flags.
LEMMA Layouts ==
  ASSUME NEW c \in Classes, NEW obj \in Objects(c)
  PROVE  /\ Has(SaveLayout(c, obj), Stored(c, obj))
         /\ c # "Track" => \A f \in Stored(c, obj) : f[1] # "flag"
<1>1. CASE c \in PlainClasses
  <2>1. SaveLayout(c, obj) = FixedLayouts[c][2]
    BY <1>1, PlainSuits DEF SaveLayout
  <2>2. Stored(c, obj) = FixedLayouts[c][1]
    BY <1>1, PlainSuits, PlainObject DEF Stored
  <2> QED BY <1>1, <2>1, <2>2, PlainSuits DEF Suits
<1>2. CASE c = "PFParticle"
  <2>1. /\ Num(obj, "Daughters", 0) \in Nat
        /\ SaveLayout(c, obj) = PFParticleSave(Num(obj, "Daughters", 0))
    BY <1>2, PFParticleObject DEF SaveLayout
  <2>2. Stored(c, obj) = PFParticleFields(Num(obj, "Daughters", 0))
    BY <1>2, PFParticleObject DEF Stored
  <2> QED BY <2>1, <2>2, PFParticleSuits DEF Suits
<1>3. CASE c = "Fragment"
  <2>1. /\ Num(obj, "size", 0) \in Nat
        /\ SaveLayout(c, obj) = FragmentSave(Num(obj, "size", 0))
    BY <1>3, FragmentObject DEF SaveLayout
  <2>2. Stored(c, obj) = FragmentFields(Num(obj, "size", 0))
    BY <1>3, FragmentObject DEF Stored
  <2> QED BY <2>1, <2>2, FragmentSuits DEF Suits
<1>4. CASE c = "PCAxis"
  <2>1. /\ Num(obj, "EigenVectors", 0) \in Nat
        /\ SaveLayout(c, obj) = PCAxisSave(Num(obj, "EigenVectors", 0))
    BY <1>4, PCAxisObject DEF SaveLayout
  <2>2. Stored(c, obj) = PCAxisFields(Num(obj, "EigenVectors", 0))
    BY <1>4, PCAxisObject DEF Stored
  <2> QED BY <2>1, <2>2, PCAxisSuits DEF Suits
<1>5. CASE c = "Wire"
  <2>1. /\ Num(obj, "ranges", 0) \in Nat
        /\ SaveLayout(c, obj) = WireSave(Num(obj, "ranges", 0))
    BY <1>5, WireObject DEF SaveLayout
  <2>2. Stored(c, obj) = WireFields(Num(obj, "ranges", 0))
    BY <1>5, WireObject DEF Stored
  <2> QED BY <2>1, <2>2, WireSuits DEF Suits
<1>6. CASE c = "Seed"
  <2>1. SaveLayout(c, obj) = SeedSave
    BY <1>6 DEF SaveLayout, FixedLayouts
  <2>2. Stored(c, obj) = SeedFields \ {<<"IsValid", 0>>}
    BY <1>6, SeedObject DEF Stored
  <2> QED BY <2>1, <2>2, SeedSuits DEF Suits
<1>7. CASE c = "Vertex"
  <2>1. SaveLayout(c, obj) = VertexSave
    BY <1>7 DEF SaveLayout, FixedLayouts
  <2>2. Stored(c, obj) = VertexFields \ {<<"status", 0>>}
    BY <1>7, VertexObject DEF Stored
  <2> QED BY <2>1, <2>2, VertexSuits DEF Suits
<1>8. CASE c = "Track"
  <2>1. SaveLayout(c, obj) = TrackSave
    BY <1>8 DEF SaveLayout, FixedLayouts
  <2>2. Stored(c, obj) = TrackFields
    BY <1>8, TrackObject DEF Stored
  <2> QED BY <1>8, <2>1, <2>2, TrackSuits
<1>9. CASE c = "OpDetWaveform"
  <2>1. SaveLayout(c, obj) = OpDetWaveformSave
    BY <1>9 DEF SaveLayout, FixedLayouts
  <2>2. Stored(c, obj) = OpDetWaveformFields
    BY <1>9, OpDetWaveformObject DEF Stored
  <2> QED BY <2>1, <2>2, OpDetWaveformSuits DEF Suits
<1> QED BY <1>1, <1>2, <1>3, <1>4, <1>5, <1>6, <1>7, <1>8, <1>9, ClassesAre

\* What is written first stays in front.
LEMMA InFront ==
  ASSUME NEW s, NEW t, Sequence(s), Sequence(t)
  PROVE  \A i \in 1..Len(s) : i \in DOMAIN (s \o t) /\ (s \o t)[i] = s[i]
BY Joined, SequenceIs

\* A statement that writes two values starts with the first.
LEMMA FirstOfTwo ==
  ASSUME NEW type, NEW a, NEW b
  PROVE  Items(type, <<a, b>>)[1].field = <<a, 0>>
BY DEF Items

\* A statement that writes one value.
LEMMA OneItem ==
  ASSUME NEW type, NEW a
  PROVE  /\ Sequence(Items(type, <<a>>)) /\ Len(Items(type, <<a>>)) = 1
         /\ Items(type, <<a>>)[1].field = <<a, 0>>
BY DEF Items, Sequence

\* A statement that writes one value, after others.
LEMMA AtTheEnd ==
  ASSUME NEW s, Sequence(s), NEW type, NEW a
  PROVE  /\ Sequence(s \o Items(type, <<a>>))
         /\ Len(s \o Items(type, <<a>>)) = Len(s) + 1
         /\ (s \o Items(type, <<a>>))[Len(s) + 1].field = <<a, 0>>
<1>1. 1 \in 1..Len(Items(type, <<a>>))
  BY OneItem
<1> QED BY <1>1, OneItem, Joined

\* The last item of a second part, when there is one.
LEMMA Reaches ==
  ASSUME NEW s, NEW t, Sequence(s), Sequence(t), Len(t) # 0
  PROVE  /\ Sequence(s \o t) /\ Len(s \o t) = Len(s) + Len(t)
         /\ (s \o t)[Len(s) + Len(t)] = t[Len(t)]
<1>1. Len(t) \in 1..Len(t)
  BY SequenceIs
<1> QED BY <1>1, Joined

\* The number that sizes a vector is at the place load looks for it: the fourth of a
\* PFParticle,
LEMMA PFParticlePlace ==
  ASSUME NEW n \in Nat
  PROVE  4 \in DOMAIN PFParticleSave(n) /\ PFParticleSave(n)[4].field = <<"Daughters", 0>>
<1> DEFINE s == Items("int", <<"PdgCode">>)
           t == Items("size_t", <<"Self", "Parent", "Daughters">>)
           u == Elements("size_t", "Daughters", n)
<1>1. Sequence(s) /\ Len(s) = 1
  BY OneItem
<1>2. Sequence(t) /\ Len(t) = 3 /\ t[3].field = <<"Daughters", 0>>
  BY DEF Items, Sequence
<1>3. Sequence(u)
  BY ElementsFields DEF Has
<1>4. PFParticleSave(n) = s \o t \o u
  BY DEF PFParticleSave
<1> HIDE DEF s, t, u
<1>5. /\ Sequence(s \o t) /\ Len(s \o t) = Len(s) + Len(t)
      /\ (s \o t)[Len(s) + Len(t)] = t[Len(t)]
  <2>1. Len(t) # 0
    BY <1>2
  <2> QED BY <1>1, <1>2, <2>1, Reaches
<1>6. (s \o t)[4].field = <<"Daughters", 0>> /\ 4 \in 1..Len(s \o t)
  <2>1. Len(s) + Len(t) = 4
    BY <1>1, <1>2
  <2> QED BY <1>2, <1>5, <2>1
<1> QED BY <1>3, <1>4, <1>5, <1>6, InFront

\* the first of a fragment,
LEMMA FragmentPlace ==
  ASSUME NEW n \in Nat
  PROVE  1 \in DOMAIN FragmentSave(n) /\ FragmentSave(n)[1].field = <<"size", 0>>
<1> DEFINE s == Items("unsigned int", <<"size", "capacity">>)
           u == Elements("unsigned long long", "data", n)
<1>1. Sequence(s) /\ Len(s) = 2 /\ s[1].field = <<"size", 0>>
  <2>1. Sequence(s)
    BY DEF Items, Sequence
  <2>2. Len(s) = 2
    BY DEF Items
  <2>3. s[1].field = <<"size", 0>>
    BY FirstOfTwo
  <2> QED BY <2>1, <2>2, <2>3
<1>2. Sequence(u)
  BY ElementsFields DEF Has
<1>3. FragmentSave(n) = s \o u
  BY DEF FragmentSave
<1> HIDE DEF s, u
<1>4. 1 \in 1..Len(s)
  BY <1>1
<1>5. 1 \in DOMAIN (s \o u) /\ (s \o u)[1] = s[1]
  <2>1. \A i \in 1..Len(s) : i \in DOMAIN (s \o u) /\ (s \o u)[i] = s[i]
    BY <1>1, <1>2, InFront
  <2> QED BY <1>4, <2>1
<1> QED BY <1>1, <1>3, <1>5

\* the seventh of a PCAxis,
LEMMA PCAxisPlace ==
  ASSUME NEW n \in Nat
  PROVE  7 \in DOMAIN PCAxisSave(n) /\ PCAxisSave(n)[7].field = <<"EigenVectors", 0>>
<1> DEFINE s1 == Items("bool", <<"SvdOK">>)
           s2 == s1 \o Items("int", <<"NumHitsUsed">>)
           s3 == s2 \o Items("array<double,3>", <<"AvePosition">>)
           s4 == s3 \o Items("double", <<"AveHitDoca">>)
           s5 == s4 \o Items("size_t", <<"ID">>)
           s6 == s5 \o Items("array<double,3>", <<"EigenValues">>)
           s7 == s6 \o Items("size_t", <<"EigenVectors">>)
           u == Elements("vector<double>", "EigenVectors", n)
<1>1. Sequence(s1) /\ Len(s1) = 1
  BY OneItem
<1>2. PCAxisSave(n) = s7 \o u
  BY DEF PCAxisSave
<1>3. Sequence(u)
  BY ElementsFields DEF Has
<1> HIDE DEF s1, s2, s3, s4, s5, s6, s7, u
<1>4. Sequence(s2) /\ Len(s2) = Len(s1) + 1
  BY <1>1, AtTheEnd DEF s2
<1>5. Sequence(s3) /\ Len(s3) = Len(s2) + 1
  BY <1>4, AtTheEnd DEF s3
<1>6. Sequence(s4) /\ Len(s4) = Len(s3) + 1
  BY <1>5, AtTheEnd DEF s4
<1>7. Sequence(s5) /\ Len(s5) = Len(s4) + 1
  BY <1>6, AtTheEnd DEF s5
<1>8. Sequence(s6) /\ Len(s6) = Len(s5) + 1
  BY <1>7, AtTheEnd DEF s6
<1>9. Sequence(s7) /\ Len(s7) = Len(s6) + 1 /\ s7[Len(s6) + 1].field = <<"EigenVectors", 0>>
  BY <1>8, AtTheEnd DEF s7
<1>10. Len(s6) + 1 = 7 /\ 7 \in 1..Len(s7)
  BY <1>1, <1>4, <1>5, <1>6, <1>7, <1>8, <1>9
<1>11. 7 \in DOMAIN (s7 \o u) /\ (s7 \o u)[7] = s7[7]
  BY <1>9, <1>10, <1>3, InFront
<1> QED BY <1>9, <1>10, <1>11, <1>2

\* and the fourth of a wire.
LEMMA WirePlace ==
  ASSUME NEW n \in Nat
  PROVE  4 \in DOMAIN WireSave(n) /\ WireSave(n)[4].field = <<"ranges", 0>>
<1> DEFINE s == Items("ChannelID_t", <<"Channel">>) \o Items("View_t", <<"View">>)
           t == Items("size_t", <<"SignalROI.size", "ranges">>)
<1>1. Sequence(s) /\ Len(s) = 2
  BY OneItem, AtTheEnd
<1>2. Sequence(t) /\ Len(t) = 2 /\ t[2].field = <<"ranges", 0>>
  BY DEF Items, Sequence
<1>3. Sequence(RangesSave(n))
  BY RangesFields DEF Has
<1>4. WireSave(n) = s \o t \o RangesSave(n)
  BY DEF WireSave
<1> HIDE DEF s, t
<1>5. /\ Sequence(s \o t) /\ Len(s \o t) = Len(s) + Len(t)
      /\ (s \o t)[Len(s) + Len(t)] = t[Len(t)]
  <2>1. Len(t) # 0
    BY <1>2
  <2> QED BY <1>1, <1>2, <2>1, Reaches
<1>6. (s \o t)[4].field = <<"ranges", 0>> /\ 4 \in 1..Len(s \o t)
  <2>1. Len(s) + Len(t) = 4
    BY <1>1, <1>2
  <2> QED BY <1>2, <1>5, <2>1
<1> QED BY <1>3, <1>4, <1>5, <1>6, InFront

\* load asks for the types save has written, in their order.
LEMMA LayoutRead ==
  ASSUME NEW c \in Classes, NEW obj \in Objects(c), NEW rest,
         \A j \in DOMAIN SaveLayout(c, obj) : rest[j] = Written(c, obj)[j]
  PROVE  LoadLayout(c, rest) = SaveLayout(c, obj)
<1> DEFINE layout == SaveLayout(c, obj)
<1>1. \A j \in DOMAIN layout : layout[j].field[1] # "flag" =>
        rest[j].value[1] = obj[layout[j].field][1]
  <2> SUFFICES ASSUME NEW j \in DOMAIN layout, layout[j].field[1] # "flag"
               PROVE  rest[j].value = obj[layout[j].field]
    OBVIOUS
  <2>1. Written(c, obj)[j].value = TestFlag(layout[j].field, obj[layout[j].field])
    BY DEF Written
  <2>2. rest[j] = Written(c, obj)[j]
    OBVIOUS
  <2> QED BY <2>1, <2>2 DEF TestFlag
<1>2. CASE c \in PlainClasses
  BY <1>2, PlainSuits DEF Suits, SaveLayout, LoadLayout
<1>3. CASE c = "PFParticle"
  <2>1. Num(obj, "Daughters", 0) \in Nat /\ layout = PFParticleSave(Num(obj, "Daughters", 0))
    BY <1>3, PFParticleObject DEF SaveLayout
  <2>2. rest[4].value[1] = Num(obj, "Daughters", 0)
    BY <1>1, <2>1, PFParticlePlace DEF Num
  <2>3. LoadLayout(c, rest) = PFParticleLoad(Num(obj, "Daughters", 0))
    BY <1>3, <2>2 DEF LoadLayout
  <2> QED BY <2>1, <2>3, PFParticleSuits DEF Suits
<1>4. CASE c = "Fragment"
  <2>1. Num(obj, "size", 0) \in Nat /\ layout = FragmentSave(Num(obj, "size", 0))
    BY <1>4, FragmentObject DEF SaveLayout
  <2>2. rest[1].value[1] = Num(obj, "size", 0)
    BY <1>1, <2>1, FragmentPlace DEF Num
  <2>3. LoadLayout(c, rest) = FragmentLoad(Num(obj, "size", 0))
    BY <1>4, <2>2 DEF LoadLayout
  <2> QED BY <2>1, <2>3, FragmentSuits DEF Suits
<1>5. CASE c = "PCAxis"
  <2>1. Num(obj, "EigenVectors", 0) \in Nat /\ layout = PCAxisSave(Num(obj, "EigenVectors", 0))
    BY <1>5, PCAxisObject DEF SaveLayout
  <2>2. rest[7].value[1] = Num(obj, "EigenVectors", 0)
    BY <1>1, <2>1, PCAxisPlace DEF Num
  <2>3. LoadLayout(c, rest) = PCAxisLoad(Num(obj, "EigenVectors", 0))
    BY <1>5, <2>2 DEF LoadLayout
  <2> QED BY <2>1, <2>3, PCAxisSuits DEF Suits
<1>6. CASE c = "Wire"
  <2>1. Num(obj, "ranges", 0) \in Nat /\ layout = WireSave(Num(obj, "ranges", 0))
    BY <1>6, WireObject DEF SaveLayout
  <2>2. rest[4].value[1] = Num(obj, "ranges", 0)
    BY <1>1, <2>1, WirePlace DEF Num
  <2>3. LoadLayout(c, rest) = WireLoad(Num(obj, "ranges", 0))
    BY <1>6, <2>2 DEF LoadLayout
  <2> QED BY <2>1, <2>3, WireSuits DEF Suits
<1>7. CASE c = "Seed"
  BY <1>7, SeedSuits DEF Suits, SaveLayout, LoadLayout, FixedLayouts
<1>8. CASE c = "Vertex"
  BY <1>8, VertexSuits DEF Suits, SaveLayout, LoadLayout, FixedLayouts
<1>9. CASE c = "Track"
  BY <1>9, TrackSuits DEF SaveLayout, LoadLayout, FixedLayouts
<1>10. CASE c = "OpDetWaveform"
  BY <1>10, OpDetWaveformSuits DEF Suits, SaveLayout, LoadLayout, FixedLayouts
<1> QED BY <1>2, <1>3, <1>4, <1>5, <1>6, <1>7, <1>8, <1>9, <1>10, ClassesAre

\* Every field written is read with the value it was written with.
LEMMA FieldsRead ==
  ASSUME NEW layout, NEW rest, NEW obj,
         \A j \in DOMAIN layout :
           /\ j \in DOMAIN rest
           /\ rest[j] = [type |-> layout[j].type,
                         value |-> TestFlag(layout[j].field, obj[layout[j].field])]
  PROVE  ReadFields(layout, rest) = [f \in FieldsOf(layout) |-> TestFlag(f, obj[f])]
<1>1. ASSUME NEW f \in FieldsOf(layout)
      PROVE  ReadField(layout, rest, f) = TestFlag(f, obj[f])
  <2> DEFINE i == CHOOSE j \in DOMAIN layout : layout[j].field = f
  <2>1. i \in DOMAIN layout /\ layout[i].field = f
    BY DEF FieldsOf
  <2> HIDE DEF i
  <2>2. i \in DOMAIN rest /\ rest[i].type = layout[i].type /\ rest[i].value = TestFlag(f, obj[f])
    <3>1. /\ i \in DOMAIN rest
          /\ rest[i] = [type |-> layout[i].type,
                        value |-> TestFlag(layout[i].field, obj[layout[i].field])]
      BY <2>1
    <3>2. layout[i].field = f
      BY <2>1
    <3> QED BY <3>1, <3>2
  <2>3. ReadField(layout, rest, f) =
          IF i \in DOMAIN rest /\ rest[i].type = layout[i].type THEN rest[i].value ELSE Garbage(f)
    BY DEF ReadField, i
  <2> QED BY <2>2, <2>3
<1> QED BY <1>1 DEF ReadFields, FieldsOf

-------------------------------------------------------------------------------
(* An object comes back *)

\* An object is a function of its fields.
LEMMA ObjectIsFunction ==
  ASSUME NEW c \in Classes, NEW obj \in Objects(c)
  PROVE  obj = [f \in DOMAIN obj |-> obj[f]]
<1>1. CASE c \in PlainClasses
  BY <1>1, PlainObject
<1> QED BY <1>1, ClassesAre, PFParticleObject, FragmentObject, PCAxisObject, WireObject,
           SeedObject, VertexObject, TrackObject, OpDetWaveformObject

\* What load makes of the stored fields of an object is what ComesBack says.
LEMMA RoundTrip ==
  ASSUME class \in Classes, NEW obj \in Objects(class), ~ Rejected(class, obj)
  PROVE  Rebuilt(class, [f \in Stored(class, obj) |-> TestFlag(f, obj[f])]) = Returned(obj)
<1> DEFINE read == [f \in Stored(class, obj) |-> TestFlag(f, obj[f])]
<1>1. ASSUME class # "Track"
      PROVE  /\ DOMAIN read = Stored(class, obj)
             /\ \A f \in Stored(class, obj) : read[f] = obj[f]
  BY <1>1, Layouts DEF TestFlag
<1>2. ASSUME class \notin {"Seed", "Vertex", "Track"}
      PROVE  read = obj
  <2>1. Stored(class, obj) = DOMAIN obj
    BY <1>2 DEF Stored
  <2> QED BY <1>1, <1>2, <2>1, ObjectIsFunction
<1>3. CASE class \in PlainClasses \cup {"PFParticle", "PCAxis", "Wire"}
  <2>1. class \notin {"Fragment", "Seed", "Vertex", "Track", "OpDetWaveform"}
    BY <1>3, PlainSuits
  <2>2. Rebuilt(class, read) = read /\ Returned(obj) = obj
    BY <2>1 DEF Rebuilt, Returned
  <2> QED BY <1>2, <2>1, <2>2
<1>4. CASE class = "Fragment"
  <2> DEFINE s == Num(obj, "size", 0)
             c == Num(obj, "capacity", 0)
             size == <<"size", 0>>
             capacity == <<"capacity", 0>>
  <2>1. /\ s \in Nat /\ c \in Nat /\ s <= c /\ size # capacity
        /\ obj[size] = <<s, size>> /\ obj[capacity] = <<c, capacity>>
        /\ DOMAIN obj = FragmentFields(s)
    BY <1>4, FragmentObject
  <2>2. /\ FragmentFields(s) = {size, capacity} \cup Indexed("data", s)
        /\ FragmentFields(c) = {size, capacity} \cup Indexed("data", c)
        /\ \A f \in Indexed("data", c) : f[1] = "data"
        /\ size[1] = "size" /\ capacity[1] = "capacity"
    BY <2>1 DEF FragmentFields, Scalars, Indexed
  <2>3. Rebuilt(class, read) = Resized(obj)
    BY <1>2, <1>4 DEF Rebuilt
  <2>4. Resized(obj) =
          [f \in FragmentFields(c) |->
             CASE f[1] \in {"size", "capacity"} -> <<c, f>>
               [] f[1] = "data" -> IF f \in DOMAIN obj THEN obj[f] ELSE <<0, f>>]
    BY DEF Resized
  <2>5. Returned(obj) =
          [f \in FragmentFields(c) |->
             IF f = size THEN <<c, f>>
             ELSE IF f \in DOMAIN obj THEN obj[f] ELSE <<0, f>>]
    BY <1>4 DEF Returned
  <2> HIDE DEF s, c, size, capacity
  <2>6. ASSUME NEW f \in FragmentFields(c)
        PROVE  Resized(obj)[f] = Returned(obj)[f]
    <3>1. CASE f = size
      BY <2>2, <2>4, <2>5, <3>1
    <3>2. CASE f = capacity
      BY <2>1, <2>2, <2>4, <2>5, <3>2
    <3>3. CASE f \in Indexed("data", c)
      <4>1. f[1] = "data" /\ f # size
        BY <2>2, <3>3
      <4> QED BY <2>4, <2>5, <4>1
    <3> QED BY <2>2, <3>1, <3>2, <3>3
  <2>7. Resized(obj) = [f \in FragmentFields(c) |-> Resized(obj)[f]]
    BY <2>4
  <2>8. Returned(obj) = [f \in FragmentFields(c) |-> Returned(obj)[f]]
    BY <2>5
  <2>9. Resized(obj) = Returned(obj)
    BY <2>6, <2>7, <2>8
  <2> QED BY <2>3, <2>9
<1>5. CASE class = "Seed"
  <2>1. /\ DOMAIN obj = SeedFields /\ obj = [f \in SeedFields |-> obj[f]]
        /\ obj[<<"IsValid", 0>>] = <<1, <<"IsValid", 0>>>>
    BY <1>5, SeedObject DEF Rejected, SeedRejected
  <2>2. Stored(class, obj) = SeedFields \ {<<"IsValid", 0>>}
    BY <1>5, <2>1 DEF Stored
  <2>3. Rebuilt(class, read) =
          [f \in SeedFields |-> IF f = <<"IsValid", 0>> THEN <<1, f>> ELSE read[f]]
    BY <1>5 DEF Rebuilt
  <2>4. Returned(obj) = obj
    BY <1>5 DEF Returned
  <2> HIDE DEF read
  <2>5. Rebuilt(class, read) = [f \in SeedFields |-> obj[f]]
    BY <1>1, <1>5, <2>1, <2>2, <2>3
  <2> QED BY <2>1, <2>4, <2>5 DEF read
<1>6. CASE class = "Vertex"
  <2> DEFINE status == <<"status", 0>>
  <2>1. DOMAIN obj = VertexFields /\ obj = [f \in VertexFields |-> obj[f]]
    BY <1>6, VertexObject
  <2>2. Stored(class, obj) = VertexFields \ {status}
    BY <1>6, <2>1 DEF Stored
  <2>3. Rebuilt(class, read) =
          [f \in VertexFields |-> IF f = status THEN <<DefaultStatus, f>> ELSE read[f]]
    BY <1>6 DEF Rebuilt
  <2>4. Returned(obj) = [obj EXCEPT ![status] = <<DefaultStatus, status>>]
    BY <1>6 DEF Returned, With
  <2>5. \A f \in VertexFields \ {status} : read[f] = obj[f]
    BY <1>1, <1>6, <2>2
  <2> HIDE DEF read, status
  <2> QED BY <2>1, <2>3, <2>4, <2>5 DEF read
<1>7. CASE class = "Track"
  <2>1. /\ DOMAIN obj = TrackFields
        /\ \A f \in TrackFields : f[1] = "flag" =>
             obj[f] = <<obj[f][1], f>> /\ obj[f][1] \in {Undefined, False, True}
    BY <1>7, TrackObject
  <2>2. Stored(class, obj) = TrackFields
    BY <1>7, <2>1 DEF Stored
  <2>3. Rebuilt(class, read) =
          [f \in TrackFields |->
             IF f[1] = "flag" THEN <<IF read[f][1] = 1 THEN True ELSE Undefined, f>> ELSE read[f]]
    BY <1>7, <2>2 DEF Rebuilt, SetFlags
  <2>4. Returned(obj) =
          [f \in TrackFields |->
             IF f[1] = "flag" /\ obj[f][1] = False THEN <<Undefined, f>> ELSE obj[f]]
    BY <1>7, <2>1 DEF Returned
  <2>5. \A f \in TrackFields :
          read[f] = IF f[1] = "flag" THEN <<IF obj[f][1] = True THEN 1 ELSE 0, f>> ELSE obj[f]
    BY <2>2 DEF TestFlag
  <2> HIDE DEF read
  <2>6. ASSUME NEW f \in TrackFields
        PROVE  Rebuilt(class, read)[f] = Returned(obj)[f]
    <3>1. CASE f[1] # "flag"
      BY <2>3, <2>4, <2>5, <3>1
    <3>2. CASE f[1] = "flag"
      <4>1. read[f][1] = IF obj[f][1] = True THEN 1 ELSE 0
        <5>1. read[f] = <<IF obj[f][1] = True THEN 1 ELSE 0, f>>
          BY <2>5, <3>2
        <5> QED BY <5>1
      <4>2. /\ Rebuilt(class, read)[f] = <<IF read[f][1] = 1 THEN True ELSE Undefined, f>>
            /\ Returned(obj)[f] = IF obj[f][1] = False THEN <<Undefined, f>> ELSE obj[f]
            /\ obj[f] = <<obj[f][1], f>> /\ obj[f][1] \in {Undefined, False, True}
        BY <2>1, <2>3, <2>4, <3>2
      <4>3. Undefined # True /\ False # True /\ Undefined # False
        BY DEF Undefined, False, True
      <4> QED BY <4>1, <4>2, <4>3
    <3> QED BY <3>1, <3>2
  <2>7. Rebuilt(class, read) = [f \in TrackFields |-> Rebuilt(class, read)[f]]
    BY <2>3
  <2>8. Returned(obj) = [f \in TrackFields |-> Returned(obj)[f]]
    BY <2>4
  <2>9. Rebuilt(class, read) = Returned(obj)
    BY <2>6, <2>7, <2>8
  <2> QED BY <2>9 DEF read
<1>8. CASE class = "OpDetWaveform"
  <2>1. Rebuilt(class, read) = Exchanged(obj)
    BY <1>2, <1>8 DEF Rebuilt
  <2>2. Returned(obj) =
          [[obj EXCEPT ![ChannelNumber] = <<obj[TimeStamp][1] \div 10, ChannelNumber>>]
             EXCEPT ![TimeStamp] = <<10 * obj[ChannelNumber][1], TimeStamp>>]
    BY <1>8 DEF Returned, With, Num, ChannelNumber, TimeStamp
  <2>3. ChannelNumber # TimeStamp
    BY DEF ChannelNumber, TimeStamp
  <2>4. Exchanged(obj) =
          [[obj EXCEPT ![TimeStamp] = <<10 * obj[ChannelNumber][1], TimeStamp>>]
             EXCEPT ![ChannelNumber] = <<obj[TimeStamp][1] \div 10, ChannelNumber>>]
    BY DEF Exchanged
  <2>5. Exchanged(obj) = Returned(obj)
    BY <2>2, <2>3, <2>4
  <2> QED BY <2>1, <2>5
<1> QED BY <1>3, <1>4, <1>5, <1>6, <1>7, <1>8, ClassesAre

-------------------------------------------------------------------------------
(* The invariant *)

\* Where the objects in the archive end, as far as the archive has been read.
Boundaries(off) ==
  /\ off[0] = 0 /\ off[saved] = Len(archive)
  /\ \A i \in 1..saved :
       /\ off[i] = off[i - 1] + Len(SaveLayout(class, product[i]))
       /\ \A j \in DOMAIN SaveLayout(class, product[i]) :
            archive[off[i - 1] + j] = Written(class, product[i])[j]
  /\ off[Len(loaded)] = Len(readAs)

\* The product: objects of one class, at least one.
Objected ==
  /\ class \in Classes
  /\ Sequence(product) /\ Len(product) # 0
  /\ \A i \in 1..Len(product) : product[i] \in Objects(class)

\* The objects that save has been called on, and whether one was refused.
Saving ==
  /\ phase \in {"saving", "rejected", "stored"}
  /\ saved \in 0..Len(product)
  /\ phase = "stored" => saved = Len(product)
  /\ phase = "rejected" => \E i \in 1..Len(product) : Rejected(class, product[i])
  /\ \A i \in 1..saved : ~ Rejected(class, product[i])

\* What load has read of the archive, and what it has made of it.
Loading ==
  /\ Sequence(loaded) /\ Len(loaded) <= Len(product)
  /\ Sequence(readAs) /\ Sequence(archive)
  /\ phase # "stored" => loaded = <<>> /\ readAs = <<>>
  /\ \A i \in DOMAIN readAs : i \in DOMAIN archive /\ readAs[i] = archive[i].type
  /\ \A i \in DOMAIN loaded : loaded[i] = Returned(product[i])

\* The inductive invariant.
IInv ==
  /\ Objected /\ Saving /\ Loading
  /\ phase # "rejected" => \E off \in [0..saved -> 0..Len(archive)] : Boundaries(off)

-------------------------------------------------------------------------------
(* The steps *)

\* What is written of an object has the length of its layout.
LEMMA WrittenIs ==
  ASSUME NEW c \in Classes, NEW obj \in Objects(c)
  PROVE  /\ Sequence(SaveLayout(c, obj)) /\ Sequence(Written(c, obj))
         /\ Len(Written(c, obj)) = Len(SaveLayout(c, obj))
         /\ DOMAIN Written(c, obj) = DOMAIN SaveLayout(c, obj)
<1>1. Sequence(SaveLayout(c, obj))
  BY Layouts DEF Has
<1>2. DOMAIN SaveLayout(c, obj) = 1..Len(SaveLayout(c, obj)) /\ Len(SaveLayout(c, obj)) \in Nat
  BY <1>1, SequenceIs
<1>3. Written(c, obj) = [i \in 1..Len(SaveLayout(c, obj)) |-> Written(c, obj)[i]]
  BY <1>2 DEF Written
<1>4. Sequence(Written(c, obj)) /\ Len(Written(c, obj)) = Len(SaveLayout(c, obj))
  BY <1>2, <1>3, IsSequence
<1> QED BY <1>1, <1>2, <1>4, SequenceIs

\* The rest of a sequence.
LEMMA RestIs ==
  ASSUME NEW s, Sequence(s), NEW n \in 0..Len(s)
  PROVE  /\ DOMAIN SubSeq(s, n + 1, Len(s)) = 1..(Len(s) - n)
         /\ \A j \in 1..(Len(s) - n) : SubSeq(s, n + 1, Len(s))[j] = s[n + j]
<1> DEFINE S == {s[i] : i \in DOMAIN s}
<1>1. Len(s) \in Nat /\ \A i \in (n + 1)..Len(s) : s[i] \in S
  BY SequenceIs
<1> HIDE DEF S
<1>2. n + 1 \in Int /\ Len(s) \in Int /\ Len(s) - (n + 1) + 1 = Len(s) - n
  BY <1>1
<1>3. /\ SubSeq(s, n + 1, Len(s)) \in Seq(S)
      /\ Len(SubSeq(s, n + 1, Len(s))) = IF n + 1 <= Len(s) THEN Len(s) - (n + 1) + 1 ELSE 0
      /\ \A i \in 1..(Len(s) - (n + 1) + 1) : SubSeq(s, n + 1, Len(s))[i] = s[n + 1 + i - 1]
  BY <1>1, <1>2, SubSeqProperties
<1>4. Len(SubSeq(s, n + 1, Len(s))) = Len(s) - n
  BY <1>1, <1>3
<1>5. DOMAIN SubSeq(s, n + 1, Len(s)) = 1..(Len(s) - n)
  BY <1>3, <1>4
<1>6. \A j \in 1..(Len(s) - n) : n + 1 + j - 1 = n + j
  BY <1>1
<1> QED BY <1>2, <1>3, <1>5, <1>6

\* One element more.
LEMMA Appended ==
  ASSUME NEW s, Sequence(s), NEW x
  PROVE  /\ Sequence(Append(s, x)) /\ Len(Append(s, x)) = Len(s) + 1
         /\ \A i \in 1..Len(s) : Append(s, x)[i] = s[i]
         /\ Append(s, x)[Len(s) + 1] = x
<1> DEFINE S == {s[i] : i \in DOMAIN s} \cup {x}
<1>1. s \in Seq(S) /\ x \in S
  BY DEF Sequence
<1> HIDE DEF S
<1>2. /\ Append(s, x) \in Seq(S) /\ Len(Append(s, x)) = Len(s) + 1
      /\ \A i \in 1..Len(s) : Append(s, x)[i] = s[i]
      /\ Append(s, x)[Len(s) + 1] = x
  BY <1>1, AppendProperties
<1> QED BY <1>2, InSeq

\* No object is saved at first.
LEMMA Starts == Init => IInv
<1> SUFFICES ASSUME Init PROVE IInv
  OBVIOUS
<1>1. PICK n \in 1..MaxObjects : product \in [1..n -> Objects(class)]
  BY DEF Init
<1>2. n \in Nat /\ n # 0 /\ product = [i \in 1..n |-> product[i]]
  BY <1>1, BoundsAssumption
<1>3. Sequence(product) /\ Len(product) = n
  BY <1>2, IsSequence
<1>4. Objected
  BY <1>1, <1>2, <1>3 DEF Init, Objected
<1>5. Saving
  BY <1>2, <1>3 DEF Init, Saving
<1>6. Sequence(<<>>) /\ Len(<<>>) = 0 /\ DOMAIN <<>> = {}
  BY DEF Sequence
<1>7. Loading
  BY <1>2, <1>3, <1>6 DEF Init, Loading
<1>8. Boundaries([i \in 0..0 |-> 0]) /\ [i \in 0..0 |-> 0] \in [0..0 -> 0..0]
  BY <1>6 DEF Init, Boundaries
<1>9. \E off \in [0..saved -> 0..Len(archive)] : Boundaries(off)
  BY <1>6, <1>8 DEF Init
<1> QED BY <1>4, <1>5, <1>7, <1>9 DEF IInv

\* An object written ends where the archive then ends.
LEMMA SaveStep ==
  ASSUME IInv, SaveObject
  PROVE  IInv'
<1> DEFINE k == saved + 1
           obj == product[k]
           layout == SaveLayout(class, obj)
           w == Written(class, obj)
<1>1. /\ phase = "saving" /\ saved < Len(product) /\ UNCHANGED <<class, product, loaded, readAs>>
      /\ Objected /\ Saving /\ Loading
  BY DEF SaveObject, IInv
<1>2. saved \in Nat /\ k \in 1..Len(product) /\ Len(product) \in Nat
  BY <1>1, SequenceIs DEF Objected, Saving
<1>3. class \in Classes /\ obj \in Objects(class)
  BY <1>1, <1>2 DEF Objected
<1>4. Objected'
  BY <1>1 DEF Objected
<1>5. loaded = <<>> /\ readAs = <<>> /\ Len(loaded) = 0 /\ Len(readAs) = 0
  BY <1>1 DEF Loading
<1>6. CASE Rejected(class, obj)
  <2>1. phase' = "rejected" /\ archive' = <<>> /\ saved' = saved
    BY <1>6 DEF SaveObject
  <2>2. Saving'
    BY <1>1, <1>2, <1>6, <2>1 DEF Saving
  <2>3. Sequence(<<>>) /\ DOMAIN <<>> = {}
    BY DEF Sequence
  <2>4. Loading'
    BY <1>1, <1>5, <2>1, <2>3 DEF Loading
  <2> QED BY <1>4, <2>1, <2>2, <2>4 DEF IInv
<1>7. CASE ~ Rejected(class, obj)
  <2>1. archive' = archive \o w /\ saved' = saved + 1 /\ phase' = phase
    BY <1>7 DEF SaveObject
  <2>2. /\ Sequence(w) /\ Len(w) = Len(layout) /\ Sequence(layout)
        /\ DOMAIN w = DOMAIN layout /\ DOMAIN layout = 1..Len(layout) /\ Len(layout) \in Nat
    BY <1>3, WrittenIs, SequenceIs
  <2>3. Sequence(archive) /\ Len(archive) \in Nat
    BY <1>1, SequenceIs DEF Loading
  <2> HIDE DEF obj, layout, w, k
  <2>4. /\ Sequence(archive') /\ Len(archive') = Len(archive) + Len(layout)
        /\ \A i \in 1..Len(archive) : archive'[i] = archive[i]
        /\ \A i \in 1..Len(layout) : archive'[Len(archive) + i] = w[i]
    <3>1. /\ Sequence(archive \o w) /\ Len(archive \o w) = Len(archive) + Len(w)
          /\ \A i \in 1..Len(archive) : (archive \o w)[i] = archive[i]
          /\ \A i \in 1..Len(w) : (archive \o w)[Len(archive) + i] = w[i]
      BY <2>2, <2>3, Joined
    <3> QED BY <2>1, <2>2, <3>1
  <2>5. k = saved + 1
    BY DEF k
  <2>6. Saving'
    <3>1. \A i \in 1..saved' : i \in 1..saved \/ i = k
      BY <1>2, <2>1, <2>5
    <3>2. \A i \in 1..saved' : ~ Rejected(class, product[i])
      BY <1>1, <1>7, <3>1 DEF Saving, obj
    <3>3. saved' \in 0..Len(product)
      BY <1>1, <1>2, <2>1
    <3> QED BY <1>1, <2>1, <3>2, <3>3 DEF Saving
  <2>7. Loading'
    BY <1>1, <1>5, <2>1, <2>4 DEF Loading
  <2>8. PICK off \in [0..saved -> 0..Len(archive)] : Boundaries(off)
    BY <1>1 DEF IInv
  <2>9. PICK new \in [0..saved' -> 0..Len(archive')] :
          new = [i \in 0..k |-> IF i = k THEN Len(archive') ELSE off[i]]
    <3>1. 0..Len(archive) \subseteq 0..Len(archive') /\ Len(archive') \in 0..Len(archive')
      BY <2>2, <2>3, <2>4
    <3>2. \A i \in 0..k : i # k => off[i] \in 0..Len(archive)
      BY <1>2, <2>5
    <3>3. [i \in 0..k |-> IF i = k THEN Len(archive') ELSE off[i]]
            \in [0..k -> 0..Len(archive')]
      BY <3>1, <3>2
    <3> QED BY <2>1, <2>5, <3>3
  <2>10. new[0] = 0 /\ new[saved'] = Len(archive')
    BY <1>2, <2>1, <2>5, <2>8, <2>9 DEF Boundaries
  <2>11. ASSUME NEW i \in 1..saved'
         PROVE  /\ new[i] = new[i - 1] + Len(SaveLayout(class, product[i]))
                /\ \A j \in DOMAIN SaveLayout(class, product[i]) :
                     archive'[new[i - 1] + j] = Written(class, product[i])[j]
    <3>1. CASE i = k
      <4>1. new[i] = Len(archive') /\ new[i - 1] = Len(archive)
        BY <1>2, <2>5, <2>8, <2>9, <3>1 DEF Boundaries
      <4>2. SaveLayout(class, product[i]) = layout /\ Written(class, product[i]) = w
        BY <3>1 DEF layout, w, obj
      <4> QED BY <2>2, <2>4, <4>1, <4>2
    <3>2. CASE i # k
      <4>1. i \in 1..saved /\ i - 1 \in 0..saved /\ i \in 0..saved
        BY <1>2, <2>1, <2>5, <3>2
      <4>2. new[i] = off[i] /\ new[i - 1] = off[i - 1]
        BY <1>2, <2>5, <2>9, <4>1
      <4>3. i \in 1..Len(product) /\ product[i] \in Objects(class)
        BY <1>1, <1>2, <4>1 DEF Objected
      <4> DEFINE L == SaveLayout(class, product[i])
      <4>4. DOMAIN L = 1..Len(L) /\ Len(L) \in Nat
        BY <1>3, <4>3, WrittenIs, SequenceIs
      <4>5. /\ off[i] = off[i - 1] + Len(L)
            /\ \A j \in DOMAIN L : archive[off[i - 1] + j] = Written(class, product[i])[j]
        BY <2>8, <4>1 DEF Boundaries
      <4> HIDE DEF L
      <4>6. off[i] \in 0..Len(archive) /\ off[i - 1] \in 0..Len(archive)
        BY <4>1
      <4>7. \A j \in DOMAIN L : off[i - 1] + j \in 1..Len(archive)
        BY <2>3, <4>4, <4>5, <4>6
      <4>8. \A j \in DOMAIN L : archive'[off[i - 1] + j] = Written(class, product[i])[j]
        BY <2>4, <4>5, <4>7
      <4> QED BY <4>2, <4>5, <4>8 DEF L
    <3> QED BY <3>1, <3>2
  <2>12. Boundaries(new)'
    <3>1. new[Len(loaded')] = Len(readAs')
      BY <1>1, <1>5, <2>10
    <3> QED BY <1>1, <2>10, <2>11, <3>1 DEF Boundaries
  <2>13. \E o \in [0..saved' -> 0..Len(archive')] : Boundaries(o)'
    BY <2>9, <2>12
  <2> QED BY <1>4, <2>6, <2>7, <2>13 DEF IInv
<1> QED BY <1>6, <1>7

\* The archive is complete when it is stored.
LEMMA StoreStep ==
  ASSUME IInv, StoreArchive
  PROVE  IInv'
<1>1. /\ phase = "saving" /\ saved = Len(product) /\ phase' = "stored"
      /\ UNCHANGED <<class, product, saved, archive, loaded, readAs>>
  BY DEF StoreArchive
<1>2. Objected' /\ Saving' /\ Loading'
  BY <1>1 DEF IInv, Objected, Saving, Loading, Returned
<1>3. PICK off \in [0..saved -> 0..Len(archive)] : Boundaries(off)
  BY <1>1 DEF IInv
<1>4. Boundaries(off)'
  BY <1>1, <1>3 DEF Boundaries
<1>5. \E o \in [0..saved' -> 0..Len(archive')] : Boundaries(o)'
  BY <1>1, <1>4
<1> QED BY <1>2, <1>5 DEF IInv

\* load takes the next object off the archive as save has written it.
LEMMA LoadStep ==
  ASSUME IInv, LoadObject
  PROVE  IInv'
<1> DEFINE k == Len(loaded) + 1
           obj == product[k]
           layout == SaveLayout(class, obj)
           w == Written(class, obj)
           n == Len(readAs)
           rest == SubSeq(archive, n + 1, Len(archive))
           types == [j \in DOMAIN layout |-> layout[j].type]
<1>1. /\ phase = "stored" /\ Len(loaded) < Len(product)
      /\ UNCHANGED <<class, product, saved, archive, phase>>
      /\ Objected /\ Saving /\ Loading /\ saved = Len(product)
  BY DEF LoadObject, IInv, Saving
<1>2. /\ Sequence(loaded) /\ Sequence(readAs) /\ Sequence(archive)
      /\ Len(loaded) \in Nat /\ n \in Nat /\ Len(archive) \in Nat /\ Len(product) \in Nat
      /\ k \in 1..Len(product) /\ k - 1 = Len(loaded)
  BY <1>1, SequenceIs DEF Loading, Objected
<1>3. class \in Classes /\ obj \in Objects(class) /\ ~ Rejected(class, obj)
  BY <1>1, <1>2 DEF Objected, Saving
<1>4. PICK off \in [0..saved -> 0..Len(archive)] : Boundaries(off)
  BY <1>1 DEF IInv
<1>5. /\ Sequence(layout) /\ DOMAIN layout = 1..Len(layout) /\ Len(layout) \in Nat
      /\ DOMAIN w = DOMAIN layout
  BY <1>3, WrittenIs, SequenceIs
<1>6. /\ off[k] = n + Len(layout) /\ off[k] \in 0..Len(archive)
      /\ \A j \in DOMAIN layout : archive[n + j] = w[j]
  <2>1. off[Len(loaded)] = n /\ k \in 1..saved
    BY <1>1, <1>2, <1>4 DEF Boundaries
  <2>2. /\ off[k] = off[k - 1] + Len(layout)
        /\ \A j \in DOMAIN layout : archive[off[k - 1] + j] = w[j]
    BY <2>1, <1>4 DEF Boundaries
  <2>3. off[k] \in 0..Len(archive)
    BY <2>1, <1>1, <1>2
  <2> QED BY <1>2, <2>1, <2>2, <2>3
<1>7. /\ DOMAIN rest = 1..(Len(archive) - n)
      /\ \A j \in 1..(Len(archive) - n) : rest[j] = archive[n + j]
  <2>1. n \in 0..Len(archive)
    BY <1>2, <1>5, <1>6
  <2> QED BY <1>2, <2>1, RestIs
<1>8. \A j \in DOMAIN layout : j \in DOMAIN rest /\ rest[j] = w[j]
  <2> HIDE DEF layout, w, rest, n
  <2>1. \A j \in DOMAIN layout : j \in 1..(Len(archive) - n)
    BY <1>2, <1>5, <1>6
  <2> QED BY <1>6, <1>7, <2>1
<1>9. LoadLayout(class, rest) = layout
  BY <1>3, <1>8, LayoutRead
<1>10. ReadFields(layout, rest) = [f \in Stored(class, obj) |-> TestFlag(f, obj[f])]
  <2>1. FieldsOf(layout) = Stored(class, obj)
    BY <1>3, Layouts DEF Has
  <2>2. \A j \in DOMAIN layout :
          w[j] = [type |-> layout[j].type,
                  value |-> TestFlag(layout[j].field, obj[layout[j].field])]
    BY DEF Written
  <2> HIDE DEF layout, w, rest, obj
  <2>3. \A j \in DOMAIN layout :
          /\ j \in DOMAIN rest
          /\ rest[j] = [type |-> layout[j].type,
                        value |-> TestFlag(layout[j].field, obj[layout[j].field])]
    BY <1>8, <2>2
  <2>4. ReadFields(layout, rest) = [f \in FieldsOf(layout) |-> TestFlag(f, obj[f])]
    BY <2>3, FieldsRead
  <2> QED BY <2>1, <2>4
<1>11. /\ loaded' = Append(loaded, Rebuilt(class, ReadFields(layout, rest)))
       /\ readAs' = readAs \o types
  BY <1>9 DEF LoadObject
<1>12. Rebuilt(class, ReadFields(layout, rest)) = Returned(obj)
  BY <1>3, <1>10, RoundTrip
<1>13. /\ Sequence(types) /\ Len(types) = Len(layout)
       /\ \A j \in 1..Len(layout) : types[j] = w[j].type
  <2>1. types = [j \in 1..Len(layout) |-> types[j]]
    BY <1>5
  <2>2. \A j \in DOMAIN layout : w[j].type = layout[j].type
    BY DEF Written
  <2>3. Sequence(types) /\ Len(types) = Len(layout)
    BY <1>5, <2>1, IsSequence
  <2> HIDE DEF layout, w
  <2> QED BY <1>5, <2>2, <2>3
<1> DEFINE new == Rebuilt(class, ReadFields(layout, rest))
<1> HIDE DEF new, types, layout, w, rest, obj
<1>14. /\ Sequence(loaded') /\ Len(loaded') = k
       /\ \A i \in 1..Len(loaded) : loaded'[i] = loaded[i]
       /\ loaded'[k] = new
  BY <1>2, <1>11, Appended DEF new
<1>15. /\ Sequence(readAs') /\ Len(readAs') = n + Len(layout)
       /\ \A i \in 1..n : readAs'[i] = readAs[i]
       /\ \A j \in 1..Len(layout) : readAs'[n + j] = w[j].type
  <2>1. Sequence(readAs) /\ Sequence(types)
    BY <1>2, <1>13
  <2>2. /\ Sequence(readAs \o types) /\ Len(readAs \o types) = Len(readAs) + Len(types)
        /\ \A i \in 1..Len(readAs) : (readAs \o types)[i] = readAs[i]
        /\ \A i \in 1..Len(types) : (readAs \o types)[Len(readAs) + i] = types[i]
    BY <2>1, Joined
  <2>3. Sequence(readAs') /\ Len(readAs') = n + Len(layout)
    BY <1>11, <1>13, <2>2
  <2>4. \A i \in 1..n : readAs'[i] = readAs[i]
    BY <1>11, <2>2
  <2>5. \A j \in 1..Len(layout) : readAs'[n + j] = types[j]
    BY <1>11, <1>13, <2>2
  <2> QED BY <1>13, <2>3, <2>4, <2>5
<1>16. \A i \in DOMAIN readAs' : i \in DOMAIN archive' /\ readAs'[i] = archive'[i].type
  <2> SUFFICES ASSUME NEW i \in DOMAIN readAs'
               PROVE  i \in DOMAIN archive /\ readAs'[i] = archive[i].type
    BY <1>1
  <2>1. i \in 1..(n + Len(layout)) /\ DOMAIN archive = 1..Len(archive) /\ DOMAIN readAs = 1..n
    BY <1>2, <1>15, SequenceIs
  <2>2. CASE i \in 1..n
    BY <1>1, <1>15, <2>1, <2>2 DEF Loading
  <2>3. CASE i \notin 1..n
    <3>1. i - n \in 1..Len(layout) /\ n + (i - n) = i /\ i \in 1..Len(archive)
      BY <1>2, <1>5, <1>6, <2>1, <2>3
    <3>2. readAs'[n + (i - n)] = w[i - n].type /\ archive[n + (i - n)] = w[i - n]
      BY <1>5, <1>6, <1>15, <3>1
    <3> QED BY <2>1, <3>1, <3>2
  <2> QED BY <2>2, <2>3
<1>17. \A i \in DOMAIN loaded' : loaded'[i] = Returned(product[i])
  <2> SUFFICES ASSUME NEW i \in DOMAIN loaded' PROVE loaded'[i] = Returned(product[i])
    OBVIOUS
  <2>1. i \in 1..k /\ DOMAIN loaded = 1..Len(loaded)
    BY <1>2, <1>14, SequenceIs
  <2>2. CASE i = k
    BY <1>12, <1>14, <2>2 DEF new, obj
  <2>3. CASE i # k
    <3>1. i \in 1..Len(loaded)
      BY <1>2, <2>1, <2>3
    <3> QED BY <1>1, <1>14, <2>1, <3>1 DEF Loading
  <2> QED BY <2>2, <2>3
<1>18. Loading'
  <2>1. (\A i \in DOMAIN loaded : loaded[i] = Returned(product[i]))'
    BY <1>1, <1>17 DEF Returned
  <2>2. Len(loaded') <= Len(product')
    BY <1>1, <1>2, <1>14
  <2> QED BY <1>1, <1>2, <1>14, <1>15, <1>16, <2>1, <2>2 DEF Loading
<1>19. Objected' /\ Saving'
  BY <1>1 DEF Objected, Saving
<1>20. Boundaries(off)'
  <2>1. off[Len(loaded')] = Len(readAs')
    BY <1>6, <1>14, <1>15
  <2> QED BY <1>1, <1>4, <2>1 DEF Boundaries
<1>21. \E o \in [0..saved' -> 0..Len(archive')] : Boundaries(o)'
  BY <1>1, <1>20
<1> QED BY <1>18, <1>19, <1>21 DEF IInv

\* Every step keeps the invariant.
LEMMA Steps == IInv /\ [Next]_vars => IInv'
<1> SUFFICES ASSUME IInv, UNCHANGED vars PROVE IInv'
  BY SaveStep, StoreStep, LoadStep DEF Next, Terminated
<1>1. Objected' /\ Saving' /\ Loading'
  BY DEF vars, IInv, Objected, Saving, Loading, Returned
<1>2. ASSUME phase # "rejected"
      PROVE  \E o \in [0..saved' -> 0..Len(archive')] : Boundaries(o)'
  <2>1. PICK off \in [0..saved -> 0..Len(archive)] : Boundaries(off)
    BY <1>2 DEF IInv
  <2>2. Boundaries(off)'
    BY <2>1 DEF vars, Boundaries
  <2> QED BY <2>2 DEF vars
<1> QED BY <1>1, <1>2 DEF vars, IInv

-------------------------------------------------------------------------------
(* Theorems *)

\* The invariant of storing and loading a product.
THEOREM Serializes == Spec => []IInv
BY Starts, Steps, PTL DEF Spec

\* A product of any class and any length comes back as the objects that were
\* stored; of the four classes whose objects do not come back as they were,
\* nothing changes but what Returned says.
THEOREM ProductsComeBack == Spec => []ComesBack
<1>1. IInv => ComesBack
  BY DEF IInv, Loading, ComesBack
<1> QED BY <1>1, Serializes, PTL

\* load stays in step with save through any number of objects.
THEOREM LoadFollowsSave == Spec => []ReadInStep
<1>1. IInv => ReadInStep
  <2> SUFFICES ASSUME IInv PROVE ReadInStep
    OBVIOUS
  <2>1. \A i \in DOMAIN readAs : readAs[i] = archive[i].type
    BY DEF IInv, Loading
  <2>2. ASSUME Len(loaded) = Len(product) PROVE Len(readAs) = Len(archive)
    <3>1. phase = "stored" /\ saved = Len(product)
      <4>1. Len(product) # 0 /\ Len(<<>>) = 0
        BY DEF IInv, Objected
      <4>2. phase = "stored"
        BY <2>2, <4>1 DEF IInv, Loading
      <4> QED BY <4>2 DEF IInv, Saving
    <3>2. PICK off \in [0..saved -> 0..Len(archive)] : Boundaries(off)
      BY <3>1 DEF IInv
    <3>3. off[saved] = Len(archive) /\ off[Len(loaded)] = Len(readAs)
      BY <3>2, Zenon DEF Boundaries
    <3> QED BY <2>2, <3>1, <3>3
  <2> QED BY <2>1, <2>2 DEF ReadInStep
<1> QED BY <1>1, Serializes, PTL
===============================================================================
