----------------------------- MODULE ProductLayouts -----------------------------
(***************************************************************************)
(* The data products that are stored in HEPnOS, one group of definitions   *)
(* per class: the fields operator== compares (XFields), what save writes   *)
(* to the archive (XSave) and what load reads from it (XLoad), in order.   *)
(* A layout is a sequence of items: the C++ type the archive is given, and *)
(* the accessor the value comes from or, by the name of the variable that  *)
(* carries it, ends in.  Field <<name, 0>> is a scalar or the size of a    *)
(* vector, <<name, i>> its i-th element; a vector or array that Boost      *)
(* writes as a whole is one item.                                          *)
(***************************************************************************)
EXTENDS Naturals, Sequences

CONSTANT
  NFlags    \* flags of a trajectory point, 32 in lardataobj

ASSUME NFlagsAssumption == NFlags \in Nat \ {0}

Items(type, names) == [i \in DOMAIN names |-> [type |-> type, field |-> <<names[i], 0>>]]
Elements(type, name, n) == [i \in 1..n |-> [type |-> type, field |-> <<name, i>>]]

Scalars(names) == {<<n, 0>> : n \in names}
Indexed(name, n) == {<<name, i>> : i \in 1..n}

-------------------------------------------------------------------------------
EdgeFields == Scalars({"Length", "FirstPointID", "SecondPointID", "ID"})

EdgeSave ==
  Items("double", <<"Length">>) \o Items("int", <<"FirstPointID", "SecondPointID">>)
    \o Items("unsigned int", <<"ID">>)

EdgeLoad ==
  Items("double", <<"Length">>) \o Items("int", <<"FirstPointID", "SecondPointID">>)
    \o Items("unsigned int", <<"ID">>)

-------------------------------------------------------------------------------
\* EID has no operator==; it is its three numbers.
EIDFields == Scalars({"run", "subrun", "event"})

EIDSave ==
  Items("RunNumber", <<"run">>) \o Items("SubRunNumber", <<"subrun">>)
    \o Items("EventNumber", <<"event">>)

EIDLoad ==
  Items("RunNumber", <<"run">>) \o Items("SubRunNumber", <<"subrun">>)
    \o Items("EventNumber", <<"event">>)

-------------------------------------------------------------------------------
ClusterFields ==
  Scalars({"NHits", "StartWire", "EndWire", "SigmaStartWire", "SigmaEndWire",
    "StartTick", "EndTick", "SigmaStartTick", "SigmaEndTick", "StartCharge",
    "EndCharge", "StartAngle", "EndAngle", "StartOpeningAngle", "EndOpeningAngle",
    "Integral", "SummedADC", "IntegralStdDev", "SummedADCstdDev",
    "MultipleHitDensity", "Width", "ID", "View", "Plane", "TPC", "Cryostat"})

ClusterSave ==
  Items("unsigned int", <<"NHits">>)
    \o Items("float", <<"StartWire", "EndWire", "SigmaStartWire", "SigmaEndWire",
         "StartTick", "EndTick", "SigmaStartTick", "SigmaEndTick", "StartCharge",
         "EndCharge", "StartAngle", "EndAngle", "StartOpeningAngle",
         "EndOpeningAngle", "Integral", "SummedADC", "IntegralStdDev",
         "SummedADCstdDev", "MultipleHitDensity", "Width">>)
    \o Items("int", <<"ID">>) \o Items("View_t", <<"View">>)
    \o Items("unsigned int", <<"Plane", "TPC", "Cryostat">>)

ClusterLoad ==
  Items("unsigned int", <<"NHits">>)
    \o Items("float", <<"StartWire", "EndWire", "SigmaStartWire", "SigmaEndWire",
         "StartTick", "EndTick", "SigmaStartTick", "SigmaEndTick", "StartCharge",
         "EndCharge", "StartAngle", "EndAngle", "StartOpeningAngle",
         "EndOpeningAngle", "Integral", "SummedADC", "IntegralStdDev",
         "SummedADCstdDev", "MultipleHitDensity", "Width">>)
    \o Items("int", <<"ID">>) \o Items("View_t", <<"View">>)
    \o Items("unsigned int", <<"Plane", "TPC", "Cryostat">>)

-------------------------------------------------------------------------------
WireIDSave == Items("unsigned int", <<"WireID.Wire", "WireID.Plane", "WireID.TPC",
                                     "WireID.Cryostat">>)

WireIDLoad == Items("unsigned int", <<"WireID.Wire", "WireID.Plane", "WireID.TPC",
                                     "WireID.Cryostat">>)

HitFields ==
  Scalars({"Channel", "View", "StartTick", "EndTick", "PeakTime", "SigmaPeakTime",
    "RMS", "PeakAmplitude", "SigmaPeakAmplitude", "SummedADC", "Integral",
    "SigmaIntegral", "Multiplicity", "LocalIndex", "GoodnessOfFit",
    "DegreesOfFreedom", "SignalType", "WireID.Wire", "WireID.Plane", "WireID.TPC",
    "WireID.Cryostat"})

HitSave ==
  Items("ChannelID_t", <<"Channel">>) \o Items("TDCtick_t", <<"StartTick", "EndTick">>)
    \o Items("float", <<"PeakTime", "SigmaPeakTime", "RMS", "PeakAmplitude",
         "SigmaPeakAmplitude", "SummedADC", "Integral", "SigmaIntegral">>)
    \o Items("short", <<"Multiplicity">>) \o WireIDSave
    \o Items("View_t", <<"View">>) \o Items("SigType_t", <<"SignalType">>)
    \o Items("int", <<"DegreesOfFreedom">>) \o Items("float", <<"GoodnessOfFit">>)
    \o Items("short", <<"LocalIndex">>)

\* Mutant: the two fit results are read in the order of the constructor.
HitLoadMut ==
  Items("ChannelID_t", <<"Channel">>) \o Items("TDCtick_t", <<"StartTick", "EndTick">>)
    \o Items("float", <<"PeakTime", "SigmaPeakTime", "RMS", "PeakAmplitude",
         "SigmaPeakAmplitude", "SummedADC", "Integral", "SigmaIntegral">>)
    \o Items("short", <<"Multiplicity">>) \o WireIDLoad
    \o Items("View_t", <<"View">>) \o Items("SigType_t", <<"SignalType">>)
    \o Items("float", <<"GoodnessOfFit">>) \o Items("int", <<"DegreesOfFreedom">>)
    \o Items("short", <<"LocalIndex">>)

HitLoad ==
  Items("ChannelID_t", <<"Channel">>) \o Items("TDCtick_t", <<"StartTick", "EndTick">>)
    \o Items("float", <<"PeakTime", "SigmaPeakTime", "RMS", "PeakAmplitude",
         "SigmaPeakAmplitude", "SummedADC", "Integral", "SigmaIntegral">>)
    \o Items("short", <<"Multiplicity">>) \o WireIDLoad
    \o Items("View_t", <<"View">>) \o Items("SigType_t", <<"SignalType">>)
    \o Items("int", <<"DegreesOfFreedom">>) \o Items("float", <<"GoodnessOfFit">>)
    \o Items("short", <<"LocalIndex">>)

-------------------------------------------------------------------------------
OpDetWaveformFields == Scalars({"ChannelNumber", "TimeStamp", "size", "samples"})

OpDetWaveformSave ==
  Items("Channel_t", <<"ChannelNumber">>) \o Items("TimeStamp_t", <<"TimeStamp">>)
    \o Items("size_t", <<"size">>) \o Items("vector<ADC_Count_t>", <<"samples">>)

OpDetWaveformLoad ==
  Items("Channel_t", <<"ChannelNumber">>) \o Items("TimeStamp_t", <<"TimeStamp">>)
    \o Items("size_t", <<"size">>) \o Items("vector<ADC_Count_t>", <<"samples">>)

-------------------------------------------------------------------------------
OpFlashFields ==
  Scalars({"Time", "TimeWidth", "AbsTime", "Frame", "XCenter", "XWidth", "YCenter",
    "YWidth", "ZCenter", "ZWidth", "FastToTotal", "InBeamFrame", "OnBeamTime",
    "PEs", "WireCenters", "WireWidths"})

OpFlashSave ==
  Items("double", <<"Time", "TimeWidth", "AbsTime">>) \o Items("unsigned int", <<"Frame">>)
    \o Items("vector<double>", <<"PEs", "WireCenters", "WireWidths">>)
    \o Items("double", <<"XCenter", "XWidth", "YCenter", "YWidth", "ZCenter",
                         "ZWidth", "FastToTotal">>)
    \o Items("bool", <<"InBeamFrame">>) \o Items("int", <<"OnBeamTime">>)

OpFlashLoad ==
  Items("double", <<"Time", "TimeWidth", "AbsTime">>) \o Items("unsigned int", <<"Frame">>)
    \o Items("vector<double>", <<"PEs", "WireCenters", "WireWidths">>)
    \o Items("double", <<"XCenter", "XWidth", "YCenter", "YWidth", "ZCenter",
                         "ZWidth", "FastToTotal">>)
    \o Items("bool", <<"InBeamFrame">>) \o Items("int", <<"OnBeamTime">>)

-------------------------------------------------------------------------------
OpHitFields ==
  Scalars({"OpChannel", "Frame", "PeakTime", "PeakTimeAbs", "Width", "Area",
    "Amplitude", "PE", "FastToTotal"})

OpHitSave ==
  Items("int", <<"OpChannel">>) \o Items("unsigned short", <<"Frame">>)
    \o Items("double", <<"PeakTime", "PeakTimeAbs", "Width", "Area", "Amplitude",
                         "PE", "FastToTotal">>)

OpHitLoad ==
  Items("int", <<"OpChannel">>) \o Items("unsigned short", <<"Frame">>)
    \o Items("double", <<"PeakTime", "PeakTimeAbs", "Width", "Area", "Amplitude",
                         "PE", "FastToTotal">>)

-------------------------------------------------------------------------------
RawDigitFields ==
  Scalars({"Channel", "Samples", "Pedestal", "Sigma", "Compression", "ADCs"})

RawDigitSave ==
  Items("ChannelID_t", <<"Channel">>) \o Items("ULong64_t", <<"Samples">>)
    \o Items("float", <<"Pedestal", "Sigma">>) \o Items("Compress_t", <<"Compression">>)
    \o Items("ADCvector_t", <<"ADCs">>)

RawDigitLoad ==
  Items("ChannelID_t", <<"Channel">>) \o Items("ULong64_t", <<"Samples">>)
    \o Items("float", <<"Pedestal", "Sigma">>) \o Items("Compress_t", <<"Compression">>)
    \o Items("ADCvector_t", <<"ADCs">>)

-------------------------------------------------------------------------------
SeedFields == Scalars({"IsValid", "Point", "PointErr", "Direction", "DirectionErr"})

SeedSave ==
  Items("array<double,3>", <<"Point", "Direction", "PointErr", "DirectionErr">>)

SeedLoad ==
  Items("array<double,3>", <<"Point", "Direction", "PointErr", "DirectionErr">>)

-------------------------------------------------------------------------------
ShowerFields ==
  Scalars({"ID", "best_plane", "Length", "OpenAngle", "Energy", "EnergyErr", "dEdx",
    "dEdxErr", "Direction", "DirectionErr", "ShowerStart", "ShowerStartErr"})

ShowerSave ==
  Items("array<Scalar,3>", <<"Direction", "DirectionErr", "ShowerStart", "ShowerStartErr">>)
    \o Items("vector<double>", <<"Energy", "EnergyErr", "dEdx", "dEdxErr">>)
    \o Items("int", <<"ID", "best_plane">>) \o Items("double", <<"Length", "OpenAngle">>)

\* Mutant: the two numbers are taken in the order of the constructor.
ShowerLoadMut ==
  Items("array<Scalar,3>", <<"Direction", "DirectionErr", "ShowerStart", "ShowerStartErr">>)
    \o Items("vector<double>", <<"Energy", "EnergyErr", "dEdx", "dEdxErr">>)
    \o Items("int", <<"best_plane", "ID">>) \o Items("double", <<"Length", "OpenAngle">>)

ShowerLoad ==
  Items("array<Scalar,3>", <<"Direction", "DirectionErr", "ShowerStart", "ShowerStartErr">>)
    \o Items("vector<double>", <<"Energy", "EnergyErr", "dEdx", "dEdxErr">>)
    \o Items("int", <<"ID", "best_plane">>) \o Items("double", <<"Length", "OpenAngle">>)

-------------------------------------------------------------------------------
SliceFields ==
  Scalars({"ID", "AspectRatio", "Charge", "Center", "End0Pos", "End1Pos", "Direction"})

SliceSave ==
  Items("int", <<"ID">>)
    \o Items("array<Scalar,3>", <<"Center", "Direction", "End0Pos", "End1Pos">>)
    \o Items("float", <<"AspectRatio", "Charge">>)

SliceLoad ==
  Items("int", <<"ID">>)
    \o Items("array<Scalar,3>", <<"Center", "Direction", "End0Pos", "End1Pos">>)
    \o Items("float", <<"AspectRatio", "Charge">>)

-------------------------------------------------------------------------------
SpacePointFields ==
  Scalars({"ID", "Chisq"}) \cup Indexed("XYZ", 3) \cup Indexed("ErrXYZ", 6)

SpacePointSave ==
  Items("int", <<"ID">>) \o Elements("Double32_t", "XYZ", 3)
    \o Elements("Double32_t", "ErrXYZ", 6) \o Items("Double32_t", <<"Chisq">>)

SpacePointLoad ==
  Items("int", <<"ID">>) \o Elements("Double32_t", "XYZ", 3)
    \o Elements("Double32_t", "ErrXYZ", 6) \o Items("Double32_t", <<"Chisq">>)

-------------------------------------------------------------------------------
TrackHitMetaFields == Scalars({"Index", "Dx"})

TrackHitMetaSave == Items("unsigned int", <<"Index">>) \o Items("double", <<"Dx">>)

TrackHitMetaLoad == Items("unsigned int", <<"Index">>) \o Items("double", <<"Dx">>)

-------------------------------------------------------------------------------
VertexFields == Scalars({"ID", "status", "chi2", "ndof", "position", "covariance"})

\* "status is not serialized as the constructor does not require it!"
VertexSave ==
  Items("double", <<"chi2">>) \o Items("int", <<"ndof", "ID">>)
    \o Items("array<Scalar,3>", <<"position">>)
    \o Items("array<Double32_t,6>", <<"covariance">>)

VertexLoad ==
  Items("double", <<"chi2">>) \o Items("int", <<"ndof", "ID">>)
    \o Items("array<Scalar,3>", <<"position">>)
    \o Items("array<Double32_t,6>", <<"covariance">>)

-------------------------------------------------------------------------------
\* A trajectory of one point; its flags are saved as an array of bool.
TrackFields ==
  Scalars({"ParticleId", "Chi2", "Ndof", "ID", "HasMomentum", "NPoints",
    "VertexCovariance", "EndCovariance", "positions", "momenta", "hits"})
    \cup Indexed("flag", NFlags)

TrackSave ==
  Items("int", <<"ParticleId">>) \o Items("float", <<"Chi2">>)
    \o Items("int", <<"Ndof", "ID">>)
    \o Items("array<Double32_t,15>", <<"VertexCovariance", "EndCovariance">>)
    \o Items("vector<HitIndex_t>", <<"hits">>) \o Elements("bool", "flag", NFlags)
    \o Items("size_t", <<"NPoints">>) \o Items("vector<array<Scalar,3>>", <<"positions", "momenta">>)
    \o Items("bool", <<"HasMomentum">>)

TrackLoad ==
  Items("int", <<"ParticleId">>) \o Items("float", <<"Chi2">>)
    \o Items("int", <<"Ndof", "ID">>)
    \o Items("array<Double32_t,15>", <<"VertexCovariance", "EndCovariance">>)
    \o Items("vector<HitIndex_t>", <<"hits">>) \o Elements("bool", "flag", NFlags)
    \o Items("size_t", <<"NPoints">>) \o Items("vector<array<Scalar,3>>", <<"positions", "momenta">>)
    \o Items("bool", <<"HasMomentum">>)

-------------------------------------------------------------------------------
(* Classes with vectors that are written element by element: the layout of *)
(* save depends on their sizes, that of load on the sizes it reads.        *)

PFParticleFields(n) ==
  Scalars({"PdgCode", "Self", "Parent", "Daughters"}) \cup Indexed("Daughters", n)

PFParticleSave(daughters) ==
  Items("int", <<"PdgCode">>) \o Items("size_t", <<"Self", "Parent", "Daughters">>)
    \o Elements("size_t", "Daughters", daughters)

PFParticleLoad(sz) ==
  Items("int", <<"PdgCode">>) \o Items("size_t", <<"Self", "Parent", "Daughters">>)
    \o Elements("size_t", "Daughters", sz)

-------------------------------------------------------------------------------
FragmentFields(s) == Scalars({"size", "capacity"}) \cup Indexed("data", s)

FragmentSave(s) ==
  Items("unsigned int", <<"size", "capacity">>) \o Elements("unsigned long long", "data", s)

FragmentLoad(s) ==
  Items("unsigned int", <<"size", "capacity">>) \o Elements("unsigned long long", "data", s)

-------------------------------------------------------------------------------
\* Boost writes the number of vectors, then each vector.
PCAxisFields(n) ==
  Scalars({"SvdOK", "NumHitsUsed", "AveHitDoca", "ID", "AvePosition", "EigenValues",
    "EigenVectors"}) \cup Indexed("EigenVectors", n)

PCAxisSave(n) ==
  Items("bool", <<"SvdOK">>) \o Items("int", <<"NumHitsUsed">>)
    \o Items("array<double,3>", <<"AvePosition">>) \o Items("double", <<"AveHitDoca">>)
    \o Items("size_t", <<"ID">>) \o Items("array<double,3>", <<"EigenValues">>)
    \o Items("size_t", <<"EigenVectors">>)
    \o Elements("vector<double>", "EigenVectors", n)

PCAxisLoad(n) ==
  Items("bool", <<"SvdOK">>) \o Items("int", <<"NumHitsUsed">>)
    \o Items("array<double,3>", <<"AvePosition">>) \o Items("double", <<"AveHitDoca">>)
    \o Items("size_t", <<"ID">>) \o Items("array<double,3>", <<"EigenValues">>)
    \o Items("size_t", <<"EigenVectors">>)
    \o Elements("vector<double>", "EigenVectors", n)

-------------------------------------------------------------------------------
\* The regions of interest: the nominal size, the number of ranges, and of each
\* range its offset and its data.
WireFields(n) ==
  Scalars({"Channel", "View", "SignalROI.size", "ranges"})
    \cup Indexed("begin_index", n) \cup Indexed("data", n)

RangesSave(n) ==
  [j \in 1..(2 * n) |->
     IF j % 2 = 1 THEN [type |-> "size_t", field |-> <<"begin_index", (j + 1) \div 2>>]
                  ELSE [type |-> "vector<float>", field |-> <<"data", j \div 2>>]]

RangesLoad(n) ==
  [j \in 1..(2 * n) |->
     IF j % 2 = 1 THEN [type |-> "size_t", field |-> <<"begin_index", (j + 1) \div 2>>]
                  ELSE [type |-> "vector<float>", field |-> <<"data", j \div 2>>]]

WireSave(n) ==
  Items("ChannelID_t", <<"Channel">>) \o Items("View_t", <<"View">>)
    \o Items("size_t", <<"SignalROI.size", "ranges">>) \o RangesSave(n)

WireLoad(n) ==
  Items("ChannelID_t", <<"Channel">>) \o Items("View_t", <<"View">>)
    \o Items("size_t", <<"SignalROI.size", "ranges">>) \o RangesLoad(n)
===============================================================================
