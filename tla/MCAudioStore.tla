---------------------------- MODULE MCAudioStore ----------------------------
(***************************************************************************)
(* Model-checking instances of AudioStore: the folders the job may find.   *)
(***************************************************************************)
EXTENDS AudioStore

Holding(own, odd, other, bad) ==
    [f \in Files |-> CASE f \in own -> "own" [] f \in odd -> "odd"
                       [] f \in other -> "other" [] f \in bad -> "bad"
                       [] OTHER -> "none"]

WavRow(roles) == [r \in Roles |-> IF r \in roles THEN Wav(r) ELSE NoPath]
Wavs(roles) == {Wav(r) : r \in roles}

\* Both channels, and the two mixes capture writes of them.
TwoChannel == [row |-> WavRow(Roles), disk |-> Holding(Wavs(Roles), {}, {}, {}),
               regen |-> Derived]

\* A microphone-only capture plays the microphone's file.
MicOnly == [row |-> [WavRow({"mic", "mixed"}) EXCEPT !["playback"] = Wav("mic")],
            disk |-> Holding(Wavs({"mic", "mixed"}), {}, {}, {}), regen |-> {"mixed"}]

\* An import has no channels: its mix is the source.
Import == [row |-> WavRow({"mixed"}), disk |-> Holding(Wavs({"mixed"}), {}, {}, {}), regen |-> {}]

\* Cut short by a crash: a channel whose header was never finalised, a mix
\* that doesn't rebuild, and a FLAC damaged before it was committed.
CutShort == [row |-> WavRow(Roles),
             disk |-> Holding(Wavs({"mic", "mixed", "playback"}), {Wav("system")}, {},
                              {Flac("mic")}),
             regen |-> {"mixed"}]

\* Committed by an earlier run of the app that couldn't delete: one WAV is
\* the stored audio, one is not.
LeftBehind == [row |-> [r \in Roles |-> IF r \in Sources THEN Flac(r) ELSE NoPath],
               disk |-> Holding({Flac("mic"), Flac("system"), Wav("mic"), Wav("mixed")}, {},
                                {Wav("system")}, {}),
               regen |-> Derived]

MCLayouts == {TwoChannel, MicOnly, Import, CutShort, LeftBehind}
=============================================================================
