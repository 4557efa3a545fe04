------------------------- MODULE MCTranscriptionStage -------------------------
\* Two runs that share an upload, the audio of the second extracted anew; or a
\* run of two services, the one that is polled and the one that is not, and a run
\* of one service.
EXTENDS TranscriptionStage, TLC

CONSTANTS r1, r2, a1, a2

NewAudio == (r1 :> a1) @@ (r2 :> a2)

SharedUpload == (r1 :> <<"assemblyai">>) @@ (r2 :> <<"assemblyai">>)
MixedServices == (r1 :> <<"speechmatics", "deepgram">>) @@ (r2 :> <<"deepgram">>)

SomeSettings == {SharedUpload, MixedServices}
=============================================================================
