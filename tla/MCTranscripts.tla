---------------------------- MODULE MCTranscripts ----------------------------
(***************************************************************************)
(* Live Xof values, a transcript between a prover and a verifier, or one   *)
(* of the samplers that read a stream: one of the three in a behaviour.    *)
(***************************************************************************)
EXTENDS FiatShamir, Samplers

\* One domain label is a prefix of the other, as greyhound-pcs is of
\* greyhound-pcs-batch.
MCDomains == { <<7>>, <<7, 7>> }
MCChunks == { <<>>, <<1>>, <<7>> }
MCReads == {1, 2}

\* Bytes 0 and 1 imitate the length fields of the one- and two-byte payloads.
MCDomain == <<7>>
MCLabels == { <<1>>, <<0, 1>> }
MCData == { <<>>, <<1>>, <<0>>, <<1, 0>>, <<1, 1, 1>> }
MCLengths == {2}

\* Whichever does not run rests in its first state.
OnSampler == kind # "none"
OnHandles == ~OnSampler /\ trail = <<>>
TranscriptRests ==
  /\ schedule = <<>> /\ trail = <<>> /\ proverOut = <<>>
  /\ transcript = NewXof(Domain) /\ verifierOut = <<>> /\ forged = {}
HandlesRest == xof = [h \in Handles |-> NewXof(Domain)] /\ bytes = NoBlock
SamplerRests == kind = "none" /\ param = 0 /\ draws = <<>> /\ out = <<>>

MCInit ==
  \/ HandlesInit /\ TranscriptRests /\ SamplerRests
  \/ Init /\ HandlesRest /\ SamplerRests
  \/ SamplerInit /\ HandlesRest /\ TranscriptRests
MCNext ==
  \/ OnHandles /\ HandlesNext /\ UNCHANGED <<vars, samplerVars>>
  \/ ~OnHandles /\ ~OnSampler /\ Next /\ UNCHANGED <<handleVars, samplerVars>>
  \/ OnSampler /\ SamplerNext /\ UNCHANGED <<vars, handleVars>>
MCSpec == MCInit /\ [][MCNext]_<<vars, handleVars, samplerVars>>
=============================================================================
