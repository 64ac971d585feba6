-------------------------------- MODULE MCVoice --------------------------------
EXTENDS VoiceProperties, TLC

CONSTANTS host, ann, bob, c1, c2

MCMembers == {host, ann, bob}
MCRoleSets == {{host}, {ann}}
MCInVoiceAtStart == [u \in MCMembers |-> IF u = host THEN c1 ELSE Nowhere]
MCItinerary == {<<ann, c1>>, <<ann, c2>>, <<ann, Nowhere>>, <<bob, c1>>}
MCUnseen == {<<host, Nowhere>>}
MCSymmetry == Permutations(Handlers)
=============================================================================
