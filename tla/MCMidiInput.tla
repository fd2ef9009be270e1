----------------------------- MODULE MCMidiInput -----------------------------
EXTENDS MidiInput
MCChannel == [k \in Keys |-> k]
MCMasks == {{1}, {1, 2}}
=============================================================================
