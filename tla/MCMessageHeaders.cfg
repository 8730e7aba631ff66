SPECIFICATION Spec
CONSTANTS
 OctetMod = 128 CountMod = 4 TimePerMs = 2
 Hops <- MCHops
 Words <- MCWords
 Addresses <- MCAddresses
 Times <- MCTimes
INVARIANTS ReadsWhatWasSet SizeIsRight
