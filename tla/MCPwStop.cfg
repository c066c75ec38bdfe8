SPECIFICATION FairSpec
PROPERTY LiveStops
