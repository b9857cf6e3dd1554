\* A wasm32 guest's figures: pages of 4096 bytes, heads for the classes up to half a page.
CONSTANTS
 MinLog2=12
 MaxLog2=25
 LinkBytes=8
 EndAt=33554432
 AllocSizes={100,3000,8192}
 Aligns={8}
 MinClassLog2=4
 MinSlotsLog2=4
 RunBytes=16
 HeadCount=8
 MostLive=3
 Base=1114112
 WordBytes=4
SPECIFICATION HalfSpec
INVARIANT SlotsFindTheirRun
CHECK_DEADLOCK FALSE
