---------------------------- MODULE MCUuidClock ----------------------------
EXTENDS UuidClock, TLC
============================================================================
