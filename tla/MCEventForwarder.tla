-------------------------- MODULE MCEventForwarder --------------------------
EXTENDS EventForwarder

MCKinds   == {"webhook", "syslog", "cef"}
MCBuckets == {1, 2}
MCHooks   == {1, 2}
MCTimes   == {0, 1}
=============================================================================
