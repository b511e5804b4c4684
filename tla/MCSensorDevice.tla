----------------------------- MODULE MCSensorDevice -----------------------------
EXTENDS SensorDevice

\* The last instance of --deviceID, the wildcard instance and a typing error.
MCDeviceIDs == {-1, 4194302, 4194303}

\* The boundaries of --deviceName and a name longer than any string of the stack.
MCDeviceNames == [bytes : {0, 255, 256, 300}, printable : {TRUE}]
=============================================================================
