SPECIFICATION StoreSpec
CONSTANTS
  Early <- MCEarly
  Late <- MCLate
  Network = {"xssid"}
  Firmware <- MCFirmware
  Absent = Absent
  MaxChanges = 1
  MaxFaults = 1
PROPERTIES
  SavedIsLoaded
  NetworkKept
