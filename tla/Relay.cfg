CONSTANTS
  Routes = {"direct", "auto", "proxy", "block"}
  MaxUp = 2
  MaxDown = 2
SPECIFICATION Spec
INVARIANTS TypeOK UploadWhole DownloadWhole
PROPERTIES Releases
CHECK_DEADLOCK FALSE
