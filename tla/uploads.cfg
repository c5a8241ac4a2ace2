SPECIFICATION UploadSpec
CONSTANTS
    Transfers = {u1, u2}
    Files = {"box.img", "box.yaml", "box.iso"}
    Type <- OneOfEach
    Stem <- FirstName
    Names <- Two
    Ports <- Two
    Touched = {1}
    MaxMs = 1
    NoFile = NoFile
    Default = Default
    NoPort = NoPort
SYMMETRY TransferSymmetry
INVARIANTS UploadTypeOK VmIsMadeOfItsUpload NoPartIsLeftBehind
PROPERTIES BridgeFollowsLimaUp
